---------------------------- MODULE SemaphoreProofs ----------------------------
(***************************************************************************)
(* A semaphore has at most MaxCount holders, for every number of tasks,    *)
(* semaphores and permits.  AtMostMaxCount alone is not inductive: acquire *)
(* looks at Count, so Count has to be tied to the holders (Permit), release *)
(* raises Count on behalf of a task that must still be a holder of a       *)
(* semaphore that is still allocated (CallInv), and a semaphore that was   *)
(* not torn is in the hands of one task while it is allocated or freed     *)
(* (Own).                                                                  *)
(*                                                                         *)
(* Then semaphores on top of the task manager: the wait queue holds        *)
(* exactly the tasks that wait, Count accounts for every permit, and the   *)
(* task manager still keeps what TaskLifecycle says when its tasks may     *)
(* block.                                                                  *)
(***************************************************************************)
EXTENDS Semaphore, SchedulerProofs

Fixing == {"filling", "marking", "unmarking", "emptying"}
Using == {"waiting", "again", "releasing"}

Types ==
    /\ IsAlloced \in [Semaphores -> BOOLEAN]
    /\ MaxCount \in [Semaphores -> Nat]
    /\ Count \in [Semaphores -> Int]
    /\ holders \in [Semaphores -> SUBSET PIDs]
    /\ op \in [PIDs -> {"none", "searching"} \cup Fixing \cup Using]
    /\ Lock \in [PIDs -> Semaphores \cup {NoSemaphore}]
    /\ torn \in SUBSET Semaphores

CallInv ==
    \A p \in PIDs : /\ op[p] # "none" => Lock[p] \in Semaphores
                    /\ op[p] = "releasing" => p \in holders[Lock[p]]

\* Only one task at a time allocates or frees a semaphore, and then nobody uses it.
Own(s) ==
    /\ ~IsAlloced[s] => /\ holders[s] = {}
                        /\ \A p \in PIDs : Lock[p] = s => op[p] \notin Using
    /\ \A p \in PIDs : Lock[p] = s /\ op[p] \in Fixing =>
          /\ IsAlloced[s] <=> op[p] = "unmarking"
          /\ holders[s] = {}
          /\ \A q \in PIDs : Lock[q] = s => q = p \/ op[q] \in {"none", "searching"}
          /\ op[p] \in {"unmarking", "emptying"} => Count[s] = 0

Permit(s) ==
    /\ Cardinality(holders[s]) <= MaxCount[s]
    /\ Count[s] > 0 => Count[s] + Cardinality(holders[s]) <= MaxCount[s]

SInv == /\ Types /\ CallInv
        /\ \A s \in Semaphores \ torn : Own(s) /\ Permit(s)

\* What is counted where nobody is freeing, and what will be counted.
Account(s) ==
    /\ IsAlloced[s] /\ ~Freeing(s) =>
          Count[s] = MaxCount[s] - Cardinality(holders[s]) - Cardinality(Waiters(s)) - lost[s]
    /\ \A p \in PIDs : Lock[p] = s /\ op[p] = "marking" => Count[s] = MaxCount[s] /\ lost[s] = 0

AccountInv ==
    /\ lost \in [Semaphores -> Nat]
    /\ \A s \in Semaphores \ torn : Account(s)

-----------------------------------------------------------------------------
(* Facts about sets of tasks.                                              *)
LEMMA HolderFacts ==
    ASSUME NEW S \in SUBSET PIDs
    PROVE  /\ Cardinality(S) \in Nat
           /\ \A p : p \notin S => Cardinality(S \cup {p}) = Cardinality(S) + 1
           /\ \A p : p \in S => S \cup {p} = S
           /\ \A p \in S : Cardinality(S \ {p}) = Cardinality(S) - 1
           /\ \A T \in SUBSET S : Cardinality(T) \in Nat /\ Cardinality(T) <= Cardinality(S)
<1>1. IsFiniteSet(PIDs)
  BY PoolAssumption, FS_Interval DEF PIDs
<1>2. IsFiniteSet(S)
  BY <1>1, FS_Subset
<1>3. Cardinality(S) \in Nat
  BY <1>2, FS_CardinalityType
<1>4. \A p : p \notin S => Cardinality(S \cup {p}) = Cardinality(S) + 1
  BY <1>2, FS_AddElement
<1>5. \A p \in S : Cardinality(S \ {p}) = Cardinality(S) - 1
  BY <1>2, FS_RemoveElement
<1>6. \A T \in SUBSET S : Cardinality(T) \in Nat /\ Cardinality(T) <= Cardinality(S)
  BY <1>2, FS_Subset, FS_CardinalityType
<1> QED
  BY <1>3, <1>4, <1>5, <1>6

LEMMA SInvInit == SemaphoreInit => SInv
<1> SUFFICES ASSUME SemaphoreInit PROVE SInv
  OBVIOUS
<1>1. Cardinality({}) = 0
  BY FS_EmptySet
<1>2. Types /\ CallInv
  BY DEF SemaphoreInit, Types, CallInv
<1>3. \A s \in Semaphores : Own(s) /\ Permit(s)
  BY <1>1 DEF SemaphoreInit, Own, Permit, Fixing, Using
<1> QED
  BY <1>2, <1>3 DEF SInv

-----------------------------------------------------------------------------
(* A step of task c in a call on semaphore s says nothing of the others.   *)

Local(s, c) ==
    /\ \A p \in PIDs \ {c} : op'[p] = op[p] /\ Lock'[p] = Lock[p]
    /\ op[c] \in {"none", "searching"} \/ Lock[c] = s
    /\ op'[c] \in {"none", "searching"} \/ Lock'[c] = s
    /\ torn \subseteq torn' /\ torn' \subseteq torn \cup {s}
    /\ \A x \in Semaphores \ {s} : /\ IsAlloced'[x] = IsAlloced[x] /\ MaxCount'[x] = MaxCount[x]
                                   /\ Count'[x] = Count[x] /\ holders'[x] = holders[x]

LEMMA ElsewhereOwn ==
    ASSUME NEW s, NEW c \in PIDs, Local(s, c), NEW x \in Semaphores \ {s}, Own(x), Permit(x)
    PROVE  Own(x)' /\ Permit(x)'
<1>1. \A p \in PIDs : /\ Lock'[p] = x /\ op'[p] \in Fixing \cup Using =>
                            Lock[p] = x /\ op[p] = op'[p]
                      /\ Lock'[p] = x /\ op'[p] \notin {"none", "searching"} =>
                            Lock[p] = x /\ op[p] = op'[p]
  BY DEF Local, Fixing, Using
<1>2. /\ IsAlloced'[x] = IsAlloced[x] /\ MaxCount'[x] = MaxCount[x]
      /\ Count'[x] = Count[x] /\ holders'[x] = holders[x]
  BY DEF Local
<1> QED BY <1>1, <1>2 DEF Own, Permit

LEMMA ElsewhereAccount ==
    ASSUME NEW s, NEW c \in PIDs, Local(s, c), NEW x \in Semaphores \ {s}, lost'[x] = lost[x], Account(x)
    PROVE  Account(x)'
<1>1. \A p \in PIDs : \A o \in {"waiting", "again", "unmarking", "marking"} :
          Lock'[p] = x /\ op'[p] = o <=> Lock[p] = x /\ op[p] = o
  BY DEF Local
<1>2. Waiters(x)' = Waiters(x)
  BY <1>1 DEF Waiters
<1>3. Freeing(x)' <=> Freeing(x)
  BY <1>1 DEF Freeing
<1>4. /\ IsAlloced'[x] = IsAlloced[x] /\ MaxCount'[x] = MaxCount[x]
      /\ Count'[x] = Count[x] /\ holders'[x] = holders[x]
  BY DEF Local
<1> QED BY <1>1, <1>2, <1>3, <1>4 DEF Account

\* So a step has only to be looked at where it is made.
LEMMA OnlyOwn ==
    ASSUME SInv, Types', CallInv', NEW s \in Semaphores, NEW c \in PIDs, Local(s, c),
           s \notin torn' => Own(s)' /\ Permit(s)'
    PROVE  SInv'
<1>1. ASSUME NEW x \in Semaphores \ torn', x # s
      PROVE  Own(x)' /\ Permit(x)'
  <2>1. Own(x) /\ Permit(x)
    BY <1>1 DEF SInv, Local
  <2> QED BY <1>1, <2>1, ElsewhereOwn
<1> QED BY <1>1 DEF SInv

LEMMA OnlyAccount ==
    ASSUME AccountInv, lost' \in [Semaphores -> Nat], NEW s \in Semaphores, NEW c \in PIDs, Local(s, c),
           \A x \in Semaphores \ {s} : lost'[x] = lost[x],
           s \notin torn' => Account(s)'
    PROVE  AccountInv'
<1>1. ASSUME NEW x \in Semaphores \ torn', x # s
      PROVE  Account(x)'
  <2>1. Account(x)
    BY <1>1 DEF AccountInv, Local
  <2> QED BY <1>1, <2>1, ElsewhereAccount
<1> QED BY <1>1 DEF AccountInv

-----------------------------------------------------------------------------
(* One lemma for each kind of step.                                        *)

LEMMA AllocKeeps ==
    ASSUME SInv, NEW s \in Semaphores, Alloc_Semaphore(s)
    PROVE  SInv' /\ (AccountInv => AccountInv')
<1>1. PICK c : c = CURRENT_Process
  OBVIOUS
<1>2. /\ c \in PIDs
      /\ op[c] \in {"none", "searching"}
      /\ UNCHANGED <<IsAlloced, MaxCount, Count, holders, lost>>
      /\ \/ op' = [op EXCEPT ![c] = "filling"] /\ Lock' = [Lock EXCEPT ![c] = s] /\ ~IsAlloced[s]
         \/ /\ op' = [op EXCEPT ![c] = "searching"] /\ Lock' = [Lock EXCEPT ![c] = s + 1]
            /\ s + 1 \in Semaphores /\ IsAlloced[s]
         \/ op' = [op EXCEPT ![c] = "none"] /\ Lock' = [Lock EXCEPT ![c] = NoSemaphore] /\ IsAlloced[s]
      /\ torn' = IF ~IsAlloced[s] /\ Users(s) # {} THEN torn \cup {s} ELSE torn
  BY <1>1 DEF Alloc_Semaphore, Running, Enter, poolVars, Tear
<1>3. Types' /\ CallInv'
  BY <1>2 DEF SInv, Types, CallInv, Fixing
<1>4. Local(s, c)
  BY <1>2 DEF Local, SInv, Types
<1>5. ASSUME s \notin torn'
      PROVE  Own(s)' /\ Permit(s)' /\ Waiters(s)' = Waiters(s) /\ (Freeing(s)' <=> Freeing(s))
             /\ \A p \in PIDs : Lock'[p] = s /\ op'[p] = "marking" <=> Lock[p] = s /\ op[p] = "marking"
  <2>1. Own(s) /\ Permit(s) /\ (~IsAlloced[s] => Users(s) = {})
    BY <1>2, <1>5 DEF SInv
  <2>2. \A p \in PIDs : /\ p # c => op'[p] = op[p] /\ Lock'[p] = Lock[p]
                        /\ op'[c] \in {"none", "searching", "filling"}
                        /\ op'[c] = "filling" => ~IsAlloced[s]
    BY <1>2 DEF SInv, Types
  <2>3. ~IsAlloced[s] => \A p \in PIDs : Lock[p] = s => op[p] = "searching"
    BY <2>1 DEF Users
  <2>4. Own(s)'
    BY <1>2, <2>1, <2>2, <2>3 DEF Own, Fixing, Using
  <2>5. Permit(s)'
    BY <1>2, <2>1 DEF Permit
  <2>6. \A p \in PIDs : \A o \in {"waiting", "again", "unmarking", "marking"} :
            Lock'[p] = s /\ op'[p] = o <=> Lock[p] = s /\ op[p] = o
    BY <1>2, <2>2
  <2> QED BY <2>4, <2>5, <2>6 DEF Waiters, Freeing
<1>6. SInv'
  BY <1>2, <1>3, <1>4, <1>5, OnlyOwn
<1>7. ASSUME AccountInv PROVE AccountInv'
  <2>1. ASSUME s \notin torn' PROVE Account(s)'
    <3>1. Account(s)
      BY <1>2, <1>7, <2>1 DEF AccountInv
    <3> QED BY <1>2, <1>5, <2>1, <3>1 DEF Account
  <2>2. lost' \in [Semaphores -> Nat] /\ \A x \in Semaphores \ {s} : lost'[x] = lost[x]
    BY <1>2, <1>7 DEF AccountInv
  <2> QED BY <1>2, <1>4, <1>7, <2>1, <2>2, OnlyAccount
<1> QED BY <1>6, <1>7

LEMMA FillKeeps ==
    ASSUME SInv, NEW s \in Semaphores, NEW n \in Permits, Alloc_Fill(s, n)
    PROVE  SInv' /\ (AccountInv => AccountInv')
<1>1. PICK c : c = CURRENT_Process
  OBVIOUS
<1>2. /\ c \in PIDs /\ op[c] = "filling" /\ Lock[c] = s
      /\ MaxCount' = [MaxCount EXCEPT ![s] = n]
      /\ Count' = [Count EXCEPT ![s] = n]
      /\ lost' = [lost EXCEPT ![s] = 0]
      /\ op' = [op EXCEPT ![c] = "marking"] /\ Lock' = [Lock EXCEPT ![c] = s]
      /\ UNCHANGED <<IsAlloced, holders, torn>>
  BY <1>1 DEF Alloc_Fill, Running, Enter
<1>3. n \in Nat /\ n > 0 /\ Cardinality({}) = 0
  BY SemaphoreAssumption, FS_EmptySet
<1>4. Types' /\ CallInv'
  BY <1>2, <1>3 DEF SInv, Types, CallInv, Fixing
<1>5. Local(s, c)
  BY <1>2 DEF Local, SInv, Types
<1>6. /\ op'[c] = "marking" /\ Lock'[c] = s /\ Count'[s] = n /\ MaxCount'[s] = n
      /\ \A p \in PIDs : p # c => op'[p] = op[p] /\ Lock'[p] = Lock[p]
  BY <1>2 DEF SInv, Types
<1>7. ASSUME s \notin torn'
      PROVE  Own(s)' /\ Permit(s)' /\ ~IsAlloced[s]
  <2>1. Own(s) /\ Permit(s)
    BY <1>2, <1>7 DEF SInv
  <2>2. holders[s] = {} /\ ~IsAlloced[s]
        /\ \A q \in PIDs : Lock[q] = s => q = c \/ op[q] \in {"none", "searching"}
    BY <1>2, <2>1 DEF Own, Fixing
  <2>3. Own(s)'
    BY <1>2, <1>6, <2>2 DEF Own, Fixing, Using
  <2>4. Permit(s)'
    BY <1>2, <1>3, <1>6, <2>2 DEF Permit
  <2> QED BY <2>2, <2>3, <2>4
<1>8. SInv'
  BY <1>2, <1>4, <1>5, <1>7, OnlyOwn
<1>9. ASSUME AccountInv PROVE AccountInv'
  <2>1. lost' \in [Semaphores -> Nat] /\ lost'[s] = 0 /\ \A x \in Semaphores \ {s} : lost'[x] = lost[x]
    BY <1>2, <1>9 DEF AccountInv
  <2>2. ASSUME s \notin torn' PROVE Account(s)'
    BY <1>2, <1>6, <1>7, <2>1, <2>2 DEF Account
  <2> QED BY <1>2, <1>5, <1>9, <2>1, <2>2, OnlyAccount
<1> QED BY <1>8, <1>9

LEMMA MarkKeeps ==
    ASSUME SInv, NEW s \in Semaphores, Alloc_Mark(s)
    PROVE  SInv' /\ (AccountInv => AccountInv')
<1>1. PICK c : c = CURRENT_Process
  OBVIOUS
<1>2. /\ c \in PIDs /\ op[c] = "marking" /\ Lock[c] = s
      /\ IsAlloced' = [IsAlloced EXCEPT ![s] = TRUE]
      /\ op' = [op EXCEPT ![c] = "none"] /\ Lock' = [Lock EXCEPT ![c] = NoSemaphore]
      /\ UNCHANGED <<MaxCount, Count, holders, lost, torn>>
  BY <1>1 DEF Alloc_Mark, Running, Enter
<1>3. Cardinality({}) = 0
  BY FS_EmptySet
<1>4. Types' /\ CallInv'
  BY <1>2 DEF SInv, Types, CallInv
<1>5. Local(s, c)
  BY <1>2 DEF Local, SInv, Types
<1>6. /\ op'[c] = "none" /\ IsAlloced'[s]
      /\ \A p \in PIDs : p # c => op'[p] = op[p] /\ Lock'[p] = Lock[p]
  BY <1>2 DEF SInv, Types
<1>7. ASSUME s \notin torn'
      PROVE  Own(s)' /\ Permit(s)' /\ holders[s] = {} /\ Waiters(s)' = {}
             /\ \A p \in PIDs : Lock'[p] = s => op'[p] # "marking"
  <2>1. Own(s) /\ Permit(s)
    BY <1>2, <1>7 DEF SInv
  <2>2. /\ holders[s] = {}
        /\ \A q \in PIDs : Lock[q] = s => q = c \/ op[q] \in {"none", "searching"}
    BY <1>2, <2>1 DEF Own, Fixing
  <2>3. \A q \in PIDs : Lock'[q] = s => op'[q] \in {"none", "searching"}
    BY <1>6, <2>2
  <2>4. Own(s)'
    BY <1>6, <2>3 DEF Own, Fixing
  <2>5. Permit(s)'
    BY <1>2, <2>1 DEF Permit
  <2>6. Waiters(s)' = {}
    BY <2>3 DEF Waiters
  <2> QED BY <2>2, <2>3, <2>4, <2>5, <2>6
<1>8. SInv'
  BY <1>2, <1>4, <1>5, <1>7, OnlyOwn
<1>9. ASSUME AccountInv PROVE AccountInv'
  <2>1. ASSUME s \notin torn' PROVE Account(s)'
    <3>1. Account(s)
      BY <1>2, <1>9, <2>1 DEF AccountInv
    <3>2. Count'[s] = MaxCount'[s] /\ lost'[s] = 0 /\ MaxCount'[s] \in Nat
      BY <1>2, <3>1 DEF Account, SInv, Types
    <3>3. Count'[s] = MaxCount'[s] - 0 - 0 - 0
      BY <3>2
    <3> QED BY <1>2, <1>3, <1>7, <2>1, <3>2, <3>3 DEF Account
  <2>2. lost' \in [Semaphores -> Nat] /\ \A x \in Semaphores \ {s} : lost'[x] = lost[x]
    BY <1>2, <1>9 DEF AccountInv
  <2> QED BY <1>2, <1>5, <1>9, <2>1, <2>2, OnlyAccount
<1> QED BY <1>8, <1>9

LEMMA FreeKeeps ==
    ASSUME SInv, NEW s \in Semaphores, Free_Semaphore(s)
    PROVE  SInv' /\ (AccountInv => AccountInv')
<1>1. PICK c : c = CURRENT_Process
  OBVIOUS
<1>2. /\ c \in PIDs /\ op[c] = "none" /\ IsAlloced[s]
      /\ Count' = [Count EXCEPT ![s] = 0]
      /\ op' = [op EXCEPT ![c] = "unmarking"] /\ Lock' = [Lock EXCEPT ![c] = s]
      /\ torn' = IF Users(s) \cup holders[s] # {} THEN torn \cup {s} ELSE torn
      /\ UNCHANGED <<IsAlloced, MaxCount, holders, lost>>
  BY <1>1 DEF Free_Semaphore, Running, Enter, poolVars, Tear
<1>3. Cardinality({}) = 0
  BY FS_EmptySet
<1>4. Types' /\ CallInv'
  BY <1>2 DEF SInv, Types, CallInv, Fixing
<1>5. Local(s, c)
  BY <1>2 DEF Local, SInv, Types
<1>6. /\ op'[c] = "unmarking" /\ Lock'[c] = s /\ Count'[s] = 0
      /\ \A p \in PIDs : p # c => op'[p] = op[p] /\ Lock'[p] = Lock[p]
  BY <1>2 DEF SInv, Types
<1>7. ASSUME s \notin torn'
      PROVE  /\ Own(s)' /\ Permit(s)' /\ Freeing(s)'
             /\ \A p \in PIDs : Lock'[p] = s => op'[p] # "marking"
  <2>1. Users(s) = {} /\ holders[s] = {}
    BY <1>2, <1>7
  <2>2. \A q \in PIDs : Lock[q] = s => op[q] = "searching"
    BY <2>1 DEF Users
  <2>3. \A q \in PIDs : Lock'[q] = s => q = c \/ op'[q] = "searching"
    BY <1>6, <2>2
  <2>4. Own(s)'
    BY <1>2, <1>6, <2>1, <2>3 DEF Own, Fixing
  <2>5. Permit(s)'
    BY <1>2, <1>3, <1>6, <2>1 DEF Permit, SInv, Types
  <2> QED BY <1>2, <1>6, <2>3, <2>4, <2>5 DEF Freeing
<1>8. SInv'
  BY <1>2, <1>4, <1>5, <1>7, OnlyOwn
<1>9. ASSUME AccountInv PROVE AccountInv'
  <2>1. ASSUME s \notin torn' PROVE Account(s)'
    BY <1>7, <2>1 DEF Account
  <2>2. lost' \in [Semaphores -> Nat] /\ \A x \in Semaphores \ {s} : lost'[x] = lost[x]
    BY <1>2, <1>9 DEF AccountInv
  <2> QED BY <1>2, <1>5, <1>9, <2>1, <2>2, OnlyAccount
<1> QED BY <1>8, <1>9

LEMMA UnmarkKeeps ==
    ASSUME SInv, NEW s \in Semaphores, Free_Unmark(s) \/ Free_Empty(s)
    PROVE  SInv' /\ (AccountInv => AccountInv')
<1>1. PICK c : c = CURRENT_Process
  OBVIOUS
<1>2. /\ c \in PIDs /\ Lock[c] = s /\ op[c] \in {"unmarking", "emptying"}
      /\ UNCHANGED <<Count, holders, lost, torn>>
      /\ \/ /\ op[c] = "unmarking" /\ op' = [op EXCEPT ![c] = "emptying"]
            /\ Lock' = [Lock EXCEPT ![c] = s]
            /\ IsAlloced' = [IsAlloced EXCEPT ![s] = FALSE] /\ MaxCount' = MaxCount
         \/ /\ op[c] = "emptying" /\ op' = [op EXCEPT ![c] = "none"]
            /\ Lock' = [Lock EXCEPT ![c] = NoSemaphore]
            /\ MaxCount' = [MaxCount EXCEPT ![s] = 0] /\ IsAlloced' = IsAlloced
  BY <1>1 DEF Free_Unmark, Free_Empty, Running, Enter
<1>3. Cardinality({}) = 0
  BY FS_EmptySet
<1>4. Types' /\ CallInv'
  <2>1. Types /\ CallInv
    BY DEF SInv
  <2>2. CASE op[c] = "unmarking"
    <3>1. /\ IsAlloced' = [IsAlloced EXCEPT ![s] = FALSE]
          /\ op' = [op EXCEPT ![c] = "emptying"] /\ Lock' = [Lock EXCEPT ![c] = s]
          /\ UNCHANGED <<MaxCount, Count, holders, torn>>
      BY <1>2, <2>2
    <3>2. IsAlloced' \in [Semaphores -> BOOLEAN]
      BY <2>1, <3>1 DEF Types
    <3>3. Types'
      BY <1>2, <2>1, <3>1, <3>2 DEF Types, Fixing
    <3>4. CallInv'
      BY <1>2, <2>1, <3>1 DEF Types, CallInv
    <3> QED BY <3>3, <3>4
  <2>3. CASE op[c] = "emptying"
    BY <1>2, <2>1, <2>3 DEF Types, CallInv, Fixing
  <2> QED BY <1>2, <2>2, <2>3
<1>5. Local(s, c)
  BY <1>2 DEF Local, SInv, Types
<1>6. /\ op'[c] \in {"emptying", "none"}
      /\ op[c] = "unmarking" => ~IsAlloced'[s] /\ MaxCount'[s] = MaxCount[s]
      /\ op[c] = "emptying" => IsAlloced'[s] = IsAlloced[s] /\ MaxCount'[s] = 0
      /\ \A p \in PIDs : p # c => op'[p] = op[p] /\ Lock'[p] = Lock[p]
  BY <1>2 DEF SInv, Types
<1>7. ASSUME s \notin torn'
      PROVE  Own(s)' /\ Permit(s)' /\ ~IsAlloced'[s]
             /\ \A p \in PIDs : Lock'[p] = s => op'[p] # "marking"
  <2>1. Own(s) /\ Permit(s)
    BY <1>2, <1>7 DEF SInv
  <2>2. /\ holders[s] = {} /\ Count[s] = 0 /\ (IsAlloced[s] <=> op[c] = "unmarking")
        /\ \A q \in PIDs : Lock[q] = s => q = c \/ op[q] \in {"none", "searching"}
    BY <1>2, <2>1 DEF Own, Fixing
  <2>3. \A q \in PIDs : Lock'[q] = s => q = c \/ op'[q] \in {"none", "searching"}
    BY <1>6, <2>2
  <2>4. ~IsAlloced'[s]
    BY <1>2, <1>6, <2>2
  <2>5. Own(s)'
    BY <1>2, <1>6, <2>2, <2>3, <2>4 DEF Own, Fixing, Using
  <2>6. MaxCount'[s] \in Nat /\ Count'[s] = 0 /\ holders'[s] = {}
    BY <1>2, <1>4, <2>2 DEF Types
  <2>7. Permit(s)'
    BY <1>3, <2>6 DEF Permit
  <2> QED BY <1>6, <2>3, <2>4, <2>5, <2>7
<1>8. SInv'
  BY <1>2, <1>4, <1>5, <1>7, OnlyOwn
<1>9. ASSUME AccountInv PROVE AccountInv'
  <2>1. ASSUME s \notin torn' PROVE Account(s)'
    BY <1>7, <2>1 DEF Account
  <2>2. lost' \in [Semaphores -> Nat] /\ \A x \in Semaphores \ {s} : lost'[x] = lost[x]
    BY <1>2, <1>9 DEF AccountInv
  <2> QED BY <1>2, <1>5, <1>9, <2>1, <2>2, OnlyAccount
<1> QED BY <1>8, <1>9

\* Who acquires a semaphore that was not torn finds it allocated.
LEMMA AcquiringFacts ==
    ASSUME SInv, NEW s \in Semaphores, Acquiring(s), s \notin torn'
    PROVE  /\ torn' = torn /\ Own(s) /\ Permit(s) /\ ~Freeing(s) /\ IsAlloced[s]
           /\ \A p \in PIDs : Lock[p] = s => op[p] \notin Fixing
<1>1. /\ CURRENT_Process \in PIDs
      /\ \/ op[CURRENT_Process] = "none" /\ IsAlloced[s]
         \/ op[CURRENT_Process] = "again" /\ Lock[CURRENT_Process] = s
  BY DEF Acquiring, Running
<1>2. torn' = torn /\ ~Freeing(s)
  BY DEF Acquiring, Tear
<1>3. Own(s) /\ Permit(s)
  BY <1>2 DEF SInv
<1>4. IsAlloced[s]
  BY <1>1, <1>3 DEF Own, Using
<1>5. \A p \in PIDs : Lock[p] = s => op[p] \notin Fixing
  BY <1>2, <1>3, <1>4 DEF Own, Freeing
<1> QED BY <1>2, <1>3, <1>4, <1>5

LEMMA SuccessKeeps ==
    ASSUME SInv, NEW s \in Semaphores, acquire_Success(s)
    PROVE  SInv'
<1>1. PICK c : c = CURRENT_Process
  OBVIOUS
<1>2. /\ c \in PIDs
      /\ \/ op[c] = "none" /\ IsAlloced[s]
         \/ op[c] = "again" /\ Lock[c] = s
      /\ Count[s] - 1 >= 0
      /\ Count' = [Count EXCEPT ![s] = @ - 1]
      /\ holders' = [holders EXCEPT ![s] = @ \cup {c}]
      /\ op' = [op EXCEPT ![c] = "none"]
      /\ Lock' = [Lock EXCEPT ![c] = NoSemaphore]
      /\ UNCHANGED <<IsAlloced, MaxCount>>
      /\ torn' = IF Freeing(s) THEN torn \cup {s} ELSE torn
  BY <1>1 DEF acquire_Success, Acquiring, Running, Enter, poolVars, Tear
<1>3. Types' /\ CallInv'
  BY <1>2 DEF SInv, Types, CallInv
<1>4. Local(s, c)
  BY <1>2 DEF Local, SInv, Types
<1>5. ASSUME s \notin torn'
      PROVE  Own(s)' /\ Permit(s)'
  <2>1. /\ Own(s) /\ Permit(s) /\ IsAlloced[s]
        /\ \A p \in PIDs : Lock[p] = s => op[p] \notin Fixing
    BY <1>5, AcquiringFacts DEF acquire_Success
  <2>2. \A p \in PIDs : Lock'[p] = s => op'[p] \notin Fixing
    BY <1>2, <2>1 DEF SInv, Types, Fixing
  <2>3. Own(s)'
    BY <1>2, <2>1, <2>2 DEF Own
  <2>4. holders[s] \in SUBSET PIDs /\ Count[s] \in Int /\ MaxCount[s] \in Nat
    BY DEF SInv, Types
  <2>5. Cardinality(holders[s]) \in Nat /\ Cardinality(holders[s] \cup {c}) <= Cardinality(holders[s]) + 1
    <3>1. CASE c \in holders[s]
      BY <2>4, <3>1, HolderFacts
    <3>2. CASE c \notin holders[s]
      BY <2>4, <3>2, HolderFacts
    <3> QED
      BY <3>1, <3>2
  <2>6. Cardinality(holders[s] \cup {c}) \in Nat
    <3>1. holders[s] \cup {c} \in SUBSET PIDs
      BY <1>2, <2>4
    <3> QED
      BY <3>1, HolderFacts
  <2>7. Count[s] + Cardinality(holders[s]) <= MaxCount[s] /\ Count[s] > 0
    BY <1>2, <2>1, <2>4 DEF Permit
  <2>8. holders'[s] = holders[s] \cup {c} /\ Count'[s] = Count[s] - 1 /\ MaxCount'[s] = MaxCount[s]
    BY <1>2 DEF SInv, Types
  <2>9. Permit(s)'
    <3> DEFINE h == Cardinality(holders[s])
               k == Cardinality(holders[s] \cup {c})
    <3>1. /\ h \in Nat /\ k \in Nat /\ k <= h + 1 /\ Count[s] + h <= MaxCount[s]
          /\ Cardinality(holders'[s]) = k
      BY <2>5, <2>6, <2>7, <2>8
    <3> HIDE DEF h, k
    <3>2. Cardinality(holders'[s]) <= MaxCount[s] /\ Count'[s] + Cardinality(holders'[s]) <= MaxCount[s]
      BY <2>4, <2>7, <2>8, <3>1
    <3> QED
      BY <2>8, <3>2 DEF Permit
  <2> QED
    BY <2>3, <2>9
<1> QED
  BY <1>2, <1>3, <1>4, <1>5, OnlyOwn

LEMMA WaitKeeps ==
    ASSUME SInv, NEW s \in Semaphores, acquire_Wait(s)
    PROVE  SInv'
<1>1. PICK c : c = CURRENT_Process
  OBVIOUS
<1>2. /\ c \in PIDs
      /\ \/ op[c] = "none" /\ IsAlloced[s]
         \/ op[c] = "again" /\ Lock[c] = s
      /\ Count[s] - 1 < 0
      /\ Count' = [Count EXCEPT ![s] = @ - 1]
      /\ op' = [op EXCEPT ![c] = "waiting"]
      /\ Lock' = [Lock EXCEPT ![c] = s]
      /\ UNCHANGED <<IsAlloced, MaxCount, holders>>
      /\ torn' = IF Freeing(s) THEN torn \cup {s} ELSE torn
  BY <1>1 DEF acquire_Wait, Acquiring, Running, Enter, poolVars, Tear
<1>3. Types' /\ CallInv'
  BY <1>2 DEF SInv, Types, CallInv, Using
<1>4. Local(s, c)
  BY <1>2 DEF Local, SInv, Types
<1>5. ASSUME s \notin torn'
      PROVE  Own(s)' /\ Permit(s)'
  <2>1. /\ Own(s) /\ Permit(s) /\ IsAlloced[s]
        /\ \A p \in PIDs : Lock[p] = s => op[p] \notin Fixing
    BY <1>5, AcquiringFacts DEF acquire_Wait
  <2>2. \A p \in PIDs : Lock'[p] = s => op'[p] \notin Fixing
    BY <1>2, <2>1 DEF SInv, Types, Fixing
  <2> QED BY <1>2, <2>1, <2>2 DEF Own, Permit, SInv, Types
<1> QED
  BY <1>2, <1>3, <1>4, <1>5, OnlyOwn

LEMMA GiveOutKeeps ==
    ASSUME SInv, acquire_GiveOut
    PROVE  SInv'
<1>1. PICK c : c = CURRENT_Process
  OBVIOUS
<1>2. /\ c \in PIDs /\ op[c] = "waiting"
      /\ op' = [op EXCEPT ![c] = "again"]
      /\ UNCHANGED <<IsAlloced, MaxCount, Count, Lock, holders, torn>>
  BY <1>1 DEF acquire_GiveOut, Running, poolVars
<1>3. Types' /\ CallInv' /\ Lock[c] \in Semaphores
  BY <1>2 DEF SInv, Types, CallInv, Using
<1>4. Local(Lock[c], c)
  BY <1>2 DEF Local, SInv, Types
<1>5. ASSUME Lock[c] \notin torn'
      PROVE  Own(Lock[c])' /\ Permit(Lock[c])'
  <2>1. Own(Lock[c]) /\ Permit(Lock[c])
    BY <1>2, <1>3, <1>5 DEF SInv
  <2>2. \A p \in PIDs : /\ op'[p] \in Using <=> op[p] \in Using
                        /\ p # c => op'[p] = op[p]
                        /\ op'[c] \notin Fixing \cup {"none", "searching"}
    BY <1>2 DEF SInv, Types, Using, Fixing
  <2>3. Own(Lock[c])'
    BY <1>2, <2>1, <2>2 DEF Own
  <2> QED BY <1>2, <2>1, <2>3 DEF Permit
<1> QED
  BY <1>2, <1>3, <1>4, <1>5, OnlyOwn

LEMMA CheckKeeps ==
    ASSUME SInv, NEW s \in Semaphores, release_Check(s)
    PROVE  SInv'
<1>1. PICK c : c = CURRENT_Process
  OBVIOUS
<1>2. /\ c \in PIDs /\ op[c] = "none" /\ c \in holders[s]
      /\ UNCHANGED <<IsAlloced, MaxCount, Count, torn>>
      /\ \/ holders' = [holders EXCEPT ![s] = @ \ {c}] /\ UNCHANGED <<op, Lock>>
         \/ /\ op' = [op EXCEPT ![c] = "releasing"] /\ Lock' = [Lock EXCEPT ![c] = s]
            /\ UNCHANGED holders
  BY <1>1 DEF release_Check, Running, poolVars, Enter
<1>3. Types' /\ CallInv'
  BY <1>2 DEF SInv, Types, CallInv, Using
<1>4. Local(s, c)
  BY <1>2 DEF Local, SInv, Types
<1>5. ASSUME s \notin torn'
      PROVE  Own(s)' /\ Permit(s)'
  <2>1. Own(s) /\ Permit(s)
    BY <1>2, <1>5 DEF SInv
  <2>2. IsAlloced[s] /\ \A p \in PIDs : Lock[p] = s => op[p] \notin Fixing
    BY <1>2, <2>1 DEF Own
  <2>3. \A p \in PIDs : Lock'[p] = s => op'[p] \notin Fixing
    BY <1>2, <2>2 DEF SInv, Types, Fixing
  <2>4. Own(s)'
    BY <1>2, <2>2, <2>3 DEF Own
  <2>5. holders'[s] \in SUBSET holders[s] /\ holders[s] \in SUBSET PIDs
    BY <1>2 DEF SInv, Types
  <2>6. /\ Cardinality(holders[s]) \in Nat /\ Cardinality(holders'[s]) \in Nat
        /\ Cardinality(holders'[s]) <= Cardinality(holders[s])
    BY <2>5, HolderFacts
  <2>7. Permit(s)'
    BY <1>2, <2>1, <2>6 DEF Permit, SInv, Types
  <2> QED BY <2>4, <2>7
<1> QED
  BY <1>2, <1>3, <1>4, <1>5, OnlyOwn

LEMMA ReleasedKeeps ==
    ASSUME SInv, NEW s \in Semaphores, Released(s), UNCHANGED <<poolVars, torn>>
    PROVE  SInv'
<1>1. PICK c : c = CURRENT_Process
  OBVIOUS
<1>2. /\ c \in PIDs /\ op[c] = "releasing" /\ Lock[c] = s
      /\ Count' = [Count EXCEPT ![s] = @ + 1]
      /\ holders' = [holders EXCEPT ![s] = @ \ {c}]
      /\ op' = [op EXCEPT ![c] = "none"]
      /\ Lock' = [Lock EXCEPT ![c] = NoSemaphore]
      /\ UNCHANGED <<IsAlloced, MaxCount, torn>>
  BY <1>1 DEF Released, Running, Enter, poolVars
<1>3. c \in holders[s]
  BY <1>2 DEF SInv, CallInv
<1>4. Types' /\ CallInv'
  BY <1>2 DEF SInv, Types, CallInv
<1>5. Local(s, c)
  BY <1>2 DEF Local, SInv, Types
<1>6. ASSUME s \notin torn'
      PROVE  Own(s)' /\ Permit(s)'
  <2>1. Own(s) /\ Permit(s)
    BY <1>2, <1>6 DEF SInv
  <2>2. IsAlloced[s] /\ \A p \in PIDs : Lock[p] = s => op[p] \notin Fixing
    BY <1>3, <2>1 DEF Own
  <2>3. \A p \in PIDs : Lock'[p] = s => op'[p] \notin Fixing
    BY <1>2, <2>2 DEF SInv, Types, Fixing
  <2>4. Own(s)'
    BY <1>2, <2>2, <2>3 DEF Own
  <2>5. holders[s] \in SUBSET PIDs /\ Count[s] \in Int /\ MaxCount[s] \in Nat
    BY DEF SInv, Types
  <2>6. Cardinality(holders[s]) \in Nat /\ Cardinality(holders[s] \ {c}) = Cardinality(holders[s]) - 1
    BY <1>3, <2>5, HolderFacts
  <2>7. holders'[s] = holders[s] \ {c} /\ Count'[s] = Count[s] + 1 /\ MaxCount'[s] = MaxCount[s]
    BY <1>2 DEF SInv, Types
  <2>8. Permit(s)'
    BY <2>1, <2>5, <2>6, <2>7 DEF Permit
  <2> QED
    BY <2>4, <2>8
<1> QED
  BY <1>2, <1>4, <1>5, <1>6, OnlyOwn

(* A step of the task manager can only take holders away.                  *)
LEMMA TaskStepKeeps ==
    ASSUME SInv, TaskStep
    PROVE  SInv'
<1>1. /\ op' = [p \in PIDs |-> IF p \in Freed THEN "none" ELSE op[p]]
      /\ Lock' = [p \in PIDs |-> IF p \in Freed THEN NoSemaphore ELSE Lock[p]]
      /\ holders' = [s \in Semaphores |-> holders[s] \ Freed]
      /\ torn' = torn \cup {Lock[p] : p \in {q \in Freed : op[q] = "unmarking"}}
      /\ UNCHANGED <<IsAlloced, MaxCount, Count>>
  BY DEF TaskStep, poolVars
<1>2. Freed \subseteq PIDs
  BY DEF Freed
<1>3. Types' /\ CallInv'
  BY <1>1, <1>2 DEF SInv, Types, CallInv
<1>4. ASSUME NEW s \in Semaphores \ torn'
      PROVE  Own(s)' /\ Permit(s)'
  <2>1. Own(s) /\ Permit(s) /\ s \notin torn
    BY <1>1, <1>4 DEF SInv
  <2>2. \A p \in PIDs : Lock'[p] = s => p \notin Freed /\ Lock[p] = s /\ op'[p] = op[p]
    BY <1>1, <1>4 DEF NoSemaphore, Semaphores
  <2>3. holders'[s] \in SUBSET holders[s] /\ holders[s] \in SUBSET PIDs
    BY <1>1 DEF SInv, Types
  <2>4. Own(s)'
    BY <1>1, <2>1, <2>2, <2>3 DEF Own
  <2>5. /\ Cardinality(holders[s]) \in Nat /\ Cardinality(holders'[s]) \in Nat
        /\ Cardinality(holders'[s]) <= Cardinality(holders[s])
    BY <2>3, HolderFacts
  <2>6. Permit(s)'
    BY <1>1, <2>1, <2>5 DEF Permit, SInv, Types
  <2> QED BY <2>4, <2>6
<1> QED
  BY <1>3, <1>4 DEF SInv

LEMMA SInvNext == SInv /\ [SemaphoreNext]_allVars => SInv'
<1> SUFFICES ASSUME SInv, [SemaphoreNext]_allVars PROVE SInv'
  OBVIOUS
<1>1. CASE TaskStep
  BY <1>1, TaskStepKeeps
<1>2. CASE acquire_GiveOut
  BY <1>2, GiveOutKeeps
<1>4. ASSUME NEW s \in Semaphores, SemaphoreStep(s)
      PROVE  SInv'
  <2>1. CASE Free_Semaphore(s) \/ Free_Unmark(s) \/ Free_Empty(s)
    BY <2>1, FreeKeeps, UnmarkKeeps
  <2>7. CASE Alloc_Semaphore(s) \/ Alloc_Mark(s) \/ \E n \in Permits : Alloc_Fill(s, n)
    BY <2>7, AllocKeeps, FillKeeps, MarkKeeps
  <2>2. CASE acquire_Success(s)
    BY <2>2, SuccessKeeps
  <2>3. CASE acquire_Wait(s)
    BY <2>3, WaitKeeps
  <2>4. CASE release_Check(s)
    BY <2>4, CheckKeeps
  <2>5. CASE release_Count(s)
    BY <2>5, ReleasedKeeps DEF release_Count, poolVars
  <2>6. CASE release_Wake(s)
    BY <2>6, ReleasedKeeps DEF release_Wake, poolVars
  <2> QED
    BY <1>4, <2>1, <2>2, <2>3, <2>4, <2>5, <2>6, <2>7 DEF SemaphoreStep
<1>5. CASE UNCHANGED allVars
  BY <1>5 DEF allVars, semaphoreVars, poolVars, SInv, Types, CallInv, Own, Permit
<1> QED
  BY <1>1, <1>2, <1>4, <1>5 DEF SemaphoreNext

(* A semaphore that two tasks did not get at once, and that was not freed  *)
(* in use, never has more holders than permits, whatever order             *)
(* allocations, acquires, releases, frees, preemptions and terminations    *)
(* come in (semaphore.c).                                                  *)
THEOREM SemaphoreSafe == SemaphoreSpec => []AtMostMaxCount
<1>1. SInv => AtMostMaxCount
  BY DEF SInv, Permit, AtMostMaxCount
<1> QED
  BY <1>1, SInvInit, SInvNext, PTL DEF SemaphoreSpec

-----------------------------------------------------------------------------
(* The semaphores and the task manager together.                           *)
(*                                                                         *)
(* The invariant of the task manager (IInv) is kept by the steps of the    *)
(* semaphores too, with one thing to see to: a task in acquire is WAITING  *)
(* while it still runs, until it is preempted or gives the processor out.  *)
(* WaitInv says that such a task makes no call that would end it, move it  *)
(* or let it acquire again.  Nothing of this survives the step in which    *)
(* release uses a NULL PCB, so it is claimed only while ~halted.           *)

InAcquire == {"waiting", "again"}
GivingOut == {"yield", "switch", "resumed"}

WaitInv ==
    /\ \A p \in PIDs : PFlag[p] = "WAITING" => op[p] \in InAcquire
    /\ \A p \in PIDs : op[p] \in InAcquire =>
          PFlag[p] \in {"WAITING", "TERMINATED"} /\ p \notin holders[Lock[p]]
    /\ \A p \in PIDs : op[p] = "again" => at[p] \in GivingOut

Inv ==
    /\ SInv
    /\ AccountInv
    /\ ~halted => IInv /\ WaitInv

-----------------------------------------------------------------------------
(* The tasks that wait for a semaphore, as a set.                          *)

LEMMA WaitersFacts ==
    ASSUME NEW s
    PROVE  /\ Waiters(s) \in SUBSET PIDs
           /\ Waiters(s) = {p \in PIDs : Lock[p] = s /\ op[p] \in InAcquire}
           /\ Waiters(s)' = {p \in PIDs : Lock'[p] = s /\ op'[p] \in InAcquire}
BY DEF Waiters, InAcquire

\* A task that neither waits before nor after a step, when nobody else enters
\* or leaves a call, changes no set of waiters.
LEMMA WaitersKept ==
    ASSUME NEW c \in PIDs, op[c] \notin InAcquire, op'[c] \notin InAcquire,
           \A p \in PIDs : p # c => op'[p] = op[p] /\ Lock'[p] = Lock[p]
    PROVE  \A s : Waiters(s)' = Waiters(s)
BY WaitersFacts

\* What a set of tasks loses of two disjoint sets.
LEMMA SplitFacts ==
    ASSUME NEW H \in SUBSET PIDs, NEW W \in SUBSET PIDs, H \cap W = {}, NEW F
    PROVE  /\ Cardinality(H) + Cardinality(W) =
                 Cardinality(H \ F) + Cardinality(W \ F) + Cardinality(F \cap (H \cup W))
           /\ Cardinality(H) \in Nat /\ Cardinality(W) \in Nat
           /\ Cardinality(H \ F) \in Nat /\ Cardinality(W \ F) \in Nat
           /\ Cardinality(F \cap (H \cup W)) \in Nat
<1>1. IsFiniteSet(H) /\ IsFiniteSet(W) /\ IsFiniteSet(H \cup W)
  BY ConstantFacts, FS_Subset
<1>2. IsFiniteSet(H \cap F) /\ IsFiniteSet(W \cap F) /\ IsFiniteSet(F \cap (H \cup W))
      /\ IsFiniteSet(H \ F) /\ IsFiniteSet(W \ F)
  BY <1>1, FS_Subset
<1>3. /\ Cardinality(H) \in Nat /\ Cardinality(W) \in Nat
      /\ Cardinality(H \cap F) \in Nat /\ Cardinality(W \cap F) \in Nat
      /\ Cardinality(H \ F) \in Nat /\ Cardinality(W \ F) \in Nat
      /\ Cardinality(F \cap (H \cup W)) \in Nat
  BY <1>1, <1>2, FS_CardinalityType
<1>4. /\ Cardinality(H \ F) = Cardinality(H) - Cardinality(H \cap F)
      /\ Cardinality(W \ F) = Cardinality(W) - Cardinality(W \cap F)
  BY <1>1, FS_Difference
<1>5. Cardinality(F \cap (H \cup W)) = Cardinality(H \cap F) + Cardinality(W \cap F)
  <2>1. F \cap (H \cup W) = (H \cap F) \cup (W \cap F) /\ (H \cap F) \cap (W \cap F) = {}
    OBVIOUS
  <2>2. Cardinality((H \cap F) \cup (W \cap F)) =
            Cardinality(H \cap F) + Cardinality(W \cap F) - Cardinality((H \cap F) \cap (W \cap F))
    BY <1>2, FS_Union
  <2>3. Cardinality((H \cap F) \cap (W \cap F)) = 0
    BY <2>1, FS_EmptySet
  <2>4. Cardinality((H \cap F) \cup (W \cap F)) = Cardinality(H \cap F) + Cardinality(W \cap F)
    BY <1>3, <2>2, <2>3
  <2> QED BY <2>1, <2>4
<1> QED BY <1>3, <1>4, <1>5

\* Nobody holds what he waits for.
LEMMA Disjoint ==
    ASSUME Types, WaitInv, NEW s \in Semaphores
    PROVE  holders[s] \cap Waiters(s) = {} /\ holders[s] \in SUBSET PIDs
BY WaitersFacts DEF WaitInv, Types

-----------------------------------------------------------------------------
(* The task manager goes on.                                               *)

LEMMA TaskStepNext ==
    ASSUME TaskStep
    PROVE  /\ Next
           /\ \/ Tick \/ KernelStep
              \/ /\ op[CURRENT_Process] = "none"
                 /\ \/ Yield \/ Create_Process_Check \/ Terminate_Process_Self
                    \/ \E p \in PIDs : Terminate_Process_Check(p)
BY DEF TaskStep, TaskCall, Next, KernelStep, Create, Terminate

LEMMA TaskIInv ==
    ASSUME IInv, WaitInv, ~FillsPool, Orderly, TaskStep
    PROVE  IInv'
<1>1. op[CURRENT_Process] = "none" => PFlag[CURRENT_Process] # "WAITING"
  BY DEF WaitInv, InAcquire, IInv, TypeOK
<1> QED BY <1>1, TaskStepNext, KernelInv, EnterInv

\* Only terminated tasks are freed.
LEMMA FreedFacts ==
    ASSUME IInv, IInv', ~FillsPool, Orderly, Next
    PROVE  /\ Freed \in SUBSET PIDs
           /\ \A p \in PIDs : p \in Freed <=> PFlag[p] = "TERMINATED" /\ PFlag'[p] = "FREE"
<1>1. \A p \in PIDs : /\ PFlag[p] = "FREE" <=> ~PCB_Is_Alloced[p]
                      /\ PFlag'[p] = "FREE" <=> ~PCB_Is_Alloced'[p]
  BY DEF IInv, FlagInv
<1>2. \A p \in PIDs : PFlag'[p] = "FREE" => PFlag[p] \in {"TERMINATED", "FREE"}
  BY FlagSteps
<1> QED BY <1>1, <1>2 DEF Freed

\* A task that has waited, or has been terminated, does not get out of
\* GiveOut_Processor by itself.
LEMMA StaysOut ==
    ASSUME IInv, ~FillsPool, Orderly, Next, NEW p \in PIDs,
           PFlag[p] \in {"WAITING", "TERMINATED"}, at[p] \in GivingOut
    PROVE  at'[p] \in GivingOut \/ PFlag'[p] = "FREE"
<1> USE DEF GivingOut
<1>1. /\ at \in [PIDs -> Locations] /\ PFlag \in [PIDs -> Flags]
      /\ CURRENT_Process \in PIDs /\ PID_SCHED \in PIDs
      /\ p # PID_SCHED
  BY ConstantFacts DEF IInv, TypeOK, FlagInv
<1>2. CASE at' = at
  BY <1>2
<1>3. CASE Tick
  BY <1>2, <1>3 DEF Tick, ISR_Timer, Preempted_ByTimeOut, Preempted_NoTask
<1>4. CASE GiveOut_Processor_Check
  <2>1. p = CURRENT_Process => Is_TaskInQueue
    BY <1>1, SchedReady
  <2> QED BY <1>1, <1>4, <2>1 DEF GiveOut_Processor_Check, Goto
<1>5. CASE GiveOut_Processor_Switch
  BY <1>1, <1>5 DEF GiveOut_Processor_Switch, Goto
<1>6. CASE GiveOut_Processor_Return
  <2>1. p # CURRENT_Process
    BY <1>6 DEF GiveOut_Processor_Return, At, IInv, FlagInv
  <2> QED BY <1>1, <1>6, <2>1 DEF GiveOut_Processor_Return, Goto
<1>7. ASSUME NEW loc, Goto(loc), at[CURRENT_Process] \notin GivingOut
      PROVE  at'[p] \in GivingOut
  <2>1. p # CURRENT_Process
    BY <1>7
  <2> QED BY <1>1, <1>7, <2>1 DEF Goto
<1>8. CASE Yield \/ Create_Process_Check \/ Terminate_Process_Self \/ Terminate_Process_Other
  BY <1>7, <1>8 DEF Yield, Create_Process_Check, Terminate_Process_Self,
                    Terminate_Process_Other, Calling, At
<1>9. ASSUME NEW v \in PIDs, Terminate_Process_Check(v)
       PROVE  at'[p] \in GivingOut
  BY <1>7, <1>9 DEF Terminate_Process_Check, Calling, At
<1>10. CASE sched_Loop \/ sched_Take \/ sched_Done
  BY <1>7, <1>10 DEF sched_Loop, sched_Take, sched_Done, At
<1>11. CASE sched_KillChild
  BY <1>2, <1>11 DEF sched_KillChild
<1>12. CASE Free_PCB
  <2> DEFINE t == TerminateProcess
  <2>1. /\ At("reap")
        /\ PFlag' = [PFlag EXCEPT ![t] = "FREE"]
        /\ at' = [at EXCEPT ![t] = "none", ![CURRENT_Process] = "drain"]
    BY <1>12 DEF Free_PCB
  <2>2. CURRENT_Process = PID_SCHED
    BY <2>1, SchedDrains
  <2> HIDE DEF t
  <2> QED BY <1>1, <2>1, <2>2
<1>13. ASSUME NEW prio, NEW isThread, Create_PCB(prio, isThread), At("create") \/ At("create_shell")
       PROVE  at'[p] \in GivingOut
  <2>1. FirstFree \in PIDs /\ PFlag[FirstFree] = "FREE"
    BY <1>13, FirstFreeFacts DEF Create_PCB, IInv, FlagInv
  <2>2. at' = [at EXCEPT ![FirstFree] = "run", ![CURRENT_Process] = Home]
    BY <1>13 DEF Create_PCB
  <2>3. p # FirstFree /\ p # CURRENT_Process
    BY <1>13, <2>1 DEF At
  <2> QED BY <1>1, <2>2, <2>3
<1>14. ASSUME NEW prio \in UsedPriorities, NEW isThread \in BOOLEAN, Create_Process(prio, isThread)
       PROVE  at'[p] \in GivingOut
  <2>1. At("create") /\ (Create_PCB(prio, isThread) \/ Create_Refused(isThread))
    BY <1>14 DEF Create_Process
  <2> QED BY <1>7, <1>13, <2>1 DEF Create_Refused, At
<1>15. CASE sched_CreateStartProcess
  BY <1>13, <1>15 DEF sched_CreateStartProcess
<1> QED
  BY <1>3, <1>4, <1>5, <1>6, <1>8, <1>9, <1>10, <1>11, <1>12, <1>14, <1>15
  DEF Next, GiveOut, Create, Terminate, Sched

\* What a step of the task manager does to the calls and the accounts.
LEMMA TaskWaitInv ==
    ASSUME IInv, WaitInv, SInv, ~FillsPool, Orderly, TaskStep
    PROVE  WaitInv'
<1>1. /\ op' = [p \in PIDs |-> IF p \in Freed THEN "none" ELSE op[p]]
      /\ Lock' = [p \in PIDs |-> IF p \in Freed THEN NoSemaphore ELSE Lock[p]]
      /\ holders' = [s \in Semaphores |-> holders[s] \ Freed]
  BY DEF TaskStep
<1>2. Next
  BY TaskStepNext
<1>3. \A p \in PIDs : p \in Freed <=> PFlag[p] = "TERMINATED" /\ PFlag'[p] = "FREE"
  BY <1>2, TaskIInv, FreedFacts
<1>4. \A p \in PIDs : PFlag'[p] = "WAITING" => op'[p] \in InAcquire
  <2> SUFFICES ASSUME NEW p \in PIDs, PFlag'[p] = "WAITING"
               PROVE  op'[p] \in InAcquire
    OBVIOUS
  <2>1. PFlag[p] = "WAITING" /\ p \notin Freed
    BY <1>2, <1>3, FlagSteps
  <2> QED BY <1>1, <2>1 DEF WaitInv
<1>5. ASSUME NEW p \in PIDs, op'[p] \in InAcquire
      PROVE  /\ p \notin Freed /\ op[p] = op'[p]
             /\ PFlag[p] \in {"WAITING", "TERMINATED"}
             /\ PFlag'[p] \in {"WAITING", "TERMINATED"}
             /\ p \notin holders'[Lock'[p]]
  <2>1. p \notin Freed /\ op'[p] = op[p] /\ Lock'[p] = Lock[p]
    BY <1>1, <1>5 DEF InAcquire
  <2>2. PFlag[p] \in {"WAITING", "TERMINATED"} /\ p \notin holders[Lock[p]]
    BY <1>5, <2>1 DEF WaitInv
  <2>3. PFlag'[p] \in {"WAITING", "TERMINATED"}
    BY <1>2, <1>3, <2>1, <2>2, FlagSteps
  <2>4. Lock[p] \in Semaphores
    BY <1>5, <2>1 DEF SInv, CallInv, InAcquire
  <2> QED BY <1>1, <2>1, <2>2, <2>3, <2>4
<1>6. \A p \in PIDs : op'[p] = "again" => at'[p] \in GivingOut
  <2> SUFFICES ASSUME NEW p \in PIDs, op'[p] = "again"
               PROVE  at'[p] \in GivingOut
    OBVIOUS
  <2>1. /\ op[p] = "again" /\ PFlag[p] \in {"WAITING", "TERMINATED"} /\ PFlag'[p] # "FREE"
    BY <1>5 DEF InAcquire
  <2>2. at[p] \in GivingOut
    BY <2>1 DEF WaitInv
  <2> QED BY <1>2, <2>1, <2>2, StaysOut
<1> QED BY <1>4, <1>5, <1>6 DEF WaitInv

LEMMA TaskAccountInv ==
    ASSUME IInv, WaitInv, SInv, AccountInv, ~FillsPool, Orderly, TaskStep
    PROVE  AccountInv'
<1>1. /\ op' = [p \in PIDs |-> IF p \in Freed THEN "none" ELSE op[p]]
      /\ Lock' = [p \in PIDs |-> IF p \in Freed THEN NoSemaphore ELSE Lock[p]]
      /\ holders' = [s \in Semaphores |-> holders[s] \ Freed]
      /\ lost' = [s \in Semaphores |->
                     lost[s] + Cardinality(Freed \cap (holders[s] \cup Waiters(s)))]
      /\ torn' = torn \cup {Lock[p] : p \in {q \in Freed : op[q] = "unmarking"}}
      /\ UNCHANGED <<IsAlloced, MaxCount, Count>>
  BY DEF TaskStep, poolVars
<1>2. ASSUME NEW s \in Semaphores
      PROVE  /\ lost'[s] \in Nat
             /\ s \notin torn' => Account(s)'
  <2> DEFINE H == holders[s]
             W == Waiters(s)
             gone == Cardinality(Freed \cap (H \cup W))
  <2>1. H \in SUBSET PIDs /\ W \in SUBSET PIDs /\ H \cap W = {}
    BY Disjoint, WaitersFacts DEF SInv
  <2>2. Waiters(s)' = W \ Freed
    BY <1>1, WaitersFacts DEF InAcquire, NoSemaphore, Semaphores
  <2>3. /\ Cardinality(H) + Cardinality(W) =
              Cardinality(H \ Freed) + Cardinality(W \ Freed) + gone
        /\ Cardinality(H) \in Nat /\ Cardinality(W) \in Nat
        /\ Cardinality(H \ Freed) \in Nat /\ Cardinality(W \ Freed) \in Nat
        /\ gone \in Nat
    BY <2>1, SplitFacts
  <2>4. holders'[s] = H \ Freed /\ lost'[s] = lost[s] + gone
    BY <1>1
  <2>5. lost[s] \in Nat /\ Count[s] \in Int /\ MaxCount[s] \in Nat
    BY DEF AccountInv, SInv, Types
  <2>6. ASSUME s \notin torn'
        PROVE  Account(s)'
    <3>1. s \notin torn /\ Account(s) /\ Own(s)
      BY <1>1, <2>6 DEF AccountInv, SInv
    <3>2. Freeing(s)' <=> Freeing(s)
      BY <1>1, <2>6 DEF Freeing, NoSemaphore, Semaphores
    <3>3. IsAlloced[s] /\ ~Freeing(s) =>
              Count[s] = MaxCount[s] - Cardinality(H) - Cardinality(W) - lost[s]
      BY <3>1 DEF Account
    <3>4. IsAlloced[s] /\ ~Freeing(s) =>
              Count[s] = MaxCount[s] - Cardinality(H \ Freed) - Cardinality(W \ Freed) - (lost[s] + gone)
      <4> HIDE DEF H, W, gone
      <4> QED BY <2>3, <2>5, <3>3
    <3>5. ASSUME NEW p \in PIDs, Lock'[p] = s, op'[p] = "marking"
          PROVE  Count[s] = MaxCount[s] /\ lost'[s] = 0
      <4>1. Lock[p] = s /\ op[p] = "marking"
        BY <1>1, <3>5
      <4>2. Count[s] = MaxCount[s] /\ lost[s] = 0
        BY <3>1, <4>1 DEF Account
      <4>3. H = {} /\ W = {}
        BY <3>1, <4>1, WaitersFacts DEF Own, Fixing, InAcquire
      <4>4. gone = 0
        BY <4>3, FS_EmptySet
      <4> HIDE DEF H, W, gone
      <4> QED BY <2>4, <4>2, <4>4
    <3> HIDE DEF H, W, gone
    <3> QED BY <1>1, <2>2, <2>4, <3>2, <3>4, <3>5 DEF Account
  <2> HIDE DEF H, W, gone
  <2> QED BY <2>3, <2>4, <2>5, <2>6
<1>3. lost' \in [Semaphores -> Nat]
  BY <1>1, <1>2
<1> QED BY <1>2, <1>3 DEF AccountInv

-----------------------------------------------------------------------------
(* The steps of the semaphores.                                            *)

\* A task in its own code is alive, waits only if it has just entered the
\* wait queue, and is in no second call of acquire.
LEMMA RunningFacts ==
    ASSUME IInv, WaitInv, SInv, Running
    PROVE  /\ CURRENT_Process \in PIDs /\ CURRENT_Process # PID_SCHED
           /\ at[CURRENT_Process] = "run"
           /\ PFlag[CURRENT_Process] \in {"RUNNING", "WAITING"}
           /\ op[CURRENT_Process] # "again"
           /\ op[CURRENT_Process] \notin InAcquire => PFlag[CURRENT_Process] = "RUNNING"
<1>1. /\ CURRENT_Process \in PIDs /\ CURRENT_Process # PID_SCHED
      /\ at[CURRENT_Process] = "run"
  BY DEF Running, At
<1>2. PFlag[CURRENT_Process] \in {"RUNNING", "WAITING"}
  BY <1>1 DEF IInv, FlagInv
<1>3. op[CURRENT_Process] # "again"
  BY <1>1 DEF WaitInv, GivingOut
<1> QED BY <1>1, <1>2, <1>3 DEF WaitInv, InAcquire

\* The running task enters the wait queue and goes on running.
LEMMA EnqueueInv ==
    ASSUME IInv, WaitInv, SInv, ~FillsPool, Orderly, NEW s \in Semaphores, acquire_Wait(s)
    PROVE  /\ IInv'
           /\ \A p \in PIDs : p # CURRENT_Process => PFlag'[p] = PFlag[p]
           /\ PFlag'[CURRENT_Process] = "WAITING"
<1> DEFINE c == CURRENT_Process
<1>1. /\ Running /\ op[c] \in {"none", "again"} /\ Booted
      /\ Wait_Queue' = Add_Task_in_Tail(Wait_Queue, c, UseCount)
      /\ PFlag' = [PFlag EXCEPT ![c] = "WAITING"]
      /\ UNCHANGED <<PCB_Is_Alloced, Priority, ParentPID, Is_Thread, Childs, Use_FPU, at, target,
                     RFLAGS, ReadyQueue, TerminateQueue, UseCount, cpuVars, schedVars>>
  BY DEF acquire_Wait, Acquiring
<1>2. c \in PIDs /\ c # PID_SCHED /\ at[c] = "run" /\ PFlag[c] = "RUNNING"
  BY <1>1, RunningFacts DEF InAcquire
<1>3. CURRENT_Process = c /\ CURRENT_Process' = c
  BY <1>1 DEF cpuVars
<1> HIDE DEF c
<1>4. at[PID_SCHED] = "resumed" /\ TerminateProcess = NoPID /\ TerminateProcess' = NoPID
  BY <1>1, <1>2, <1>3, CallerFacts DEF schedVars
<1>5. TypeOK /\ PFlag \in [PIDs -> Flags] /\ Wait_Queue \in Seq(PIDs) /\ QueueInv
      /\ PID_SCHED \in PIDs /\ NoPID \notin PIDs
  BY ConstantFacts DEF IInv, TypeOK
<1>6. /\ PFlag' \in [PIDs -> Flags] /\ PFlag'[c] = "WAITING"
      /\ \A p \in PIDs : p # c => PFlag'[p] = PFlag[p]
  BY <1>1, <1>2, <1>5 DEF Flags
<1>7. /\ Wait_Queue' \in Seq(PIDs)
      /\ NoRepeats(Wait_Queue')
      /\ \A x : Holds(Wait_Queue', x) <=> Holds(Wait_Queue, x) \/ x = c
  <2>1. Wait_Queue' = Append(Wait_Queue, c)
    BY <1>1, RoomFacts DEF Add_Task_in_Tail
  <2>2. ~Holds(Wait_Queue, c) /\ NoRepeats(Wait_Queue)
    BY <1>2, <1>5 DEF QueueInv
  <2> QED BY <1>2, <1>5, <2>1, <2>2, AppendFacts
<1>8. TypeOK'
  BY <1>1, <1>5, <1>6, <1>7 DEF TypeOK, cpuVars, schedVars
<1>9. LocationInv'
  BY <1>1 DEF IInv, LocationInv
<1>10. FlagInv'
  BY <1>1, <1>2, <1>3, <1>5, <1>6 DEF IInv, FlagInv, cpuVars
<1>11. QueueInv'
  <2>1. \A p \in PIDs : Settled(p)' => p # c /\ Settled(p)
    BY <1>1, <1>3, <1>4 DEF Settled
  <2>2. NoTaskLost'
    BY <1>1, <1>5, <1>6, <1>7, <2>1 DEF QueueInv, NoTaskLost
  <2>3. \A p \in PIDs : Holds(Wait_Queue', p) <=> PFlag'[p] = "WAITING"
    BY <1>5, <1>6, <1>7 DEF QueueInv
  <2>4. \A p \in PIDs, q \in Priorities : Holds(ReadyQueue'[q], p) =>
            PFlag'[p] = "READY" /\ Priority'[p] = q
    BY <1>1, <1>2, <1>5, <1>6 DEF QueueInv
  <2>5. \A p \in PIDs : Holds(TerminateQueue', p) =>
            PFlag'[p] = "TERMINATED" /\ p # CURRENT_Process' /\ p # TerminateProcess'
    BY <1>1, <1>2, <1>3, <1>4, <1>5, <1>6 DEF QueueInv
  <2> QED BY <1>1, <1>5, <1>7, <2>2, <2>3, <2>4, <2>5 DEF QueueInv
<1>12. ReaperInv'
  BY <1>1, <1>4 DEF ReaperInv
<1>13. MaskInv'
  BY <1>1, <1>2, <1>3, <1>4 DEF IInv, MaskInv, Booted, cpuVars, schedVars
<1>14. OrderInv'
  BY <1>1, <1>3, <1>6 DEF IInv, OrderInv
<1>15. WindowInv'
  <2> SUFFICES ASSUME NEW k \in PIDs, at[k] = "kill"
               PROVE  /\ Booted'
                      /\ PFlag'[k] \in {"READY", "RUNNING"}
                      /\ target[k] \in PIDs \ {k, PID_SCHED}
                      /\ PFlag'[target[k]] \in {"READY", "RUNNING", "WAITING"}
                      /\ \A j \in PIDs : at[j] = "kill" => j = k
                      /\ \A d \in PIDs : PFlag'[d] = "TERMINATED" => ~Cascades(d)
    BY <1>1 DEF WindowInv, Cascades
  <2>1. k # c /\ Booted'
    BY <1>1, <1>2 DEF Booted
  <2> QED BY <1>6, <2>1 DEF IInv, WindowInv
<1>16. PoolInv'
  <2>1. Creating' \subseteq Creating
    BY <1>1 DEF Creating
  <2> QED BY <1>1, <1>5, <2>1, PoolKept DEF IInv
<1>17. ThreadsHaveProcess'
  BY <1>1, <1>2, <1>6 DEF IInv, ThreadsHaveProcess
<1>18. ChildrenNameParent'
  BY <1>1 DEF IInv, ChildrenNameParent
<1>19. IInv'
  BY <1>8, <1>9, <1>10, <1>11, <1>12, <1>13, <1>14, <1>15, <1>16, <1>17, <1>18 DEF IInv
<1> QED BY <1>3, <1>6, <1>19

\* After the sti of acquire a waiting task calls GiveOut_Processor.
LEMMA AcquireGiveOutInv ==
    ASSUME IInv, acquire_GiveOut
    PROVE  IInv'
<1>1. Quiet /\ UNCHANGED <<target, cpuVars, sched_RFLAGS>> /\ Goto("yield") /\ At("run")
  BY DEF acquire_GiveOut, Running, Quiet, cpuVars, schedVars
<1>2. /\ Time_' \in 0 .. PROCESSOR_TIME /\ Schedule_Priority' \in Priorities
      /\ IntFlag' \in BOOLEAN /\ IntFlag' = IntFlag
      /\ UNCHANGED <<target, LastUsed_PID, CR0_TS, sched_RFLAGS>>
  BY <1>1 DEF IInv, TypeOK, cpuVars
<1> QED BY <1>1, <1>2, GotoIInv DEF At, SchedLocations, TaskLocations

\* Allocating and freeing is no business of the task manager.
FixStep(s) ==
    \/ Alloc_Semaphore(s) \/ Alloc_Mark(s) \/ \E n \in Permits : Alloc_Fill(s, n)
    \/ Free_Semaphore(s) \/ Free_Unmark(s) \/ Free_Empty(s)

LEMMA FixStepKeepsAll ==
    ASSUME IInv, WaitInv, SInv, AccountInv, NEW s \in Semaphores, FixStep(s)
    PROVE  IInv' /\ WaitInv' /\ AccountInv'
<1>1. PICK c : c = CURRENT_Process
  OBVIOUS
<1>2. /\ c \in PIDs /\ op[c] \notin InAcquire
      /\ \E o \in {"none", "searching"} \cup Fixing : op' = [op EXCEPT ![c] = o]
      /\ \E l : Lock' = [Lock EXCEPT ![c] = l]
      /\ UNCHANGED <<vars, holders>>
  <2>1. CASE Alloc_Semaphore(s)
    BY <1>1, <2>1 DEF Alloc_Semaphore, Running, Enter, InAcquire, Fixing
  <2>2. CASE Alloc_Mark(s)
    BY <1>1, <2>2 DEF Alloc_Mark, Running, Enter, InAcquire, Fixing
  <2>3. CASE \E n \in Permits : Alloc_Fill(s, n)
    BY <1>1, <2>3 DEF Alloc_Fill, Running, Enter, InAcquire, Fixing
  <2>4. CASE Free_Semaphore(s)
    BY <1>1, <2>4 DEF Free_Semaphore, Running, Enter, InAcquire, Fixing
  <2>5. CASE Free_Unmark(s) \/ Free_Empty(s)
    BY <1>1, <2>5 DEF Free_Unmark, Free_Empty, Running, Enter, InAcquire, Fixing
  <2> QED BY <2>1, <2>2, <2>3, <2>4, <2>5 DEF FixStep
<1>3. /\ op'[c] \notin InAcquire /\ PFlag' = PFlag /\ at' = at
      /\ \A p \in PIDs \ {c} : op'[p] = op[p] /\ Lock'[p] = Lock[p]
  BY <1>2 DEF SInv, Types, Fixing, InAcquire, vars, pcbVars
<1>4. WaitInv'
  BY <1>2, <1>3 DEF WaitInv, InAcquire
<1>5. AccountInv'
  BY AllocKeeps, FillKeeps, MarkKeeps, FreeKeeps, UnmarkKeeps DEF FixStep
<1> QED BY <1>2, <1>4, <1>5, StutterInv

LEMMA SuccessKeepsAll ==
    ASSUME IInv, WaitInv, SInv, AccountInv, NEW s \in Semaphores, acquire_Success(s)
    PROVE  IInv' /\ WaitInv' /\ AccountInv'
<1> DEFINE c == CURRENT_Process
<1>1. /\ c \in PIDs /\ op[c] = "none" /\ IsAlloced[s] /\ c \notin holders[s]
      /\ Count' = [Count EXCEPT ![s] = @ - 1]
      /\ holders' = [holders EXCEPT ![s] = @ \cup {c}]
      /\ op' = [op EXCEPT ![c] = "none"]
      /\ Lock' = [Lock EXCEPT ![c] = NoSemaphore]
      /\ torn' = IF Freeing(s) THEN torn \cup {s} ELSE torn
      /\ UNCHANGED <<vars, IsAlloced, MaxCount, lost>>
  BY RunningFacts DEF acquire_Success, Acquiring, Enter, poolVars, Tear
<1> HIDE DEF c
<1>2. Types
  BY DEF SInv
<1>3. Waiters(s)' = Waiters(s)
  BY <1>1, <1>2, WaitersKept DEF InAcquire, Types
<1>4. WaitInv'
  <2>1. /\ PFlag' = PFlag /\ at' = at
        /\ \A p \in PIDs : op'[p] = op[p] /\ (p # c => Lock'[p] = Lock[p])
    BY <1>1, <1>2 DEF vars, pcbVars, Types
  <2>2. \A p \in PIDs : op[p] \in InAcquire => p \notin holders'[Lock[p]]
    BY <1>1, <1>2 DEF WaitInv, Types, InAcquire, SInv, CallInv
  <2> QED BY <1>1, <2>1, <2>2 DEF WaitInv, InAcquire
<1>5. Cardinality(holders'[s]) = Cardinality(holders[s]) + 1 /\ Cardinality(holders[s]) \in Nat
  <2>1. holders[s] \in SUBSET PIDs /\ holders'[s] = holders[s] \cup {c}
    BY <1>1, <1>2 DEF Types
  <2> QED BY <1>1, <2>1, HolderFacts
<1>6. Cardinality(Waiters(s)) \in Nat
  BY WaitersFacts, HolderFacts
<1>7. Local(s, c)
  BY <1>1, <1>2 DEF Local, Types
<1>8. ASSUME s \notin torn'
      PROVE  Account(s)'
  <2>1. Count'[s] = Count[s] - 1 /\ Count[s] \in Int /\ MaxCount[s] \in Nat /\ lost[s] \in Nat
    BY <1>1, <1>2 DEF Types, AccountInv
  <2>2. ~Freeing(s) /\ \A p \in PIDs : Lock[p] = s => op[p] \notin Fixing
    BY <1>8, AcquiringFacts DEF acquire_Success
  <2>3. Count[s] = MaxCount[s] - Cardinality(holders[s]) - Cardinality(Waiters(s)) - lost[s]
    BY <1>1, <1>8, <2>2 DEF AccountInv, Account
  <2>4. Count'[s] = MaxCount[s] - Cardinality(holders'[s]) - Cardinality(Waiters(s)) - lost[s]
    BY <1>5, <1>6, <2>1, <2>3
  <2>5. \A p \in PIDs : Lock'[p] = s => op'[p] # "marking"
    BY <1>1, <1>2, <2>2 DEF Types, Fixing
  <2> QED BY <1>1, <1>3, <2>4, <2>5 DEF Account
<1>9. AccountInv'
  <2>1. lost' \in [Semaphores -> Nat] /\ \A x \in Semaphores \ {s} : lost'[x] = lost[x]
    BY <1>1 DEF AccountInv
  <2> QED BY <1>1, <1>7, <1>8, <2>1, OnlyAccount
<1> QED BY <1>1, <1>4, <1>9, StutterInv

LEMMA WaitKeepsAll ==
    ASSUME IInv, WaitInv, SInv, AccountInv, ~FillsPool, Orderly,
           NEW s \in Semaphores, acquire_Wait(s)
    PROVE  IInv' /\ WaitInv' /\ AccountInv'
<1> DEFINE c == CURRENT_Process
<1>1. /\ c \in PIDs /\ op[c] = "none" /\ IsAlloced[s] /\ c \notin holders[s]
      /\ Count' = [Count EXCEPT ![s] = @ - 1]
      /\ op' = [op EXCEPT ![c] = "waiting"]
      /\ Lock' = [Lock EXCEPT ![c] = s]
      /\ torn' = IF Freeing(s) THEN torn \cup {s} ELSE torn
      /\ UNCHANGED <<at, IsAlloced, MaxCount, holders, lost>>
  BY RunningFacts DEF acquire_Wait, Acquiring, Enter, poolVars, Tear
<1>2. /\ IInv'
      /\ \A p \in PIDs : p # c => PFlag'[p] = PFlag[p]
      /\ PFlag'[c] = "WAITING"
  BY EnqueueInv
<1> HIDE DEF c
<1>3. Types /\ op'[c] = "waiting" /\ Lock'[c] = s
      /\ \A p \in PIDs : p # c => op'[p] = op[p] /\ Lock'[p] = Lock[p]
  BY <1>1 DEF SInv, Types
<1>4. WaitInv'
  BY <1>1, <1>2, <1>3 DEF WaitInv, InAcquire
<1>5. Waiters(s)' = Waiters(s) \cup {c} /\ c \notin Waiters(s)
  BY <1>1, <1>3, WaitersFacts DEF InAcquire
<1>6. /\ Cardinality(Waiters(s)') = Cardinality(Waiters(s)) + 1 /\ Cardinality(Waiters(s)) \in Nat
      /\ Cardinality(holders[s]) \in Nat
  BY <1>3, <1>5, WaitersFacts, HolderFacts DEF Types
<1>7. Local(s, c)
  BY <1>1, <1>3 DEF Local, Types
<1>8. ASSUME s \notin torn'
      PROVE  Account(s)'
  <2>1. Count'[s] = Count[s] - 1 /\ Count[s] \in Int /\ MaxCount[s] \in Nat /\ lost[s] \in Nat
    BY <1>1, <1>3 DEF Types, AccountInv
  <2>2. ~Freeing(s) /\ \A p \in PIDs : Lock[p] = s => op[p] \notin Fixing
    BY <1>8, AcquiringFacts DEF acquire_Wait
  <2>3. Count[s] = MaxCount[s] - Cardinality(holders[s]) - Cardinality(Waiters(s)) - lost[s]
    BY <1>1, <1>8, <2>2 DEF AccountInv, Account
  <2>4. Count'[s] = MaxCount[s] - Cardinality(holders[s]) - Cardinality(Waiters(s)') - lost[s]
    BY <1>6, <2>1, <2>3
  <2>5. \A p \in PIDs : Lock'[p] = s => op'[p] # "marking"
    BY <1>3, <2>2 DEF Fixing
  <2> QED BY <1>1, <2>4, <2>5 DEF Account
<1>9. AccountInv'
  <2>1. lost' \in [Semaphores -> Nat] /\ \A x \in Semaphores \ {s} : lost'[x] = lost[x]
    BY <1>1 DEF AccountInv
  <2> QED BY <1>1, <1>7, <1>8, <2>1, OnlyAccount
<1> QED BY <1>2, <1>4, <1>9

LEMMA GiveOutKeepsAll ==
    ASSUME IInv, WaitInv, SInv, AccountInv, acquire_GiveOut
    PROVE  IInv' /\ WaitInv' /\ AccountInv'
<1> DEFINE c == CURRENT_Process
<1>1. /\ c \in PIDs /\ op[c] = "waiting"
      /\ at' = [at EXCEPT ![c] = "yield"]
      /\ op' = [op EXCEPT ![c] = "again"]
      /\ UNCHANGED <<PFlag, IsAlloced, MaxCount, Count, Lock, holders, lost, torn>>
  BY DEF acquire_GiveOut, Running, Goto, pcbVars, poolVars
<1> HIDE DEF c
<1>2. /\ op'[c] = "again" /\ at'[c] = "yield"
      /\ \A p \in PIDs : p # c => op'[p] = op[p] /\ at'[p] = at[p]
  BY <1>1 DEF SInv, Types, IInv, TypeOK
<1>3. WaitInv'
  BY <1>1, <1>2 DEF WaitInv, InAcquire, GivingOut
<1>4. \A x : Waiters(x)' = Waiters(x)
  BY <1>1, <1>2, WaitersFacts DEF InAcquire
<1>5. ASSUME NEW s \in Semaphores \ torn'
      PROVE  Account(s)'
  <2>1. Account(s)
    BY <1>1, <1>5 DEF AccountInv
  <2>2. Freeing(s)' <=> Freeing(s)
    BY <1>1, <1>2 DEF Freeing
  <2>3. \A p \in PIDs : Lock'[p] = s /\ op'[p] = "marking" => Lock[p] = s /\ op[p] = "marking"
    BY <1>1, <1>2
  <2> QED BY <1>1, <1>4, <2>1, <2>2, <2>3 DEF Account
<1>6. AccountInv'
  BY <1>1, <1>5 DEF AccountInv
<1> QED BY <1>3, <1>6, AcquireGiveOutInv

\* A release finds fewer permits than MaxCount, since its caller holds one.
LEMMA CheckKeepsAll ==
    ASSUME IInv, WaitInv, SInv, AccountInv, NEW s \in Semaphores, release_Check(s)
    PROVE  IInv' /\ WaitInv' /\ AccountInv'
<1> DEFINE c == CURRENT_Process
<1>1. /\ c \in PIDs /\ op[c] = "none" /\ c \in holders[s]
      /\ UNCHANGED <<vars, IsAlloced, MaxCount, Count, torn>>
      /\ \/ /\ Count[s] >= MaxCount[s]
            /\ holders' = [holders EXCEPT ![s] = @ \ {c}]
            /\ lost' = [lost EXCEPT ![s] = @ + 1]
            /\ UNCHANGED <<op, Lock>>
         \/ /\ op' = [op EXCEPT ![c] = "releasing"]
            /\ Lock' = [Lock EXCEPT ![c] = s]
            /\ UNCHANGED <<holders, lost>>
  BY DEF release_Check, Running, poolVars, Enter
<1> HIDE DEF c
<1>2. Types /\ \A p \in PIDs : op[p] # "none" => Lock[p] \in Semaphores
  BY DEF SInv, CallInv
<1>3. /\ op'[c] \in {"none", "releasing"}
      /\ \A p \in PIDs : p # c => op'[p] = op[p] /\ Lock'[p] = Lock[p]
      /\ \A x \in Semaphores : holders'[x] \subseteq holders[x]
  BY <1>1, <1>2 DEF Types
<1>4. Waiters(s)' = Waiters(s)
  BY <1>1, <1>3, WaitersKept DEF InAcquire
<1>5. WaitInv'
  <2>1. PFlag' = PFlag /\ at' = at
    BY <1>1 DEF vars, pcbVars
  <2> QED BY <1>1, <1>2, <1>3, <2>1 DEF WaitInv, InAcquire
<1>6. Local(s, c)
  BY <1>1, <1>2 DEF Local, Types
<1>7. ASSUME s \notin torn'
      PROVE  Account(s)'
  <2>1. Own(s) /\ Account(s)
    BY <1>1, <1>7 DEF SInv, AccountInv
  <2>2. IsAlloced[s] /\ \A p \in PIDs : Lock[p] = s => op[p] \notin Fixing
    BY <1>1, <2>1 DEF Own
  <2>3. ~Freeing(s)
    BY <2>2 DEF Freeing, Fixing
  <2>4. Count[s] = MaxCount[s] - Cardinality(holders[s]) - Cardinality(Waiters(s)) - lost[s]
    BY <2>1, <2>2, <2>3 DEF Account
  <2>5. holders[s] \in SUBSET PIDs
    BY <1>2 DEF Types
  <2>6. Cardinality(holders[s]) \in Nat /\ Cardinality(holders[s] \ {c}) = Cardinality(holders[s]) - 1
        /\ Cardinality(holders[s] \ {c}) \in Nat /\ Cardinality(Waiters(s)) \in Nat
    BY <1>1, <2>5, HolderFacts, WaitersFacts
  <2>7. MaxCount[s] \in Nat /\ lost[s] \in Nat
    BY <1>2 DEF Types, AccountInv
  <2>8. ~(Count[s] >= MaxCount[s])
    BY <2>4, <2>6, <2>7
  <2>9. UNCHANGED <<holders, lost>>
    BY <1>1, <2>8
  <2>10. \A p \in PIDs : Lock'[p] = s => op'[p] # "marking"
    BY <1>3, <2>2 DEF Fixing
  <2> QED BY <1>1, <1>4, <2>4, <2>9, <2>10 DEF Account
<1>8. lost' \in [Semaphores -> Nat] /\ \A x \in Semaphores \ {s} : lost'[x] = lost[x]
  BY <1>1 DEF AccountInv
<1>9. AccountInv'
  BY <1>1, <1>6, <1>7, <1>8, OnlyAccount
<1> QED BY <1>1, <1>5, <1>9, StutterInv

LEMMA ReleasedAccount ==
    ASSUME SInv, AccountInv, NEW s \in Semaphores, Released(s), UNCHANGED <<poolVars, lost, torn>>
    PROVE  AccountInv'
<1> DEFINE c == CURRENT_Process
<1>1. /\ c \in PIDs /\ op[c] = "releasing" /\ Lock[c] = s
      /\ Count' = [Count EXCEPT ![s] = @ + 1]
      /\ holders' = [holders EXCEPT ![s] = @ \ {c}]
      /\ op' = [op EXCEPT ![c] = "none"]
      /\ Lock' = [Lock EXCEPT ![c] = NoSemaphore]
      /\ UNCHANGED <<IsAlloced, MaxCount, lost, torn>>
  BY DEF Released, Running, Enter, poolVars
<1> HIDE DEF c
<1>2. Types /\ c \in holders[s]
  BY <1>1 DEF SInv, CallInv
<1>3. Waiters(s)' = Waiters(s)
  BY <1>1, <1>2, WaitersKept DEF InAcquire, Types
<1>4. Local(s, c)
  BY <1>1, <1>2 DEF Local, Types
<1>5. ASSUME s \notin torn'
      PROVE  Account(s)'
  <2>1. Own(s) /\ Account(s)
    BY <1>1, <1>5 DEF SInv, AccountInv
  <2>2. IsAlloced[s] /\ \A p \in PIDs : Lock[p] = s => op[p] \notin Fixing
    BY <1>2, <2>1 DEF Own
  <2>3. ~Freeing(s)
    BY <2>2 DEF Freeing, Fixing
  <2>4. Count[s] = MaxCount[s] - Cardinality(holders[s]) - Cardinality(Waiters(s)) - lost[s]
    BY <2>1, <2>2, <2>3 DEF Account
  <2>5. holders[s] \in SUBSET PIDs /\ holders'[s] = holders[s] \ {c}
    BY <1>1, <1>2 DEF Types
  <2>6. Cardinality(holders'[s]) = Cardinality(holders[s]) - 1 /\ Cardinality(holders[s]) \in Nat
    BY <1>2, <2>5, HolderFacts
  <2>7. Cardinality(Waiters(s)) \in Nat
    BY WaitersFacts, HolderFacts
  <2>8. Count'[s] = Count[s] + 1 /\ Count[s] \in Int /\ MaxCount[s] \in Nat /\ lost[s] \in Nat
    BY <1>1, <1>2 DEF Types, AccountInv
  <2>9. Count'[s] = MaxCount[s] - Cardinality(holders'[s]) - Cardinality(Waiters(s)) - lost[s]
    BY <2>4, <2>6, <2>7, <2>8
  <2>10. \A p \in PIDs : Lock'[p] = s => op'[p] # "marking"
    BY <1>1, <1>2, <2>2 DEF Types, Fixing
  <2> QED BY <1>1, <1>3, <2>9, <2>10 DEF Account
<1>6. lost' \in [Semaphores -> Nat] /\ \A x \in Semaphores \ {s} : lost'[x] = lost[x]
  BY <1>1 DEF AccountInv
<1> QED BY <1>1, <1>4, <1>5, <1>6, OnlyAccount

LEMMA ReleaseCountKeeps ==
    ASSUME IInv, WaitInv, SInv, NEW s \in Semaphores, release_Count(s)
    PROVE  IInv' /\ WaitInv'
<1> DEFINE c == CURRENT_Process
<1>1. /\ c \in PIDs /\ op[c] = "releasing"
      /\ holders' = [holders EXCEPT ![s] = @ \ {c}]
      /\ op' = [op EXCEPT ![c] = "none"]
      /\ Lock' = [Lock EXCEPT ![c] = NoSemaphore]
      /\ UNCHANGED vars
  BY DEF release_Count, Released, Running, Enter
<1> HIDE DEF c
<1>2. /\ op'[c] = "none"
      /\ \A p \in PIDs : p # c => op'[p] = op[p] /\ Lock'[p] = Lock[p]
      /\ \A x \in Semaphores : holders'[x] \subseteq holders[x]
  BY <1>1 DEF SInv, Types
<1>3. \A p \in PIDs : op[p] \in InAcquire => Lock[p] \in Semaphores
  BY DEF SInv, CallInv, InAcquire
<1>4. PFlag' = PFlag /\ at' = at
  BY <1>1 DEF vars, pcbVars
<1>5. WaitInv'
  BY <1>1, <1>2, <1>3, <1>4 DEF WaitInv, InAcquire
<1> QED BY <1>1, <1>5, StutterInv

-----------------------------------------------------------------------------
(* The invariant, and what follows from it.                                *)

LEMMA WaitingInit == SemaphoreInit => Inv
<1> SUFFICES ASSUME SemaphoreInit PROVE Inv
  OBVIOUS
<1>1. SInv /\ IInv
  BY SInvInit, InitInv DEF SemaphoreInit
<1>2. WaitInv
  BY DEF SemaphoreInit, Init, WaitInv, InAcquire
<1>3. AccountInv
  BY DEF SemaphoreInit, AccountInv, Account
<1> QED BY <1>1, <1>2, <1>3 DEF Inv

LEMMA WaitingNext ==
    ASSUME Inv, ~FillsPool, Orderly, [SemaphoreNext]_allVars
    PROVE  Inv'
<1>1. SInv'
  BY SInvNext DEF Inv
<1>2. CASE UNCHANGED allVars
  <2>1. UNCHANGED <<vars, IsAlloced, MaxCount, Count, op, Lock, holders, lost, torn, halted>>
    BY <1>2 DEF allVars, semaphoreVars, poolVars
  <2>2. AccountInv'
    BY <2>1 DEF Inv, AccountInv, Account, Waiters, Freeing
  <2>3. ~halted => WaitInv'
    BY <2>1 DEF Inv, WaitInv, vars, pcbVars
  <2> QED BY <1>1, <2>1, <2>2, <2>3, StutterInv DEF Inv
<1>3. CASE SemaphoreNext
  <2>1. ~halted /\ IInv /\ WaitInv /\ SInv /\ AccountInv
    BY <1>3 DEF SemaphoreNext, Inv
  <2>2. CASE TaskStep
    BY <1>1, <2>1, <2>2, TaskIInv, TaskWaitInv, TaskAccountInv DEF Inv
  <2>3. CASE acquire_GiveOut
    BY <1>1, <2>1, <2>3, GiveOutKeepsAll DEF Inv
  <2>5. ASSUME NEW s \in Semaphores, SemaphoreStep(s)
        PROVE  Inv'
    <3>1. CASE FixStep(s)
      BY <1>1, <2>1, <3>1, FixStepKeepsAll DEF Inv
    <3>2. CASE acquire_Success(s)
      BY <1>1, <2>1, <3>2, SuccessKeepsAll DEF Inv
    <3>3. CASE acquire_Wait(s)
      BY <1>1, <2>1, <3>3, WaitKeepsAll DEF Inv
    <3>4. CASE release_Check(s)
      BY <1>1, <2>1, <3>4, CheckKeepsAll DEF Inv
    <3>5. CASE release_Count(s)
      BY <1>1, <2>1, <3>5, ReleasedAccount, ReleaseCountKeeps DEF Inv, release_Count
    <3>6. CASE release_Wake(s)
      BY <1>1, <2>1, <3>6, ReleasedAccount DEF Inv, release_Wake
    <3> QED BY <2>5, <3>1, <3>2, <3>3, <3>4, <3>5, <3>6 DEF SemaphoreStep, FixStep
  <2> QED BY <1>3, <2>2, <2>3, <2>5 DEF SemaphoreNext
<1> QED BY <1>2, <1>3

(* The invariant of the task manager survives its composition with the     *)
(* semaphores, and every permit is accounted for.                          *)
THEOREM WaitingInvariant ==
    ASSUME ~FillsPool, Orderly
    PROVE  SemaphoreSpec => []Inv
<1>1. Inv /\ [SemaphoreNext]_allVars => Inv'
  BY WaitingNext
<1> QED BY <1>1, WaitingInit, PTL DEF SemaphoreSpec

(* Count of such a semaphore is what the holders, the waiters and the      *)
(* tasks that died holding or waiting have left of MaxCount; so release    *)
(* never finds the semaphore full.                                         *)
THEOREM PermitsAccounted ==
    ASSUME ~FillsPool, Orderly
    PROVE  SemaphoreSpec => []CountAccounts
<1>1. Inv => CountAccounts
  BY DEF Inv, AccountInv, Account, CountAccounts
<1> QED BY <1>1, WaitingInvariant, PTL

(* While the machine runs, the wait queue holds exactly the live tasks in  *)
(* acquire that found no permit, no task is lost, and none is linked into  *)
(* two queues, whenever the timer strikes and whoever is terminated.       *)
THEOREM WaitQueueExact ==
    ASSUME ~FillsPool, Orderly
    PROVE  SemaphoreSpec => []WaitersQueued
<1>1. ASSUME Inv, ~halted
      PROVE  /\ NoTaskLost /\ LinkedOnce
             /\ \A p \in PIDs : Holds(Wait_Queue, p) <=>
                   op[p] \in {"waiting", "again"} /\ PFlag[p] # "TERMINATED"
  <2>1. IInv /\ QueueInv /\ WaitInv
    BY <1>1 DEF Inv, IInv
  <2>2. \A p \in PIDs : Holds(Wait_Queue, p) <=>
            op[p] \in {"waiting", "again"} /\ PFlag[p] # "TERMINATED"
    BY <2>1 DEF QueueInv, WaitInv, InAcquire
  <2> QED BY <2>1, <2>2, LinkedFacts DEF QueueInv
<1>2. Inv => WaitersQueued
  BY <1>1 DEF WaitersQueued
<1> QED BY <1>2, WaitingInvariant, PTL

(* Also with tasks that block, the processor goes from task to task, a     *)
(* terminated task never gets it again, and only the reaper gives numbers  *)
(* back.                                                                   *)
THEOREM LifecycleWithSemaphores ==
    ASSUME ~FillsPool, Orderly
    PROVE  SemaphoreSpec => ImplementsLifecycle
<1>1. ASSUME Inv, [SemaphoreNext]_allVars
      PROVE  [Lifecycle!Next]_lifecycleState
  <2>1. CASE UNCHANGED vars
    BY <2>1, Invisible DEF vars, pcbVars, cpuVars
  <2>2. CASE UNCHANGED allVars
    BY <2>1, <2>2 DEF allVars
  <2>3. CASE SemaphoreNext
    <3>1. ~halted /\ IInv /\ WaitInv /\ SInv
      BY <1>1, <2>3 DEF SemaphoreNext, Inv
    <3>2. CASE TaskStep
      BY <3>1, <3>2, TaskStepNext, StepLifecycle
    <3>3. CASE acquire_GiveOut
      BY <3>3, Invisible DEF acquire_GiveOut, pcbVars, cpuVars
    <3>5. ASSUME NEW s \in Semaphores, SemaphoreStep(s)
          PROVE  [Lifecycle!Next]_lifecycleState
      <4>1. CASE acquire_Success(s) \/ release_Check(s) \/ release_Count(s)
        BY <2>1, <4>1 DEF acquire_Success, release_Check, release_Count
      <4>4. CASE FixStep(s)
        BY <2>1, <4>4 DEF FixStep, Alloc_Semaphore, Alloc_Fill, Alloc_Mark, Free_Semaphore, Free_Unmark, Free_Empty
      <4>2. CASE acquire_Wait(s)
        <5>1. CURRENT_Process' = CURRENT_Process
          BY <4>2 DEF acquire_Wait, cpuVars
        <5> QED BY <3>1, <4>2, <5>1, EnqueueInv, Invisible
      <4>3. CASE release_Wake(s)
        BY <4>3, Invisible DEF release_Wake, pcbVars, cpuVars
      <4> QED BY <3>5, <4>1, <4>2, <4>3, <4>4 DEF SemaphoreStep, FixStep
    <3> QED BY <2>3, <3>2, <3>3, <3>5 DEF SemaphoreNext
  <2> QED BY <1>1, <2>2, <2>3
<1>2. SemaphoreInit => Lifecycle!Init
  BY InitLifecycle DEF SemaphoreInit
<1>3. Inv /\ [SemaphoreNext]_allVars => [Lifecycle!Next]_lifecycleState
  BY <1>1
<1> QED
  BY <1>2, <1>3, WaitingInvariant, PTL DEF SemaphoreSpec, ImplementsLifecycle, Lifecycle!Spec
=============================================================================
