---------------------------- MODULE TaskQueueProofs ----------------------------
(***************************************************************************)
(* Proofs about the linked lists of PCBs, for any number of PCBs and of    *)
(* queues: walks from either end meet the same elements, and the lists     *)
(* implement Queues, which is what lets Scheduler use sequences.           *)
(***************************************************************************)
EXTENDS TaskQueue, NatLemmas, SequenceTheorems

Pointers == PCBs \cup {NULL}

-----------------------------------------------------------------------------
(* Walking along links.                                                    *)

\* A walk takes one link more with each step, and stays at NULL.
LEMMA StepsFacts ==
    ASSUME NEW link \in [PCBs -> Pointers], NEW first \in Pointers
    PROVE  /\ Steps(first, link)[0] = first
           /\ \A n \in Nat : Steps(first, link)[n] \in PCBs =>
                  Steps(first, link)[n + 1] = link[Steps(first, link)[n]]
<1> DEFINE F == [d \in Pointers |-> IF d = NULL THEN NULL ELSE link[d]]
           Is(w) == w = [n \in Nat |-> IF n = 0 THEN first
                                       ELSE IF w[n - 1] = NULL THEN NULL ELSE link[w[n - 1]]]
<1>1. F \in [Pointers -> Pointers]
  BY DEF Pointers
<1>2. PICK f \in [Nat -> Pointers] : f[0] = first /\ \A n \in Nat : f[n + 1] = F[f[n]]
  <2> HIDE DEF F, Pointers, Is
  <2>1. PICK f : Iterates(f, Pointers, first, F)
    BY <1>1, IterationExists
  <2> QED BY <2>1 DEF Iterates
<1>3. Is(f)
  <2> DEFINE g == [n \in Nat |-> IF n = 0 THEN first
                                 ELSE IF f[n - 1] = NULL THEN NULL ELSE link[f[n - 1]]]
  <2>1. ASSUME NEW n \in Nat PROVE f[n] = g[n]
    <3>1. CASE n = 0
      BY <1>2, <3>1
    <3>2. CASE n # 0
      <4>1. n - 1 \in Nat /\ (n - 1) + 1 = n
        BY <3>2
      <4>2. f[n] = F[f[n - 1]] /\ f[n - 1] \in Pointers
        BY <1>2, <4>1
      <4> QED BY <3>2, <4>2
    <3> QED BY <3>1, <3>2
  <2> HIDE DEF Pointers
  <2> QED BY <1>2, <2>1
<1> DEFINE w == Steps(first, link)
<1>4. Is(w)
  BY <1>3 DEF Steps
<1> HIDE DEF w
<1>5. w[0] = first
  BY <1>4
<1>6. ASSUME NEW n \in Nat, w[n] \in PCBs
      PROVE  w[n + 1] = link[w[n]]
  <2>1. n + 1 \in Nat /\ n + 1 # 0 /\ (n + 1) - 1 = n
    OBVIOUS
  <2>2. w[n] # NULL
    BY <1>6, NullAssumption
  <2> QED BY <1>4, <2>1, <2>2
<1> QED BY <1>5, <1>6 DEF w

\* A walk along a chain meets its elements in their order.
LEMMA ChainWalk ==
    ASSUME NEW link \in [PCBs -> Pointers], NEW n \in Nat, NEW s \in [1 .. n -> PCBs], n > 0,
           \A k \in 1 .. n - 1 : link[s[k]] = s[k + 1]
    PROVE  \A k \in 1 .. n : Steps(s[1], link)[k - 1] = s[k]
<1> DEFINE w == Steps(s[1], link)
           T == {j \in Nat : j < n => w[j] = s[j + 1]}
<1>1. s[1] \in Pointers
  BY DEF Pointers
<1>2. w[0] = s[1] /\ \A j \in Nat : w[j] \in PCBs => w[j + 1] = link[w[j]]
  BY <1>1, StepsFacts
<1> HIDE DEF w
<1>3. 0 \in T
  BY <1>2
<1>4. ASSUME NEW j \in Nat, j \in T
      PROVE  j + 1 \in T
  <2> SUFFICES ASSUME j + 1 < n
               PROVE  w[j + 1] = s[(j + 1) + 1]
    OBVIOUS
  <2>1. w[j] = s[j + 1] /\ j + 1 \in 1 .. n - 1 /\ j + 1 \in 1 .. n
    BY <1>4
  <2>2. w[j] \in PCBs
    BY <2>1
  <2> QED BY <1>2, <2>1, <2>2
<1>5. Nat \subseteq T
  <2> HIDE DEF T
  <2> QED BY <1>3, <1>4, SetInduction
<1>6. ASSUME NEW k \in 1 .. n
      PROVE  w[k - 1] = s[k]
  <2>1. k - 1 \in T /\ k - 1 < n /\ (k - 1) + 1 = k
    BY <1>5
  <2> QED BY <2>1
<1> QED BY <1>6 DEF w

-----------------------------------------------------------------------------
(* A sequence with an element more at its end or at its front, or one less.*)

LEMMA Appended ==
    ASSUME NEW S, NEW s \in Seq(S), NEW p \in S, NEW t, t = Append(s, p)
    PROVE  /\ t \in Seq(S) /\ Len(t) = Len(s) + 1 /\ t[Len(s) + 1] = p
           /\ \A k \in 1 .. Len(s) : t[k] = s[k]
OBVIOUS

LEMMA Prepended ==
    ASSUME NEW S, NEW s \in Seq(S), NEW p \in S, NEW t, t = <<p>> \o s
    PROVE  /\ t \in Seq(S) /\ Len(t) = Len(s) + 1 /\ t[1] = p
           /\ \A k \in 1 .. Len(s) : t[k + 1] = s[k]
<1>1. PICK o : o = <<p>>
  OBVIOUS
<1>2. o \in Seq(S) /\ Len(o) = 1 /\ o[1] = p
  BY <1>1
<1>3. t \in Seq(S) /\ Len(t) = 1 + Len(s)
      /\ \A k \in 1 .. 1 + Len(s) : t[k] = IF k <= 1 THEN o[k] ELSE s[k - 1]
  BY <1>1, <1>2, ConcatProperties
<1>4. Len(s) \in Nat
  OBVIOUS
<1> QED BY <1>2, <1>3, <1>4

CutOut(s, i) == SubSeq(s, 1, i - 1) \o SubSeq(s, i + 1, Len(s))

\* t is the sequence s without its element i.
IsCut(t, s, i, S) ==
    /\ t \in Seq(S) /\ Len(t) = Len(s) - 1
    /\ \A k \in 1 .. i - 1 : t[k] = s[k]
    /\ \A k \in i .. Len(s) - 1 : t[k] = s[k + 1]

LEMMA TakenOut ==
    ASSUME NEW S, NEW s \in Seq(S), NEW i \in 1 .. Len(s), NEW t, t = CutOut(s, i)
    PROVE  IsCut(t, s, i, S)
<1>1. PICK a, b : a = SubSeq(s, 1, i - 1) /\ b = SubSeq(s, i + 1, Len(s))
  OBVIOUS
<1>2. Len(s) \in Nat
  OBVIOUS
<1>3. a \in Seq(S) /\ Len(a) = i - 1 /\ \A k \in 1 .. i - 1 : a[k] = s[k]
  BY <1>1, <1>2
<1>4. b \in Seq(S) /\ Len(b) = Len(s) - i /\ \A k \in 1 .. Len(s) - i : b[k] = s[i + k]
  BY <1>1, <1>2
<1>5. t \in Seq(S) /\ Len(t) = (i - 1) + (Len(s) - i)
      /\ \A k \in 1 .. (i - 1) + (Len(s) - i) :
             t[k] = IF k <= i - 1 THEN a[k] ELSE b[k - (i - 1)]
  <2>1. t = a \o b
    BY <1>1 DEF CutOut
  <2>2. Len(a \o b) = Len(a) + Len(b) /\ a \o b \in Seq(S)
        /\ \A k \in 1 .. Len(a) + Len(b) :
               (a \o b)[k] = IF k <= Len(a) THEN a[k] ELSE b[k - Len(a)]
    BY <1>3, <1>4, ConcatProperties
  <2> QED BY <1>3, <1>4, <2>1, <2>2
<1>6. ASSUME NEW k \in i .. Len(s) - 1
      PROVE  t[k] = s[k + 1]
  <2>1. k - (i - 1) \in 1 .. Len(s) - i /\ i + (k - (i - 1)) = k + 1
        /\ k \in 1 .. (i - 1) + (Len(s) - i) /\ ~(k <= i - 1)
    BY <1>2
  <2> QED BY <1>4, <1>5, <2>1
<1>7. ASSUME NEW k \in 1 .. i - 1
      PROVE  t[k] = s[k]
  <2>1. k \in 1 .. (i - 1) + (Len(s) - i) /\ k <= i - 1
    BY <1>2
  <2> QED BY <1>3, <1>5, <2>1
<1>8. (i - 1) + (Len(s) - i) = Len(s) - 1
  BY <1>2
<1> QED BY <1>5, <1>6, <1>7, <1>8 DEF IsCut

-----------------------------------------------------------------------------
(* The invariant: the walk from the head of a queue meets PCBs that both   *)
(* chains of links connect, from the head to the tail, and no PCB is met   *)
(* twice.  It says nothing of the links that point out of a queue, which   *)
(* the operations leave as they were.                                      *)

LinkTypes ==
    /\ p_Next \in [PCBs -> Pointers]
    /\ p_Prev \in [PCBs -> Pointers]
    /\ p_Head \in [QueueIds -> Pointers]
    /\ p_Tail \in [QueueIds -> Pointers]
    /\ Task_Count \in [QueueIds -> Nat]

Chain(s, q) ==
    /\ s \in Seq(PCBs)
    /\ Len(s) = Task_Count[q]
    /\ Len(s) > 0 => p_Head[q] = s[1] /\ p_Tail[q] = s[Len(s)]
    /\ \A k \in 1 .. Len(s) - 1 : p_Next[s[k]] = s[k + 1] /\ p_Prev[s[k + 1]] = s[k]

Lists == [q \in QueueIds |-> Contents(q)]

Distinct(c) ==
    \A q, r \in QueueIds : \A j \in 1 .. Len(c[q]) : \A k \in 1 .. Len(c[r]) :
        c[q][j] = c[r][k] => q = r /\ j = k

ListInv ==
    /\ LinkTypes
    /\ ChildList \in BOOLEAN
    /\ \A q \in QueueIds : Chain(Contents(q), q)
    /\ Distinct(Lists)

\* What a walk finds in a chain.
LEMMA ChainContents ==
    ASSUME NEW link \in [PCBs -> Pointers], NEW first, NEW s \in Seq(PCBs),
           Len(s) > 0 => first = s[1],
           \A k \in 1 .. Len(s) - 1 : link[s[k]] = s[k + 1]
    PROVE  [k \in 1 .. Len(s) |-> Steps(first, link)[k - 1]] = s
<1>1. Len(s) \in Nat /\ s \in [1 .. Len(s) -> PCBs]
  OBVIOUS
<1>2. CASE Len(s) = 0
  BY <1>1, <1>2
<1>3. CASE Len(s) > 0
  <2>1. \A k \in 1 .. Len(s) : Steps(s[1], link)[k - 1] = s[k]
    BY <1>1, <1>3, ChainWalk
  <2> QED BY <1>1, <1>3, <2>1
<1> QED BY <1>1, <1>2, <1>3

LEMMA ChainBack ==
    ASSUME NEW link \in [PCBs -> Pointers], NEW s \in Seq(PCBs), Len(s) > 0,
           \A k \in 1 .. Len(s) - 1 : link[s[k + 1]] = s[k]
    PROVE  \A k \in 1 .. Len(s) : Steps(s[Len(s)], link)[Len(s) - k] = s[k]
<1> DEFINE n == Len(s)
           t == [k \in 1 .. n |-> s[n + 1 - k]]
<1>1. n \in Nat /\ n > 0 /\ s \in [1 .. n -> PCBs]
  OBVIOUS
<1> HIDE DEF n
<1>2. t \in [1 .. n -> PCBs]
  BY <1>1
<1>3. \A k \in 1 .. n - 1 : link[t[k]] = t[k + 1]
  <2> TAKE k \in 1 .. n - 1
  <2>1. n - k \in 1 .. n - 1 /\ k \in 1 .. n /\ k + 1 \in 1 .. n
        /\ n + 1 - k = (n - k) + 1 /\ n + 1 - (k + 1) = n - k
    BY <1>1
  <2>2. link[s[(n - k) + 1]] = s[n - k]
    BY <2>1 DEF n
  <2> QED BY <2>1, <2>2
<1>4. t[1] = s[n]
  BY <1>1
<1>5. \A k \in 1 .. n : Steps(t[1], link)[k - 1] = t[k]
  <2> HIDE DEF t
  <2> QED BY <1>1, <1>2, <1>3, ChainWalk
<1>6. ASSUME NEW k \in 1 .. n
      PROVE  Steps(s[n], link)[n - k] = s[k]
  <2>1. n + 1 - k \in 1 .. n /\ (n + 1 - k) - 1 = n - k /\ n + 1 - (n + 1 - k) = k
    BY <1>1
  <2>2. t[n + 1 - k] = s[k]
    BY <2>1
  <2> HIDE DEF t
  <2> QED BY <1>4, <1>5, <2>1, <2>2
<1> QED BY <1>6 DEF n

\* In a state of the invariant both walks and Get_Task_At find the elements.
LEMMA QueueFacts ==
    ASSUME LinkTypes, NEW q \in QueueIds, NEW s, s = Contents(q), Chain(s, q)
    PROVE  /\ s \in Seq(PCBs) /\ Len(s) = Task_Count[q]
           /\ \A k \in 1 .. Len(s) : Walk(q)[k - 1] = s[k] /\ WalkBack(q)[Len(s) - k] = s[k]
           /\ \A Index \in 0 .. Len(s) - 1 : Get_Task_At(Index, q) = s[Index + 1]
<1>1. s \in Seq(PCBs) /\ Len(s) = Task_Count[q] /\ Len(s) \in Nat
  BY DEF Chain
<1>2. \A k \in 1 .. Len(s) : Walk(q)[k - 1] = s[k]
  BY <1>1 DEF Contents
<1>3. ASSUME NEW k \in 1 .. Len(s)
      PROVE  WalkBack(q)[Len(s) - k] = s[k]
  <2>1. /\ Len(s) > 0 /\ p_Prev \in [PCBs -> Pointers] /\ p_Tail[q] = s[Len(s)]
        /\ \A j \in 1 .. Len(s) - 1 : p_Prev[s[j + 1]] = s[j]
    BY <1>1 DEF Chain, LinkTypes
  <2> QED BY <1>1, <2>1, ChainBack, ZenonT(40) DEF WalkBack
<1>4. ASSUME NEW Index \in 0 .. Len(s) - 1
      PROVE  Get_Task_At(Index, q) = s[Index + 1]
  <2>1. Index + 1 \in 1 .. Len(s) /\ (Index + 1) - 1 = Index
        /\ Len(s) - (Index + 1) = Task_Count[q] - 1 - Index
        /\ ~(Index < 0) /\ ~(Index >= Task_Count[q])
    BY <1>1
  <2>2. Walk(q)[Index] = s[Index + 1] /\ WalkBack(q)[Task_Count[q] - 1 - Index] = s[Index + 1]
    BY <1>2, <1>3, <2>1
  <2> QED BY <2>1, <2>2 DEF Get_Task_At
<1> QED BY <1>1, <1>2, <1>3, <1>4

\* A step that makes one queue the chain t and leaves the fields of the others
\* and the links of their elements changes one of the lists.
LEMMA OneListChanges ==
    ASSUME LinkTypes, LinkTypes', \A r \in QueueIds : Chain(Contents(r), r),
           NEW q \in QueueIds, NEW t, Chain(t, q)',
           \A r \in QueueIds \ {q} :
               /\ p_Head'[r] = p_Head[r] /\ p_Tail'[r] = p_Tail[r] /\ Task_Count'[r] = Task_Count[r]
               /\ \A k \in 1 .. Len(Contents(r)) : /\ p_Next'[Contents(r)[k]] = p_Next[Contents(r)[k]]
                                                   /\ p_Prev'[Contents(r)[k]] = p_Prev[Contents(r)[k]]
    PROVE  /\ Lists' = [Lists EXCEPT ![q] = t]
           /\ \A r \in QueueIds : Chain(Contents(r), r)'
<1>1. ASSUME NEW r \in QueueIds, NEW s, Chain(s, r)'
      PROVE  Contents(r)' = s /\ Chain(Contents(r), r)'
  <2>1. /\ p_Next' \in [PCBs -> Pointers] /\ s \in Seq(PCBs) /\ Len(s) = Task_Count'[r]
        /\ Len(s) > 0 => p_Head'[r] = s[1]
        /\ \A k \in 1 .. Len(s) - 1 : p_Next'[s[k]] = s[k + 1]
    BY <1>1 DEF Chain, LinkTypes
  <2>2. [k \in 1 .. Len(s) |-> Steps(p_Head'[r], p_Next')[k - 1]] = s
    <3>1. PICK link, first : link = p_Next' /\ first = p_Head'[r]
      OBVIOUS
    <3>2. /\ link \in [PCBs -> Pointers] /\ s \in Seq(PCBs)
          /\ Len(s) > 0 => first = s[1]
          /\ \A k \in 1 .. Len(s) - 1 : link[s[k]] = s[k + 1]
      BY <2>1, <3>1
    <3>3. [k \in 1 .. Len(s) |-> Steps(first, link)[k - 1]] = s
      BY <3>2, ChainContents
    <3> QED BY <3>1, <3>3
  <2>3. Contents(r)' = s
    BY <2>1, <2>2 DEF Contents, Walk
  <2> QED BY <1>1, <2>3 DEF Chain
<1>2. ASSUME NEW r \in QueueIds, r # q
      PROVE  Chain(Contents(r), r)' /\ Contents(r)' = Contents(r)
  <2>1. PICK s : s = Contents(r)
    OBVIOUS
  <2>2. Chain(s, r)'
    <3>1. Chain(s, r) /\ Len(s) \in Nat
      BY <2>1 DEF Chain
    <3>2. \A k \in 1 .. Len(s) - 1 : k \in 1 .. Len(s) /\ k + 1 \in 1 .. Len(s)
      BY <3>1
    <3> QED BY <1>2, <2>1, <3>1, <3>2 DEF Chain
  <2> QED BY <1>1, <2>1, <2>2
<1>3. Contents(q)' = t /\ Chain(Contents(q), q)'
  BY <1>1
<1>4. Lists' = [Lists EXCEPT ![q] = t]
  BY <1>2, <1>3 DEF Lists
<1> QED BY <1>2, <1>3, <1>4

-----------------------------------------------------------------------------
(* Adding a PCB that is in no queue.                                       *)

LEMMA UnlinkedFacts ==
    ASSUME ListInv, NEW p \in PCBs, ~Linked(p)
    PROVE  \A r \in QueueIds : \A k \in 1 .. Len(Contents(r)) : Contents(r)[k] # p
BY DEF ListInv, Chain, Linked

\* An element of one queue is not one of another.
LEMMA ApartFacts ==
    ASSUME ListInv, NEW q \in QueueIds, NEW r \in QueueIds \ {q}
    PROVE  \A j \in 1 .. Len(Contents(q)), k \in 1 .. Len(Contents(r)) :
               Contents(q)[j] # Contents(r)[k]
BY DEF ListInv, Distinct, Lists

\* What a queue is for the operations on it.
LEMMA ListFacts ==
    ASSUME ListInv, NEW q \in QueueIds, NEW s, s = Contents(q)
    PROVE  /\ s \in Seq(PCBs) /\ Len(s) \in Nat /\ Len(s) = Task_Count[q]
           /\ \A k \in 1 .. Len(s) : s[k] \in PCBs
           /\ Len(s) > 0 => p_Head[q] = s[1] /\ p_Tail[q] = s[Len(s)]
           /\ \A k \in 1 .. Len(s) - 1 : p_Next[s[k]] = s[k + 1] /\ p_Prev[s[k + 1]] = s[k]
           /\ \A j, k \in 1 .. Len(s) : s[j] = s[k] => j = k
           /\ Lists[q] = s
<1>1. Chain(s, q)
  BY DEF ListInv
<1>2. s \in Seq(PCBs) /\ Len(s) \in Nat
  BY <1>1 DEF Chain
<1>3. \A k \in 1 .. Len(s) : s[k] \in PCBs
  BY <1>2
<1>4. \A j, k \in 1 .. Len(s) : s[j] = s[k] => j = k
  BY DEF ListInv, Distinct, Lists
<1> QED BY <1>1, <1>2, <1>3, <1>4 DEF Chain, Lists

\* The step of an operation: the lists are chains again, and one has changed.
Changed(q, t) ==
    /\ LinkTypes'
    /\ \A r \in QueueIds : Chain(Contents(r), r)'
    /\ Lists' = [Lists EXCEPT ![q] = t]

LEMMA FirstFacts ==
    ASSUME ListInv, NEW p \in PCBs, ~Linked(p), NEW q \in QueueIds, AddFirst(p, q)
    PROVE  Changed(q, Append(Lists[q], p)) /\ Append(Lists[q], p) = <<p>> \o Lists[q]
<1>1. PICK s : s = Contents(q)
  OBVIOUS
<1>2. s = <<>> /\ Lists[q] = s
  BY <1>1, ListFacts DEF AddFirst
<1>3. Append(s, p) = <<p>> /\ <<p>> \o s = <<p>>
  BY <1>2
<1>4. LinkTypes /\ LinkTypes'
  BY DEF ListInv, LinkTypes, AddFirst, Pointers, links
<1>5. PICK t : t = <<p>>
  OBVIOUS
<1>6. t \in Seq(PCBs) /\ Len(t) = 1 /\ t[1] = p
  BY <1>5
<1>7. Chain(t, q)'
  BY <1>4, <1>6 DEF Chain, AddFirst, LinkTypes
<1>8. Changed(q, t)
  BY <1>4, <1>7, OneListChanges DEF Changed, AddFirst, links, ListInv, LinkTypes
<1> QED BY <1>2, <1>3, <1>5, <1>8

LEMMA AddTailFacts ==
    ASSUME ListInv, NEW p \in PCBs, ~Linked(p), NEW q \in QueueIds, Add_Task_in_Tail(p, q)
    PROVE  Changed(q, Append(Lists[q], p))
<1>1. CASE AddFirst(p, q)
  BY <1>1, FirstFacts
<1>2. CASE ~AddFirst(p, q)
  <2>1. PICK s : s = Contents(q)
    OBVIOUS
  <2>2. PICK n : n = Len(s)
    OBVIOUS
  <2>3. /\ s \in Seq(PCBs) /\ n \in Nat /\ n > 0 /\ n = Task_Count[q]
        /\ \A k \in 1 .. n : s[k] \in PCBs /\ s[k] # p
        /\ p_Head[q] = s[1] /\ p_Tail[q] = s[n] /\ s[n] \in PCBs
        /\ \A k \in 1 .. n - 1 : p_Next[s[k]] = s[k + 1] /\ p_Prev[s[k + 1]] = s[k]
        /\ \A j, k \in 1 .. n : s[j] = s[k] => j = k
        /\ Lists[q] = s
    <3>1. Task_Count[q] > 0
      BY <1>2 DEF Add_Task_in_Tail
    <3> QED BY <2>1, <2>2, <3>1, ListFacts, UnlinkedFacts
  <2>4. /\ p_Next'[s[n]] = p
        /\ \A x \in PCBs : x # s[n] /\ x # p => p_Next'[x] = p_Next[x]
        /\ p_Prev'[p] = s[n]
        /\ \A x \in PCBs : x # p => p_Prev'[x] = p_Prev[x]
        /\ p_Tail'[q] = p /\ p_Head'[q] = p_Head[q] /\ Task_Count'[q] = n + 1
        /\ \A r \in QueueIds \ {q} : /\ p_Head'[r] = p_Head[r] /\ p_Tail'[r] = p_Tail[r]
                                     /\ Task_Count'[r] = Task_Count[r]
    BY <1>2, <2>3 DEF Add_Task_in_Tail, ListInv, LinkTypes
  <2>5. LinkTypes /\ LinkTypes'
    <3>1. p_Next' \in [PCBs -> Pointers] /\ p_Prev' \in [PCBs -> Pointers]
      <4>1. /\ p_Next \in [PCBs -> Pointers] /\ p_Prev \in [PCBs -> Pointers]
            /\ p_Tail[q] \in Pointers /\ p \in Pointers /\ NULL \in Pointers
        BY DEF ListInv, LinkTypes, Pointers
      <4>2. /\ \/ p_Next' = [p_Next EXCEPT ![p_Tail[q]] = p]
               \/ p_Next' = [p_Next EXCEPT ![p] = NULL, ![p_Tail[q]] = p]
            /\ p_Prev' = [p_Prev EXCEPT ![p] = p_Tail[q]]
        BY <1>2 DEF Add_Task_in_Tail
      <4> QED BY <4>1, <4>2
    <3>2. p_Head' \in [QueueIds -> Pointers] /\ p_Tail' \in [QueueIds -> Pointers]
      BY <1>2 DEF Add_Task_in_Tail, ListInv, LinkTypes, Pointers
    <3>3. Task_Count' \in [QueueIds -> Nat]
      BY <1>2 DEF Add_Task_in_Tail, ListInv, LinkTypes
    <3> QED BY <3>1, <3>2, <3>3 DEF ListInv, LinkTypes
  <2>6. PICK t : t = Append(s, p)
    OBVIOUS
  <2>7. t \in Seq(PCBs) /\ Len(t) = n + 1 /\ t[n + 1] = p /\ \A k \in 1 .. n : t[k] = s[k]
    <3>1. s \in Seq(PCBs)
      BY <2>3
    <3> QED BY <2>2, <2>6, <3>1, Appended
  <2>8. \A k \in 1 .. n : p_Next'[t[k]] = t[k + 1] /\ p_Prev'[t[k + 1]] = t[k]
    <3> TAKE k \in 1 .. n
    <3>1. CASE k = n
      BY <2>3, <2>4, <2>7, <3>1
    <3>2. CASE k # n
      <4>1. k \in 1 .. n - 1 /\ k + 1 \in 1 .. n /\ n \in 1 .. n
        BY <2>3, <3>2
      <4>2. s[k] \in PCBs \ {p} /\ s[k + 1] \in PCBs \ {p} /\ s[k] # s[n]
        BY <2>3, <3>2, <4>1
      <4>3. p_Next'[s[k]] = s[k + 1] /\ p_Prev'[s[k + 1]] = s[k]
        BY <2>3, <2>4, <4>1, <4>2
      <4>4. t[k] = s[k] /\ t[k + 1] = s[k + 1]
        BY <2>7, <4>1
      <4> QED BY <4>3, <4>4
    <3> QED BY <3>1, <3>2
  <2>9. Chain(t, q)'
    BY <2>3, <2>4, <2>7, <2>8 DEF Chain
  <2>10. ASSUME NEW r \in QueueIds \ {q}, NEW k \in 1 .. Len(Contents(r))
         PROVE  /\ p_Next'[Contents(r)[k]] = p_Next[Contents(r)[k]]
                /\ p_Prev'[Contents(r)[k]] = p_Prev[Contents(r)[k]]
    <3>1. Contents(r)[k] \in PCBs \ {p} /\ Contents(r)[k] # s[n]
      BY <2>1, <2>2, <2>3, ListFacts, UnlinkedFacts, ApartFacts
    <3> QED BY <2>4, <3>1
  <2>11. Changed(q, t)
    BY <2>4, <2>5, <2>9, <2>10, OneListChanges DEF Changed, ListInv
  <2> QED BY <2>3, <2>6, <2>11
<1> QED BY <1>1, <1>2

LEMMA AddHeadFacts ==
    ASSUME ListInv, NEW p \in PCBs, ~Linked(p), NEW q \in QueueIds, Add_Task_in_Head(p, q)
    PROVE  Changed(q, <<p>> \o Lists[q])
<1>1. CASE AddFirst(p, q)
  BY <1>1, FirstFacts
<1>2. CASE ~AddFirst(p, q)
  <2>1. PICK s : s = Contents(q)
    OBVIOUS
  <2>2. PICK n : n = Len(s)
    OBVIOUS
  <2>3. /\ s \in Seq(PCBs) /\ n \in Nat /\ n > 0 /\ n = Task_Count[q]
        /\ \A k \in 1 .. n : s[k] \in PCBs /\ s[k] # p
        /\ p_Head[q] = s[1] /\ p_Tail[q] = s[n] /\ s[1] \in PCBs
        /\ \A k \in 1 .. n - 1 : p_Next[s[k]] = s[k + 1] /\ p_Prev[s[k + 1]] = s[k]
        /\ \A j, k \in 1 .. n : s[j] = s[k] => j = k
        /\ Lists[q] = s
    <3>1. Task_Count[q] > 0
      BY <1>2 DEF Add_Task_in_Head
    <3> QED BY <2>1, <2>2, <3>1, ListFacts, UnlinkedFacts
  <2>4. /\ p_Next'[p] = s[1]
        /\ \A x \in PCBs : x # p => p_Next'[x] = p_Next[x]
        /\ p_Prev'[s[1]] = p
        /\ \A x \in PCBs : x # p /\ x # s[1] => p_Prev'[x] = p_Prev[x]
        /\ p_Head'[q] = p /\ p_Tail'[q] = p_Tail[q] /\ Task_Count'[q] = n + 1
        /\ \A r \in QueueIds \ {q} : /\ p_Head'[r] = p_Head[r] /\ p_Tail'[r] = p_Tail[r]
                                     /\ Task_Count'[r] = Task_Count[r]
    BY <1>2, <2>3 DEF Add_Task_in_Head, ListInv, LinkTypes
  <2>5. LinkTypes /\ LinkTypes'
    <3>1. p_Next' \in [PCBs -> Pointers] /\ p_Prev' \in [PCBs -> Pointers]
      <4>1. /\ p_Next \in [PCBs -> Pointers] /\ p_Prev \in [PCBs -> Pointers]
            /\ p_Head[q] \in Pointers /\ p \in Pointers /\ NULL \in Pointers
        BY DEF ListInv, LinkTypes, Pointers
      <4>2. /\ p_Next' = [p_Next EXCEPT ![p] = p_Head[q]]
            /\ p_Prev' = [p_Prev EXCEPT ![p] = NULL, ![p_Head[q]] = p]
        BY <1>2 DEF Add_Task_in_Head
      <4> QED BY <4>1, <4>2
    <3>2. p_Head' \in [QueueIds -> Pointers] /\ p_Tail' \in [QueueIds -> Pointers]
      BY <1>2 DEF Add_Task_in_Head, ListInv, LinkTypes, Pointers
    <3>3. Task_Count' \in [QueueIds -> Nat]
      BY <1>2 DEF Add_Task_in_Head, ListInv, LinkTypes
    <3> QED BY <3>1, <3>2, <3>3 DEF ListInv, LinkTypes
  <2>6. PICK t : t = <<p>> \o s
    OBVIOUS
  <2>7. t \in Seq(PCBs) /\ Len(t) = n + 1 /\ t[1] = p /\ \A k \in 1 .. n : t[k + 1] = s[k]
    <3>1. s \in Seq(PCBs)
      BY <2>3
    <3> QED BY <2>2, <2>6, <3>1, Prepended
  <2>8. \A k \in 1 .. n : p_Next'[t[k]] = t[k + 1] /\ p_Prev'[t[k + 1]] = t[k]
    <3> TAKE k \in 1 .. n
    <3>1. CASE k = 1
      BY <2>3, <2>4, <2>7, <3>1
    <3>2. CASE k # 1
      <4>1. k - 1 \in 1 .. n - 1 /\ k - 1 \in 1 .. n /\ (k - 1) + 1 = k /\ 1 \in 1 .. n
        BY <2>3, <3>2
      <4>2. s[k] \in PCBs \ {p} /\ s[k - 1] \in PCBs \ {p} /\ s[k] # s[1]
        BY <2>3, <3>2, <4>1
      <4>3. t[k] = s[k - 1] /\ t[k + 1] = s[k]
        BY <2>7, <4>1
      <4>4. p_Next'[s[k - 1]] = s[k] /\ p_Prev'[s[k]] = s[k - 1]
        <5>1. p_Next[s[k - 1]] = s[k] /\ p_Prev[s[k]] = s[k - 1]
          BY <2>3, <4>1
        <5> QED BY <2>4, <4>2, <5>1
      <4> QED BY <4>3, <4>4
    <3> QED BY <3>1, <3>2
  <2>9. Chain(t, q)'
    <3>1. t[n + 1] = s[n]
      <4>1. n \in 1 .. n
        BY <2>3
      <4> QED BY <2>7, <4>1
    <3> QED BY <2>3, <2>4, <2>7, <2>8, <3>1 DEF Chain
  <2>10. ASSUME NEW r \in QueueIds \ {q}, NEW k \in 1 .. Len(Contents(r))
         PROVE  /\ p_Next'[Contents(r)[k]] = p_Next[Contents(r)[k]]
                /\ p_Prev'[Contents(r)[k]] = p_Prev[Contents(r)[k]]
    <3>1. Contents(r)[k] \in PCBs \ {p} /\ Contents(r)[k] # s[1]
      BY <2>1, <2>2, <2>3, ListFacts, UnlinkedFacts, ApartFacts
    <3> QED BY <2>4, <3>1
  <2>11. Changed(q, t)
    BY <2>4, <2>5, <2>9, <2>10, OneListChanges DEF Changed, ListInv
  <2> QED BY <2>3, <2>6, <2>11
<1> QED BY <1>1, <1>2

-----------------------------------------------------------------------------
(* Removing the element at position i of a queue with more than one: its   *)
(* neighbours are linked to each other, the head or the tail moves if it   *)
(* was there, and nothing else in the queue changes that a walk will see.  *)

Others(q) == \A r \in QueueIds \ {q} :
    p_Head'[r] = p_Head[r] /\ p_Tail'[r] = p_Tail[r] /\ Task_Count'[r] = Task_Count[r]

Unlinks(q, s, i) ==
    /\ LinkTypes'
    /\ Task_Count'[q] = Len(s) - 1
    /\ p_Head'[q] = IF i = 1 THEN s[2] ELSE s[1]
    /\ p_Tail'[q] = IF i = Len(s) THEN s[Len(s) - 1] ELSE s[Len(s)]
    /\ \A k \in 1 .. Len(s) - 1 : k # i /\ k + 1 # i =>
           p_Next'[s[k]] = s[k + 1] /\ p_Prev'[s[k + 1]] = s[k]
    /\ 1 < i /\ i < Len(s) => p_Next'[s[i - 1]] = s[i + 1] /\ p_Prev'[s[i + 1]] = s[i - 1]
    /\ \A x \in PCBs : (\A k \in 1 .. Len(s) : x # s[k]) =>
           p_Next'[x] = p_Next[x] /\ p_Prev'[x] = p_Prev[x]
    /\ Others(q)

LEMMA UnlinksFacts ==
    ASSUME ListInv, NEW q \in QueueIds, Len(Lists[q]) > 1, NEW i \in 1 .. Len(Lists[q]),
           Unlinks(q, Lists[q], i)
    PROVE  Changed(q, CutOut(Lists[q], i))
<1>1. PICK s : s = Lists[q]
  OBVIOUS
<1>2. s = Contents(q)
  BY <1>1 DEF Lists
<1>3. PICK n : n = Len(s)
  OBVIOUS
<1>4. /\ s \in Seq(PCBs) /\ n \in Nat /\ n > 1 /\ i \in 1 .. n
      /\ \A k \in 1 .. n : s[k] \in PCBs
  BY <1>1, <1>2, <1>3, ListFacts
<1>5. PICK t : t = CutOut(s, i)
  OBVIOUS
<1>6. /\ t \in Seq(PCBs) /\ Len(t) = n - 1
      /\ \A k \in 1 .. i - 1 : t[k] = s[k]
      /\ \A k \in i .. n - 1 : t[k] = s[k + 1]
  <2>1. s \in Seq(PCBs) /\ i \in 1 .. Len(s)
    BY <1>3, <1>4
  <2>2. IsCut(t, s, i, PCBs)
    BY <1>5, <2>1, TakenOut
  <2> QED BY <1>3, <2>2 DEF IsCut
<1>7. /\ LinkTypes'
      /\ Task_Count'[q] = n - 1
      /\ p_Head'[q] = IF i = 1 THEN s[2] ELSE s[1]
      /\ p_Tail'[q] = IF i = n THEN s[n - 1] ELSE s[n]
      /\ \A k \in 1 .. n - 1 : k # i /\ k + 1 # i =>
             p_Next'[s[k]] = s[k + 1] /\ p_Prev'[s[k + 1]] = s[k]
      /\ 1 < i /\ i < n => p_Next'[s[i - 1]] = s[i + 1] /\ p_Prev'[s[i + 1]] = s[i - 1]
      /\ \A x \in PCBs : (\A k \in 1 .. n : x # s[k]) =>
             p_Next'[x] = p_Next[x] /\ p_Prev'[x] = p_Prev[x]
      /\ Others(q)
  BY <1>1, <1>3 DEF Unlinks
<1>8. \A k \in 1 .. n - 2 : p_Next'[t[k]] = t[k + 1] /\ p_Prev'[t[k + 1]] = t[k]
  <2> TAKE k \in 1 .. n - 2
  <2>1. CASE k + 1 < i
    <3>1. k \in 1 .. i - 1 /\ k + 1 \in 1 .. i - 1 /\ k \in 1 .. n - 1 /\ k # i /\ k + 1 # i
      BY <1>4, <2>1
    <3>2. t[k] = s[k] /\ t[k + 1] = s[k + 1]
      BY <1>6, <3>1
    <3> QED BY <1>7, <3>1, <3>2
  <2>2. CASE k + 1 = i
    <3>1. k \in 1 .. i - 1 /\ k + 1 \in i .. n - 1 /\ 1 < i /\ i < n /\ k = i - 1 /\ (k + 1) + 1 = i + 1
      BY <1>4, <2>2
    <3>2. t[k] = s[i - 1] /\ t[k + 1] = s[i + 1]
      BY <1>6, <3>1
    <3>3. p_Next'[s[i - 1]] = s[i + 1] /\ p_Prev'[s[i + 1]] = s[i - 1]
      BY <1>7, <3>1
    <3> QED BY <3>2, <3>3
  <2>3. CASE k + 1 > i
    <3>1. /\ k \in i .. n - 1 /\ k + 1 \in i .. n - 1 /\ k + 1 \in 1 .. n - 1
          /\ k + 1 # i /\ (k + 1) + 1 # i
      BY <1>4, <2>3
    <3>2. t[k] = s[k + 1] /\ t[k + 1] = s[(k + 1) + 1]
      BY <1>6, <3>1
    <3>3. p_Next'[s[k + 1]] = s[(k + 1) + 1] /\ p_Prev'[s[(k + 1) + 1]] = s[k + 1]
      BY <1>7, <3>1
    <3> QED BY <3>2, <3>3
  <2>4. k + 1 \in Int /\ i \in Int
    BY <1>4
  <2> QED BY <2>1, <2>2, <2>3, <2>4
<1>9. p_Head'[q] = t[1]
  <2>1. CASE i = 1
    BY <1>4, <1>6, <1>7, <2>1
  <2>2. CASE i # 1
    BY <1>4, <1>6, <1>7, <2>2
  <2> QED BY <2>1, <2>2
<1>10. p_Tail'[q] = t[n - 1]
  <2>1. CASE i = n
    BY <1>4, <1>6, <1>7, <2>1
  <2>2. CASE i # n
    <3>1. n - 1 \in i .. n - 1 /\ (n - 1) + 1 = n
      BY <1>4, <2>2
    <3>2. t[n - 1] = s[(n - 1) + 1]
      BY <1>6, <3>1
    <3> QED BY <1>7, <2>2, <3>1, <3>2
  <2> QED BY <2>1, <2>2
<1>11. Chain(t, q)'
  <2>1. Len(t) = Task_Count'[q] /\ Len(t) - 1 = n - 2
    BY <1>4, <1>6, <1>7
  <2>2. t \in Seq(PCBs) /\ p_Tail'[q] = t[Len(t)]
    BY <1>6, <1>10
  <2> QED BY <1>8, <1>9, <2>1, <2>2 DEF Chain
<1>12. ASSUME NEW r \in QueueIds \ {q}, NEW k \in 1 .. Len(Contents(r))
       PROVE  /\ p_Next'[Contents(r)[k]] = p_Next[Contents(r)[k]]
              /\ p_Prev'[Contents(r)[k]] = p_Prev[Contents(r)[k]]
  <2>1. Contents(r)[k] \in PCBs
    BY ListFacts
  <2>2. \A j \in 1 .. n : Contents(r)[k] # s[j]
    BY <1>2, <1>3, ApartFacts
  <2> QED BY <1>7, <2>1, <2>2
<1>13. Changed(q, t)
  <2>1. LinkTypes /\ \A r \in QueueIds : Chain(Contents(r), r)
    BY DEF ListInv
  <2> QED BY <1>7, <1>11, <1>12, <2>1, OneListChanges DEF Changed, Others
<1> QED BY <1>1, <1>5, <1>13

LEMMA RemoveOnlyFacts ==
    ASSUME ListInv, NEW q \in QueueIds, NEW Index \in 0 .. Task_Count[q] - 1, RemoveOnly(Index, q)
    PROVE  Changed(q, CutOut(Lists[q], Index + 1))
<1>1. PICK s : s = Contents(q)
  OBVIOUS
<1>2. s = Lists[q] /\ s \in Seq(PCBs) /\ Len(s) = 1 /\ 1 \in 1 .. Len(s) /\ Index = 0 /\ Index + 1 = 1
  <2>1. Lists[q] = s /\ s \in Seq(PCBs) /\ Len(s) = Task_Count[q]
    BY <1>1, ListFacts
  <2> QED BY <2>1 DEF RemoveOnly
<1>3. PICK t : t = CutOut(s, 1)
  OBVIOUS
<1>4. t \in Seq(PCBs) /\ Len(t) = 0
  <2>1. PICK i \in 1 .. Len(s) : i = 1
    BY <1>2
  <2>2. s \in Seq(PCBs) /\ t = CutOut(s, i)
    BY <1>2, <1>3, <2>1
  <2>3. t \in Seq(PCBs) /\ Len(t) = Len(s) - 1
    <3>1. IsCut(t, s, i, PCBs)
      BY <2>2, TakenOut
    <3> QED BY <3>1 DEF IsCut
  <2> QED BY <1>2, <2>3
<1>5. LinkTypes /\ LinkTypes'
  BY DEF ListInv, LinkTypes, RemoveOnly, Shorter, Pointers, links
<1>6. Chain(t, q)'
  BY <1>4, <1>5 DEF Chain, RemoveOnly, Shorter, LinkTypes
<1>7. Changed(q, t)
  BY <1>5, <1>6, OneListChanges DEF Changed, RemoveOnly, Shorter, links, ListInv, LinkTypes
<1> QED BY <1>2, <1>3, <1>7

\* The queue of the cases that follow, as a sequence with more than one element.
LongList(q, s, n) ==
    /\ s = Lists[q] /\ n = Len(s)
    /\ s \in Seq(PCBs) /\ n \in Nat /\ n > 1 /\ n = Task_Count[q]
    /\ \A k \in 1 .. n : s[k] \in PCBs
    /\ p_Head[q] = s[1] /\ p_Tail[q] = s[n]
    /\ \A k \in 1 .. n - 1 : p_Next[s[k]] = s[k + 1] /\ p_Prev[s[k + 1]] = s[k]
    /\ \A j, k \in 1 .. n : s[j] = s[k] => j = k

LEMMA LongQueue ==
    ASSUME ListInv, NEW q \in QueueIds, Task_Count[q] > 1
    PROVE  \E s, n : LongList(q, s, n)
<1>1. PICK s, n : s = Contents(q) /\ n = Len(s)
  OBVIOUS
<1>2. LongList(q, s, n)
  BY <1>1, ListFacts DEF LongList
<1> QED BY <1>2

LEMMA RemoveHeadFacts ==
    ASSUME ListInv, NEW q \in QueueIds, NEW Index \in 0 .. Task_Count[q] - 1, RemoveHead(Index, q)
    PROVE  Changed(q, CutOut(Lists[q], Index + 1))
<1>1. PICK s, n : LongList(q, s, n)
  BY LongQueue DEF RemoveHead
<1>2. /\ s = Lists[q] /\ n = Len(s) /\ n \in Nat /\ n > 1 /\ n = Task_Count[q]
      /\ \A k \in 1 .. n : s[k] \in PCBs
      /\ p_Head[q] = s[1] /\ p_Tail[q] = s[n]
      /\ \A k \in 1 .. n - 1 : p_Next[s[k]] = s[k + 1] /\ p_Prev[s[k + 1]] = s[k]
      /\ \A j, k \in 1 .. n : s[j] = s[k] => j = k
  BY <1>1 DEF LongList
<1>3. 1 \in 1 .. n /\ 2 \in 1 .. n /\ 1 \in 1 .. n - 1 /\ 1 + 1 = 2 /\ Index + 1 = 1
  BY <1>2 DEF RemoveHead
<1>4. s[1] \in PCBs /\ s[2] \in PCBs /\ p_Next[s[1]] = s[2]
  BY <1>2, <1>3
<1>5. /\ p_Prev' = [p_Prev EXCEPT ![s[2]] = NULL]
      /\ p_Next' = [p_Next EXCEPT ![s[1]] = NULL]
      /\ p_Head' = [p_Head EXCEPT ![q] = s[2]]
      /\ p_Tail' = p_Tail
      /\ Task_Count' = [Task_Count EXCEPT ![q] = Task_Count[q] - 1]
  BY <1>2, <1>4 DEF RemoveHead, Shorter
<1>6. LinkTypes'
  BY <1>2, <1>4, <1>5 DEF ListInv, LinkTypes, Pointers
<1>7. ASSUME NEW k \in 1 .. n - 1, k # 1
      PROVE  p_Next'[s[k]] = s[k + 1] /\ p_Prev'[s[k + 1]] = s[k]
  <2>1. k \in 1 .. n /\ k + 1 \in 1 .. n /\ k + 1 # 2
    BY <1>2, <1>7
  <2>2. s[k] # s[1] /\ s[k + 1] # s[2] /\ s[k] \in PCBs /\ s[k + 1] \in PCBs
    BY <1>2, <1>3, <1>7, <2>1
  <2> QED BY <1>2, <1>5, <2>2 DEF ListInv, LinkTypes
<1>8. ASSUME NEW x \in PCBs, \A k \in 1 .. n : x # s[k]
      PROVE  p_Next'[x] = p_Next[x] /\ p_Prev'[x] = p_Prev[x]
  BY <1>3, <1>5, <1>8 DEF ListInv, LinkTypes
<1>9. Others(q)
  BY <1>5 DEF Others, ListInv, LinkTypes
<1>10. p_Head'[q] = s[2] /\ p_Tail'[q] = s[n] /\ Task_Count'[q] = n - 1
  BY <1>2, <1>5 DEF ListInv, LinkTypes
<1>11. Unlinks(q, s, 1)
  BY <1>2, <1>6, <1>7, <1>8, <1>9, <1>10 DEF Unlinks
<1> QED BY <1>2, <1>3, <1>11, UnlinksFacts

LEMMA RemoveTailFacts ==
    ASSUME ListInv, NEW q \in QueueIds, NEW Index \in 0 .. Task_Count[q] - 1, RemoveTail(Index, q)
    PROVE  Changed(q, CutOut(Lists[q], Index + 1))
<1>0. Task_Count[q] \in Nat /\ Task_Count[q] > 1
  BY DEF ListInv, LinkTypes, RemoveTail
<1>1. PICK s, n : LongList(q, s, n)
  BY <1>0, LongQueue
<1>2. /\ s = Lists[q] /\ n = Len(s) /\ n \in Nat /\ n > 1 /\ n = Task_Count[q]
      /\ \A k \in 1 .. n : s[k] \in PCBs
      /\ p_Head[q] = s[1] /\ p_Tail[q] = s[n]
      /\ \A k \in 1 .. n - 1 : p_Next[s[k]] = s[k + 1] /\ p_Prev[s[k + 1]] = s[k]
      /\ \A j, k \in 1 .. n : s[j] = s[k] => j = k
  BY <1>1 DEF LongList
<1>3. n \in 1 .. n /\ n - 1 \in 1 .. n /\ n - 1 \in 1 .. n - 1 /\ (n - 1) + 1 = n /\ Index + 1 = n
  BY <1>2 DEF RemoveTail
<1>4. s[n] \in PCBs /\ s[n - 1] \in PCBs /\ p_Prev[s[n]] = s[n - 1]
  BY <1>2, <1>3
<1>5. /\ p_Next' = [p_Next EXCEPT ![s[n - 1]] = NULL]
      /\ p_Prev' = [p_Prev EXCEPT ![s[n]] = NULL]
      /\ p_Tail' = [p_Tail EXCEPT ![q] = s[n - 1]]
      /\ p_Head' = p_Head
      /\ Task_Count' = [Task_Count EXCEPT ![q] = Task_Count[q] - 1]
  BY <1>2, <1>4 DEF RemoveTail, Shorter
<1>6. LinkTypes'
  BY <1>2, <1>4, <1>5 DEF ListInv, LinkTypes, Pointers
<1>7. ASSUME NEW k \in 1 .. n - 1, k + 1 # n
      PROVE  p_Next'[s[k]] = s[k + 1] /\ p_Prev'[s[k + 1]] = s[k]
  <2>1. k \in 1 .. n /\ k + 1 \in 1 .. n /\ k # n - 1
    BY <1>2, <1>7
  <2>2. s[k] # s[n - 1] /\ s[k + 1] # s[n] /\ s[k] \in PCBs /\ s[k + 1] \in PCBs
    BY <1>2, <1>3, <1>7, <2>1
  <2> QED BY <1>2, <1>5, <2>2 DEF ListInv, LinkTypes
<1>8. ASSUME NEW x \in PCBs, \A k \in 1 .. n : x # s[k]
      PROVE  p_Next'[x] = p_Next[x] /\ p_Prev'[x] = p_Prev[x]
  BY <1>3, <1>5, <1>8 DEF ListInv, LinkTypes
<1>9. Others(q)
  BY <1>5 DEF Others, ListInv, LinkTypes
<1>10. p_Head'[q] = s[1] /\ p_Tail'[q] = s[n - 1] /\ Task_Count'[q] = n - 1
  BY <1>2, <1>5 DEF ListInv, LinkTypes
<1>11. Unlinks(q, s, n)
  BY <1>2, <1>6, <1>7, <1>8, <1>9, <1>10 DEF Unlinks
<1> QED BY <1>2, <1>3, <1>11, UnlinksFacts

LEMMA RemoveMiddleFacts ==
    ASSUME ListInv, NEW q \in QueueIds, NEW Index \in 0 .. Task_Count[q] - 1, RemoveMiddle(Index, q)
    PROVE  Changed(q, CutOut(Lists[q], Index + 1))
<1>0. Task_Count[q] \in Nat /\ Task_Count[q] > 1
  BY DEF ListInv, LinkTypes, RemoveMiddle
<1>1. PICK s, n : LongList(q, s, n)
  BY <1>0, LongQueue
<1>2. /\ s = Lists[q] /\ n = Len(s) /\ n \in Nat /\ n > 1 /\ n = Task_Count[q]
      /\ \A k \in 1 .. n : s[k] \in PCBs
      /\ p_Head[q] = s[1] /\ p_Tail[q] = s[n]
      /\ \A k \in 1 .. n - 1 : p_Next[s[k]] = s[k + 1] /\ p_Prev[s[k + 1]] = s[k]
      /\ \A j, k \in 1 .. n : s[j] = s[k] => j = k
  BY <1>1 DEF LongList
<1> DEFINE i == Index + 1
<1>3. /\ i \in 1 .. n /\ i - 1 \in 1 .. n /\ i + 1 \in 1 .. n
      /\ i \in 1 .. n - 1 /\ i - 1 \in 1 .. n - 1 /\ (i - 1) + 1 = i
  BY <1>2 DEF RemoveMiddle
<1>4. Get_Task_At(Index, q) = s[i]
  <2>1. LinkTypes /\ s = Contents(q) /\ Chain(s, q) /\ Index \in 0 .. Len(s) - 1
    BY <1>2 DEF ListInv, Lists
  <2> QED BY <2>1, QueueFacts
<1> HIDE DEF i
<1>5. /\ s[i] \in PCBs /\ s[i - 1] \in PCBs /\ s[i + 1] \in PCBs
      /\ p_Next[s[i]] = s[i + 1] /\ p_Prev[s[i]] = s[i - 1]
      /\ s[i - 1] # s[i]
  <2>1. i - 1 # i
    BY <1>3
  <2> QED BY <1>2, <1>3, <2>1
<1>6. /\ p_Prev' = [p_Prev EXCEPT ![s[i + 1]] = s[i - 1]]
      /\ p_Next' = [p_Next EXCEPT ![s[i - 1]] = s[i + 1], ![s[i]] = NULL]
      /\ p_Tail' = p_Tail
      /\ p_Head' = p_Head
      /\ Task_Count' = [Task_Count EXCEPT ![q] = Task_Count[q] - 1]
  BY <1>4, <1>5 DEF RemoveMiddle, Shorter
<1>7. LinkTypes'
  BY <1>2, <1>5, <1>6 DEF ListInv, LinkTypes, Pointers
<1>8. ASSUME NEW k \in 1 .. n - 1, k # i, k + 1 # i
      PROVE  p_Next'[s[k]] = s[k + 1] /\ p_Prev'[s[k + 1]] = s[k]
  <2>1. k \in 1 .. n /\ k + 1 \in 1 .. n /\ k # i - 1 /\ k + 1 # i + 1
    BY <1>2, <1>3, <1>8
  <2>2. s[k] # s[i - 1] /\ s[k] # s[i] /\ s[k + 1] # s[i + 1] /\ s[k] \in PCBs /\ s[k + 1] \in PCBs
    BY <1>2, <1>3, <1>8, <2>1
  <2> QED BY <1>2, <1>6, <2>2 DEF ListInv, LinkTypes
<1>9. p_Next'[s[i - 1]] = s[i + 1] /\ p_Prev'[s[i + 1]] = s[i - 1]
  BY <1>5, <1>6 DEF ListInv, LinkTypes
<1>10. ASSUME NEW x \in PCBs, \A k \in 1 .. n : x # s[k]
       PROVE  p_Next'[x] = p_Next[x] /\ p_Prev'[x] = p_Prev[x]
  BY <1>3, <1>6, <1>10 DEF ListInv, LinkTypes
<1>11. Others(q)
  BY <1>6 DEF Others, ListInv, LinkTypes
<1>12. p_Head'[q] = s[1] /\ p_Tail'[q] = s[n] /\ Task_Count'[q] = n - 1 /\ i # 1 /\ i # n
  BY <1>2, <1>3, <1>6 DEF ListInv, LinkTypes
<1>13. Unlinks(q, s, i)
  BY <1>2, <1>7, <1>8, <1>9, <1>10, <1>11, <1>12 DEF Unlinks
<1> QED BY <1>2, <1>3, <1>13, UnlinksFacts DEF i

-----------------------------------------------------------------------------
(* No PCB is met twice after an operation either.                          *)

\* The elements of t differ from each other and from those of the lists
\* other than q.
Fresh(t, q) ==
    /\ \A j, k \in 1 .. Len(t) : t[j] = t[k] => j = k
    /\ \A r \in QueueIds \ {q} : \A j \in 1 .. Len(t) : \A k \in 1 .. Len(Lists[r]) :
           t[j] # Lists[r][k]

LEMMA DistinctKept ==
    ASSUME Distinct(Lists), NEW q \in QueueIds, NEW t, Fresh(t, q), Changed(q, t)
    PROVE  Distinct(Lists')
<1>1. PICK d : d = Lists'
  OBVIOUS
<1>2. d[q] = t /\ \A r \in QueueIds \ {q} : d[r] = Lists[r]
  <2>1. DOMAIN Lists = QueueIds
    BY DEF Lists
  <2> QED BY <1>1, <2>1 DEF Changed
<1>3. ASSUME NEW r1 \in QueueIds, NEW r2 \in QueueIds,
             NEW j \in 1 .. Len(d[r1]), NEW k \in 1 .. Len(d[r2]), d[r1][j] = d[r2][k]
      PROVE  r1 = r2 /\ j = k
  <2>1. CASE r1 = q /\ r2 = q
    BY <1>2, <1>3, <2>1 DEF Fresh
  <2>2. CASE r1 = q /\ r2 # q
    BY <1>2, <1>3, <2>2 DEF Fresh
  <2>3. CASE r1 # q /\ r2 = q
    BY <1>2, <1>3, <2>3 DEF Fresh
  <2>4. CASE r1 # q /\ r2 # q
    BY <1>2, <1>3, <2>4 DEF Distinct
  <2> QED BY <2>1, <2>2, <2>3, <2>4
<1> QED BY <1>1, <1>3 DEF Distinct

\* What is known of the list that changes, before it does.
LEMMA FreshNow ==
    ASSUME ListInv, NEW q \in QueueIds
    PROVE  /\ Fresh(Lists[q], q)
           /\ Lists[q] \in Seq(PCBs) /\ Len(Lists[q]) \in Nat /\ Len(Lists[q]) = Task_Count[q]
           /\ \A p \in PCBs : ~Linked(p) =>
                  \A r \in QueueIds : \A k \in 1 .. Len(Lists[r]) : Lists[r][k] # p
<1>1. \A r \in QueueIds : Lists[r] = Contents(r)
  BY DEF Lists
<1>2. Lists[q] \in Seq(PCBs) /\ Len(Lists[q]) \in Nat /\ Len(Lists[q]) = Task_Count[q]
  BY <1>1, ListFacts
<1>3. Fresh(Lists[q], q)
  BY DEF ListInv, Distinct, Fresh
<1> QED BY <1>1, <1>2, <1>3, UnlinkedFacts

LEMMA AppendFresh ==
    ASSUME ListInv, NEW q \in QueueIds, NEW p \in PCBs, ~Linked(p)
    PROVE  Fresh(Append(Lists[q], p), q)
<1>1. PICK s, n : s = Lists[q] /\ n = Len(s)
  OBVIOUS
<1>2. /\ Fresh(s, q) /\ s \in Seq(PCBs) /\ n \in Nat
      /\ \A r \in QueueIds : \A k \in 1 .. Len(Lists[r]) : Lists[r][k] # p
  BY <1>1, FreshNow
<1>3. PICK t : t = Append(s, p)
  OBVIOUS
<1>4. Len(t) = n + 1 /\ t[n + 1] = p /\ \A k \in 1 .. n : t[k] = s[k] /\ t[k] # p
  BY <1>1, <1>2, <1>3, Appended
<1>5. \A j, k \in 1 .. n + 1 : t[j] = t[k] => j = k
  BY <1>1, <1>2, <1>4 DEF Fresh
<1>6. \A r \in QueueIds \ {q} : \A j \in 1 .. n + 1 : \A k \in 1 .. Len(Lists[r]) : t[j] # Lists[r][k]
  BY <1>1, <1>2, <1>4 DEF Fresh
<1>7. Fresh(t, q)
  BY <1>4, <1>5, <1>6 DEF Fresh
<1> QED BY <1>1, <1>3, <1>7

LEMMA PrependFresh ==
    ASSUME ListInv, NEW q \in QueueIds, NEW p \in PCBs, ~Linked(p)
    PROVE  Fresh(<<p>> \o Lists[q], q)
<1>1. PICK s, n : s = Lists[q] /\ n = Len(s)
  OBVIOUS
<1>2. /\ Fresh(s, q) /\ s \in Seq(PCBs) /\ n \in Nat
      /\ \A r \in QueueIds : \A k \in 1 .. Len(Lists[r]) : Lists[r][k] # p
  BY <1>1, FreshNow
<1>3. PICK t : t = <<p>> \o s
  OBVIOUS
<1>4. Len(t) = n + 1 /\ t[1] = p /\ \A k \in 1 .. n : t[k + 1] = s[k]
  BY <1>1, <1>2, <1>3, Prepended
<1>5. \A k \in 1 .. n + 1 : k # 1 => k - 1 \in 1 .. n /\ t[k] = s[k - 1] /\ t[k] # p
  <2> TAKE k \in 1 .. n + 1
  <2> HAVE k # 1
  <2>1. k - 1 \in 1 .. n /\ (k - 1) + 1 = k
    BY <1>2
  <2>2. t[(k - 1) + 1] = s[k - 1] /\ s[k - 1] # p
    BY <1>1, <1>2, <1>4, <2>1
  <2> QED BY <2>1, <2>2
<1>6. ASSUME NEW j \in 1 .. n + 1, NEW k \in 1 .. n + 1, t[j] = t[k]
      PROVE  j = k
  <2>1. CASE j # 1 /\ k # 1
    <3>1. s[j - 1] = s[k - 1] /\ j - 1 \in 1 .. n /\ k - 1 \in 1 .. n
      BY <1>5, <1>6, <2>1
    <3>2. j - 1 = k - 1
      BY <1>1, <1>2, <3>1 DEF Fresh
    <3> QED BY <3>2
  <2>2. CASE j = 1 \/ k = 1
    BY <1>4, <1>5, <1>6, <2>2
  <2> QED BY <2>1, <2>2
<1>7. ASSUME NEW r \in QueueIds \ {q}, NEW j \in 1 .. n + 1, NEW k \in 1 .. Len(Lists[r])
      PROVE  t[j] # Lists[r][k]
  <2>1. CASE j = 1
    BY <1>2, <1>4, <2>1
  <2>2. CASE j # 1
    BY <1>1, <1>2, <1>5, <2>2 DEF Fresh
  <2> QED BY <2>1, <2>2
<1>8. Fresh(t, q)
  BY <1>4, <1>6, <1>7 DEF Fresh
<1> QED BY <1>1, <1>3, <1>8

LEMMA CutFresh ==
    ASSUME ListInv, NEW q \in QueueIds, NEW i \in 1 .. Len(Lists[q])
    PROVE  Fresh(CutOut(Lists[q], i), q)
<1>1. PICK s, n : s = Lists[q] /\ n = Len(s)
  OBVIOUS
<1>2. Fresh(s, q) /\ s \in Seq(PCBs) /\ n \in Nat /\ i \in 1 .. n
  BY <1>1, FreshNow
<1>3. PICK t : t = CutOut(s, i)
  OBVIOUS
<1>4. /\ t \in Seq(PCBs) /\ Len(t) = n - 1
      /\ \A k \in 1 .. i - 1 : t[k] = s[k]
      /\ \A k \in i .. n - 1 : t[k] = s[k + 1]
  <2>1. s \in Seq(PCBs) /\ i \in 1 .. Len(s)
    BY <1>1, <1>2
  <2>2. n = Len(s)
    BY <1>1
  <2>3. IsCut(t, s, i, PCBs)
    BY <1>3, <2>1, TakenOut
  <2> QED BY <2>2, <2>3 DEF IsCut
<1> DEFINE at(k) == IF k < i THEN k ELSE k + 1
<1>5. ASSUME NEW k \in 1 .. n - 1
      PROVE  at(k) \in 1 .. n /\ t[k] = s[at(k)]
  <2>1. CASE k < i
    <3>1. k \in 1 .. i - 1 /\ k \in 1 .. n
      BY <1>2, <2>1
    <3> QED BY <1>4, <2>1, <3>1
  <2>2. CASE ~(k < i)
    <3>1. k \in i .. n - 1 /\ k + 1 \in 1 .. n
      BY <1>2, <2>2
    <3> QED BY <1>4, <2>2, <3>1
  <2> QED BY <2>1, <2>2
<1>6. ASSUME NEW j \in 1 .. n - 1, NEW k \in 1 .. n - 1, t[j] = t[k]
      PROVE  j = k
  <2>1. at(j) = at(k)
    <3>1. s[at(j)] = s[at(k)] /\ at(j) \in 1 .. n /\ at(k) \in 1 .. n
      BY <1>5, <1>6
    <3> HIDE DEF at
    <3> QED BY <1>1, <1>2, <3>1 DEF Fresh
  <2> QED BY <1>2, <2>1
<1>7. ASSUME NEW r \in QueueIds \ {q}, NEW j \in 1 .. n - 1, NEW k \in 1 .. Len(Lists[r])
      PROVE  t[j] # Lists[r][k]
  <2>1. at(j) \in 1 .. n /\ t[j] = s[at(j)]
    BY <1>5
  <2> HIDE DEF at
  <2> QED BY <1>1, <1>2, <2>1 DEF Fresh
<1>8. Fresh(t, q)
  BY <1>4, <1>6, <1>7 DEF Fresh
<1> QED BY <1>1, <1>3, <1>8

-----------------------------------------------------------------------------
(* Every step is one of Queues.                                            *)

LEMMA Steady ==
    ASSUME LinkTypes, LinkTypes', ListInv, UNCHANGED heads,
           \A r \in QueueIds : \A k \in 1 .. Len(Lists[r]) :
               /\ p_Next'[Lists[r][k]] = p_Next[Lists[r][k]]
               /\ p_Prev'[Lists[r][k]] = p_Prev[Lists[r][k]]
    PROVE  UNCHANGED Lists /\ \A r \in QueueIds : Chain(Contents(r), r)'
<1>1. ASSUME NEW q \in QueueIds
      PROVE  Changed(q, Lists[q]) /\ Lists' = Lists
  <2>1. Chain(Lists[q], q) /\ Len(Lists[q]) \in Nat
    <3>1. Lists[q] = Contents(q)
      BY DEF Lists
    <3> QED BY <3>1, FreshNow DEF ListInv
  <2>2. PICK t : t = Lists[q]
    OBVIOUS
  <2>3. Chain(t, q)'
    <3>1. \A k \in 1 .. Len(t) - 1 : k \in 1 .. Len(t) /\ k + 1 \in 1 .. Len(t)
      BY <2>1, <2>2
    <3> QED BY <2>1, <2>2, <3>1 DEF Chain, heads
  <2>4. Changed(q, t)
    <3>1. \A r \in QueueIds : Chain(Contents(r), r) /\ Lists[r] = Contents(r)
      BY DEF ListInv, Lists
    <3> QED BY <2>3, <3>1, OneListChanges DEF heads, Changed
  <2>5. [Lists EXCEPT ![q] = t] = Lists
    BY <2>2 DEF Lists
  <2> QED BY <2>2, <2>4, <2>5 DEF Changed
<1>2. CASE QueueIds = {}
  BY <1>2 DEF Lists
<1>3. CASE QueueIds # {}
  BY <1>1, <1>3 DEF Changed
<1> QED BY <1>2, <1>3

\* A PCB is put into a queue, or an element is taken out, or no list changes.
Puts(q, p) ==
    /\ \A r \in QueueIds : \A k \in 1 .. Len(Lists[r]) : Lists[r][k] # p
    /\ \/ Lists' = [Lists EXCEPT ![q] = Append(Lists[q], p)]
       \/ Lists' = [Lists EXCEPT ![q] = <<p>> \o Lists[q]]

Takes(q, i) == i \in 1 .. Len(Lists[q]) /\ Lists' = [Lists EXCEPT ![q] = CutOut(Lists[q], i)]

QueueStep ==
    \/ \E q \in QueueIds : \E p \in PCBs : Puts(q, p)
    \/ \E q \in QueueIds : \E i \in 1 .. Len(Lists[q]) : Takes(q, i)
    \/ UNCHANGED Lists

\* An operation keeps the invariant.
LEMMA ChangedKeeps ==
    ASSUME ListInv, NEW q \in QueueIds, NEW t, Fresh(t, q), Changed(q, t), UNCHANGED ChildList
    PROVE  ListInv'
<1>1. Distinct(Lists')
  BY DistinctKept DEF ListInv
<1>2. Distinct(Lists)'
  BY <1>1 DEF Distinct
<1> QED BY <1>2 DEF ListInv, Changed

LEMMA SteadyKeeps ==
    ASSUME ListInv, LinkTypes', UNCHANGED Lists, \A r \in QueueIds : Chain(Contents(r), r)',
           UNCHANGED ChildList
    PROVE  ListInv'
<1>1. Distinct(Lists)'
  BY DEF ListInv, Distinct
<1> QED BY <1>1 DEF ListInv

LEMMA PutKeeps ==
    ASSUME ListInv, NEW p \in PCBs, ~Linked(p), NEW q \in QueueIds, UNCHANGED ChildList,
           Add_Task_in_Tail(p, q) \/ Add_Task_in_Head(p, q)
    PROVE  ListInv' /\ Puts(q, p)
<1>1. \A r \in QueueIds : \A k \in 1 .. Len(Lists[r]) : Lists[r][k] # p
  BY FreshNow
<1>2. CASE Add_Task_in_Tail(p, q)
  <2>1. Changed(q, Append(Lists[q], p)) /\ Fresh(Append(Lists[q], p), q)
    BY <1>2, AddTailFacts, AppendFresh
  <2> QED BY <1>1, <2>1, ChangedKeeps DEF Puts, Changed
<1>3. CASE Add_Task_in_Head(p, q)
  <2>1. Changed(q, <<p>> \o Lists[q]) /\ Fresh(<<p>> \o Lists[q], q)
    BY <1>3, AddHeadFacts, PrependFresh
  <2> QED BY <1>1, <2>1, ChangedKeeps DEF Puts, Changed
<1> QED BY <1>2, <1>3

LEMMA StepKeeps ==
    ASSUME ListInv, InsertsInMiddle = FALSE, [Next]_vars
    PROVE  ListInv' /\ QueueStep
<1>1. ASSUME NEW p \in PCBs, ~Linked(p), NEW q \in QueueIds, Add(p, q), UNCHANGED ChildList
      PROVE  ListInv' /\ QueueStep
  <2>1. Add_Task_in_Tail(p, q) \/ Add_Task_in_Head(p, q)
    BY <1>1 DEF Add, Insert_Task_At
  <2>2. ListInv' /\ Puts(q, p)
    BY <1>1, <2>1, PutKeeps
  <2> QED BY <2>2 DEF QueueStep
<1>2. ASSUME NEW p \in PCBs, ~Linked(p), Free_PCB(p), UNCHANGED ChildList
      PROVE  ListInv' /\ QueueStep
  <2>1. LinkTypes /\ LinkTypes'
    BY <1>2 DEF ListInv, LinkTypes, Free_PCB, heads, Pointers
  <2>2. ASSUME NEW r \in QueueIds, NEW k \in 1 .. Len(Lists[r])
        PROVE  /\ p_Next'[Lists[r][k]] = p_Next[Lists[r][k]]
               /\ p_Prev'[Lists[r][k]] = p_Prev[Lists[r][k]]
    <3>1. Lists[r][k] \in PCBs /\ Lists[r][k] # p
      BY <1>2, FreshNow
    <3> QED BY <1>2, <3>1 DEF ListInv, LinkTypes, Free_PCB
  <2>3. UNCHANGED Lists /\ \A r \in QueueIds : Chain(Contents(r), r)'
    BY <1>2, <2>1, <2>2, Steady DEF Free_PCB
  <2> QED BY <1>2, <2>1, <2>3, SteadyKeeps DEF QueueStep
<1>3. ASSUME NEW q \in QueueIds, NEW Index \in 0 .. Task_Count[q] - 1, Remove_Task_At(Index, q),
             UNCHANGED ChildList
      PROVE  ListInv' /\ QueueStep
  <2>1. Changed(q, CutOut(Lists[q], Index + 1))
    BY <1>3, RemoveOnlyFacts, RemoveHeadFacts, RemoveTailFacts, RemoveMiddleFacts DEF Remove_Task_At
  <2>2. PICK i : i = Index + 1
    OBVIOUS
  <2>3. i \in 1 .. Len(Lists[q])
    BY <2>2, FreshNow
  <2>4. Fresh(CutOut(Lists[q], i), q) /\ Changed(q, CutOut(Lists[q], i))
    BY <2>1, <2>2, <2>3, CutFresh
  <2>5. ListInv' /\ Takes(q, i)
    BY <1>3, <2>3, <2>4, ChangedKeeps DEF Takes, Changed
  <2> QED BY <2>3, <2>5 DEF QueueStep
<1>4. CASE UNCHANGED vars
  <2>1. LinkTypes /\ LinkTypes'
    BY <1>4 DEF ListInv, LinkTypes, vars, links, heads
  <2>2. UNCHANGED Lists /\ \A r \in QueueIds : Chain(Contents(r), r)'
    BY <1>4, <2>1, Steady DEF vars, links
  <2> QED BY <1>4, <2>1, <2>2, SteadyKeeps DEF QueueStep, vars
<1> QED BY <1>1, <1>2, <1>3, <1>4 DEF Next

LEMMA InitKeeps == Init => ListInv /\ Lists = [q \in QueueIds |-> <<>>]
<1> SUFFICES ASSUME Init PROVE ListInv /\ Lists = [q \in QueueIds |-> <<>>]
  OBVIOUS
<1>1. LinkTypes /\ ChildList \in BOOLEAN
  BY DEF Init, LinkTypes, Pointers
<1>2. \A q \in QueueIds : Contents(q) = <<>> /\ Task_Count[q] = 0
  BY DEF Contents, Init
<1>3. \A q \in QueueIds : Chain(Contents(q), q)
  <2>1. PICK e : e = <<>>
    OBVIOUS
  <2>2. e \in Seq(PCBs) /\ Len(e) = 0
    BY <2>1
  <2>3. \A q \in QueueIds : Chain(e, q)
    BY <1>2, <2>2 DEF Chain
  <2> QED BY <1>2, <2>1, <2>3
<1>4. Lists = [q \in QueueIds |-> <<>>]
  BY <1>2 DEF Lists
<1>5. Distinct(Lists)
  BY <1>4 DEF Distinct
<1> QED BY <1>1, <1>3, <1>4, <1>5 DEF ListInv

-----------------------------------------------------------------------------
(* The theorems.  Nothing in the kernel inserts into the middle of a queue *)
(* (InsertsInMiddle).                                                      *)

(* Along the links of every queue, from the head and from the tail, stand  *)
(* as many PCBs as the queue counts, each in one queue and one place,      *)
(* whatever the operations leave in the links that are in no queue.        *)
THEOREM ListsConnected ==
    ASSUME InsertsInMiddle = FALSE
    PROVE  Spec => []ListInv
<1>1. Init => ListInv
  BY InitKeeps
<1>2. ListInv /\ [Next]_vars => ListInv'
  BY StepKeeps
<1> QED BY <1>1, <1>2, PTL DEF Spec

(* Get_Task_At returns the element at the position it is asked for, from   *)
(* whichever end it walks.                                                 *)
THEOREM FindsElement ==
    ASSUME InsertsInMiddle = FALSE
    PROVE  Spec => []GetReturnsElement
<1>1. ASSUME ListInv PROVE GetReturnsElement
  <2> SUFFICES ASSUME NEW q \in QueueIds, NEW Index \in 0 .. Task_Count[q] - 1
               PROVE  /\ Get_Task_At(Index, q) = Contents(q)[Index + 1]
                      /\ Walk(q)[Index] = WalkBack(q)[Task_Count[q] - 1 - Index]
                      /\ Walk(q)[Index] \in PCBs
    BY DEF GetReturnsElement
  <2>1. PICK s : s = Contents(q)
    OBVIOUS
  <2>2. LinkTypes /\ Chain(s, q)
    BY <1>1, <2>1 DEF ListInv
  <2>3. /\ s \in Seq(PCBs) /\ Len(s) = Task_Count[q]
        /\ \A k \in 1 .. Len(s) : Walk(q)[k - 1] = s[k] /\ WalkBack(q)[Len(s) - k] = s[k]
        /\ \A j \in 0 .. Len(s) - 1 : Get_Task_At(j, q) = s[j + 1]
    BY <2>1, <2>2, QueueFacts
  <2>4. /\ Index + 1 \in 1 .. Len(s) /\ Index \in 0 .. Len(s) - 1 /\ (Index + 1) - 1 = Index
        /\ Len(s) - (Index + 1) = Task_Count[q] - 1 - Index
    BY <2>3
  <2>5. s[Index + 1] \in PCBs
    BY <2>3, <2>4
  <2> QED BY <2>1, <2>3, <2>4, <2>5
<1> QED BY <1>1, ListsConnected, PTL

(* The lists are queues: every operation puts one PCB that is nowhere at   *)
(* an end of a queue, or takes one element out, and leaves the others in   *)
(* order.                                                                  *)
THEOREM QueuesImplemented ==
    ASSUME InsertsInMiddle = FALSE
    PROVE  Spec => ImplementsQueues
<1>1. Init => Abstract!Init
  BY InitKeeps DEF Abstract!Init, Lists
<1>2. QueueStep => [Abstract!Next]_Lists
  <2>1. ASSUME NEW q \in QueueIds, NEW p \in PCBs, Puts(q, p)
        PROVE  Abstract!Next
    <3>1. ~Abstract!Queued(p)
      BY <2>1 DEF Abstract!Queued, Puts, Lists
    <3>2. Abstract!Put(p, q)
      BY <2>1, <3>1 DEF Abstract!Put, Puts, Lists
    <3> QED BY <3>2 DEF Abstract!Next
  <2>2. ASSUME NEW q \in QueueIds, NEW i \in 1 .. Len(Lists[q]), Takes(q, i)
        PROVE  Abstract!Next
    <3>1. Abstract!Take(i, q)
      BY <2>2 DEF Abstract!Take, Takes, Lists, CutOut
    <3> QED BY <3>1 DEF Abstract!Next, Lists
  <2> QED BY <2>1, <2>2 DEF QueueStep
<1>3. ListInv /\ [Next]_vars => [Abstract!Next]_Lists
  BY <1>2, StepKeeps
<1>4. [Abstract!Next]_Lists <=> [Abstract!Next]_[q \in QueueIds |-> Contents(q)]
  BY DEF Lists
<1> QED BY <1>1, <1>3, <1>4, ListsConnected, PTL DEF Spec, ImplementsQueues, Abstract!Spec
=============================================================================
