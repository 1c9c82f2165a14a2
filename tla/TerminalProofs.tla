---------------------------- MODULE TerminalProofs ----------------------------
(***************************************************************************)
(* The ring of the keyboard and the line on the screen, for every size of  *)
(* the ring, the line and the screen.                                      *)
(***************************************************************************)
EXTENDS Terminal, NatLemmas

-----------------------------------------------------------------------------
(* The ring.                                                               *)
(*                                                                         *)
(* ReadsInOrder needs to know where the next key is put, that there is     *)
(* room for the keys until one is put over another, and, between the two   *)
(* halves of a shutdown that takes a key, that the count it has read was   *)
(* not too large.                                                          *)

Places == 0 .. BUFFER_SIZE - 1

RingTypes ==
    /\ PutIndex \in Places /\ GetIndex \in Places
    /\ Key_Buf \in [Places -> Keys \cup {NoKey}]
    /\ unread \in Seq(Keys)
    /\ Buf_Count \in 0 .. BUFFER_SIZE
    /\ overrun \in BOOLEAN

RingInv ==
    /\ RingTypes
    /\ ~overrun => PutIndex = (GetIndex + Len(unread)) % BUFFER_SIZE /\ Len(unread) <= BUFFER_SIZE
    /\ ReadsInOrder
    /\ pc = "asked" => count \in 1 .. Buf_Count

LEMMA RingInit == Init => RingInv
<1> SUFFICES ASSUME Init PROVE RingInv
  OBVIOUS
<1>1. BUFFER_SIZE \in Nat \ {0}
  BY TerminalAssumption
<1>2. RingTypes /\ Len(unread) = 0
  <2>1. overrun \in BOOLEAN
    BY DEF Init
  <2>2. Len(unread) = 0 /\ unread \in Seq(Keys) /\ Buf_Count = 0 /\ PutIndex = 0 /\ GetIndex = 0
        /\ Key_Buf \in [Places -> Keys \cup {NoKey}]
    BY DEF Init, Places
  <2> QED BY <1>1, <2>1, <2>2 DEF RingTypes, Places
<1>3. (GetIndex + Len(unread)) % BUFFER_SIZE = 0
  BY <1>1, <1>2, RingIndex DEF Init
<1>4. PutIndex = 0 /\ Buf_Count = 0 /\ ~overrun /\ pc # "asked"
  BY DEF Init
<1>5. ReadsInOrder
  BY <1>2, <1>4 DEF ReadsInOrder
<1>6. Len(unread) <= BUFFER_SIZE
  BY <1>1, <1>2
<1> QED BY <1>2, <1>3, <1>4, <1>5, <1>6 DEF RingInv

\* A key of the table.
LEMMA KeyTypes ==
    ASSUME NEW scan \in ScanCodes
    PROVE  Scan_Convert_ASCII(scan) \in Keys
<1>1. scan \in DOMAIN KeyTable
  BY KeyTableAssumption
<1>2. KeyTable[scan][1] \in Keys /\ KeyTable[scan][2] \in Keys
  BY <1>1 DEF Keys
<1> QED BY <1>2 DEF Scan_Convert_ASCII

\* An index that has gone at most once around the ring.
Wrapped(a) == a % BUFFER_SIZE = IF a < BUFFER_SIZE THEN a ELSE a - BUFFER_SIZE

LEMMA Wraps ==
    ASSUME NEW a \in 0 .. 2 * BUFFER_SIZE - 1
    PROVE  Wrapped(a)
BY TerminalAssumption, RingIndex DEF Wrapped

LEMMA PutKeeps ==
    ASSUME RingInv, NEW key \in Keys, PutKeyBuf(key), UNCHANGED <<GetIndex, pc, count>>
    PROVE  RingInv'
<1>1. BUFFER_SIZE \in Nat \ {0} /\ RingTypes /\ Len(unread) \in Nat
  BY TerminalAssumption DEF RingInv, RingTypes
<1>2. CASE Buf_Count >= BUFFER_SIZE
  BY <1>2 DEF PutKeyBuf, RingInv, RingTypes, ReadsInOrder
<1>3. ASSUME ~(Buf_Count >= BUFFER_SIZE)
      PROVE  /\ RingTypes'
             /\ Buf_Count' <= Len(unread') /\ (pc = "asked" => count \in 1 .. Buf_Count')
             /\ overrun' => Buf_Count' < Len(unread')
  <2>1. /\ Key_Buf' = [Key_Buf EXCEPT ![PutIndex] = key]
        /\ PutIndex' = (PutIndex + 1) % BUFFER_SIZE
        /\ Buf_Count' = Buf_Count + 1
        /\ unread' = Append(unread, key)
        /\ overrun' = (overrun \/ Len(unread) >= BUFFER_SIZE)
        /\ GetIndex' = GetIndex
    BY <1>3 DEF PutKeyBuf
  <2>2. unread' \in Seq(Keys) /\ Len(unread') = Len(unread) + 1
    BY <1>1, <2>1 DEF RingTypes
  <2>3. PutIndex' \in Places
    <3>1. PutIndex + 1 \in 0 .. 2 * BUFFER_SIZE - 1
      BY <1>1 DEF RingTypes, Places
    <3>2. Wrapped(PutIndex + 1)
      BY <3>1, Wraps
    <3> QED BY <1>1, <2>1, <3>1, <3>2 DEF RingTypes, Places, Wrapped
  <2>4. RingTypes'
    BY <1>1, <1>3, <2>1, <2>2, <2>3 DEF RingTypes
  <2>5. Buf_Count' <= Len(unread') /\ (pc = "asked" => count \in 1 .. Buf_Count')
    BY <1>1, <2>1, <2>2 DEF RingInv, RingTypes, ReadsInOrder
  <2>6. overrun' => Buf_Count' < Len(unread')
    BY <1>1, <1>3, <2>1, <2>2 DEF RingInv, RingTypes, ReadsInOrder
  <2> QED BY <2>4, <2>5, <2>6
<1>4. ASSUME ~(Buf_Count >= BUFFER_SIZE), ~overrun'
      PROVE  /\ PutIndex' = (GetIndex + Len(unread')) % BUFFER_SIZE /\ Len(unread') <= BUFFER_SIZE
             /\ \A k \in 1 .. Len(unread') : Key_Buf'[(GetIndex + k - 1) % BUFFER_SIZE] = unread'[k]
  <2>1. /\ Key_Buf' = [Key_Buf EXCEPT ![PutIndex] = key]
        /\ PutIndex' = (PutIndex + 1) % BUFFER_SIZE
        /\ unread' = Append(unread, key)
        /\ ~overrun /\ ~(Len(unread) >= BUFFER_SIZE)
    BY <1>4 DEF PutKeyBuf
  <2>2. Len(unread) < BUFFER_SIZE
    BY <1>1, <2>1
  <2>3. /\ unread' \in Seq(Keys)
        /\ Len(unread') = Len(unread) + 1
        /\ \A k \in 1 .. Len(unread) : unread'[k] = unread[k]
        /\ unread'[Len(unread) + 1] = key
    BY <1>1, <2>1 DEF RingTypes
  <2>4. PutIndex' = IF PutIndex + 1 < BUFFER_SIZE THEN PutIndex + 1 ELSE 0
    <3>1. PutIndex + 1 \in 0 .. 2 * BUFFER_SIZE - 1
      BY <1>1 DEF RingTypes, Places
    <3>2. Wrapped(PutIndex + 1)
      BY <3>1, Wraps
    <3> QED BY <1>1, <2>1, <3>2 DEF RingTypes, Places, Wrapped
  <2> DEFINE L == Len(unread)
  <2>6. GetIndex + L \in 0 .. 2 * BUFFER_SIZE - 1 /\ GetIndex + (L + 1) \in 0 .. 2 * BUFFER_SIZE - 1
    BY <1>1, <2>2 DEF RingTypes, Places
  <2>7. PutIndex = IF GetIndex + L < BUFFER_SIZE THEN GetIndex + L ELSE GetIndex + L - BUFFER_SIZE
    <3>1. Wrapped(GetIndex + L)
      BY <2>6, Wraps
    <3>2. PutIndex = (GetIndex + L) % BUFFER_SIZE
      BY <2>1 DEF RingInv
    <3> QED BY <1>1, <3>1, <3>2 DEF RingTypes, Places, Wrapped
  <2>8. PutIndex' = (GetIndex + (L + 1)) % BUFFER_SIZE
    <3>1. Wrapped(GetIndex + (L + 1))
      BY <2>6, Wraps
    <3> QED BY <1>1, <2>2, <2>4, <2>6, <2>7, <3>1 DEF RingTypes, Places, Wrapped
  <2>10. \A k \in 1 .. L + 1 : Key_Buf'[(GetIndex + k - 1) % BUFFER_SIZE] = unread'[k]
    <3> SUFFICES ASSUME NEW k \in 1 .. L + 1
                 PROVE  Key_Buf'[(GetIndex + k - 1) % BUFFER_SIZE] = unread'[k]
      OBVIOUS
    <3>1. GetIndex + k - 1 \in 0 .. 2 * BUFFER_SIZE - 1
      BY <1>1, <2>2 DEF RingTypes, Places
    <3>2. PICK a : a = (GetIndex + k - 1) % BUFFER_SIZE
      OBVIOUS
    <3>3. a = IF GetIndex + k - 1 < BUFFER_SIZE THEN GetIndex + k - 1
                                                ELSE GetIndex + k - 1 - BUFFER_SIZE
      <4>1. Wrapped(GetIndex + k - 1)
        BY <3>1, Wraps
      <4> QED BY <1>1, <3>1, <3>2, <4>1 DEF RingTypes, Places, Wrapped
    <3>4. CASE k = L + 1
      <4>1. a = PutIndex
        BY <1>1, <2>7, <3>3, <3>4
      <4> QED BY <1>1, <2>1, <2>3, <3>2, <3>4, <4>1 DEF RingTypes
    <3>5. CASE k \in 1 .. L
      <4>1. a # PutIndex /\ a \in Places
        BY <1>1, <2>2, <2>7, <3>3, <3>5 DEF RingTypes, Places
      <4>2. Key_Buf[a] = unread[k]
        BY <2>1, <3>2, <3>5 DEF RingInv, ReadsInOrder
      <4> QED BY <1>1, <2>1, <2>3, <3>2, <3>5, <4>1, <4>2 DEF RingTypes
    <3> QED BY <1>1, <3>4, <3>5
  <2> QED BY <1>1, <2>2, <2>3, <2>8, <2>10
<1>5. ASSUME ~(Buf_Count >= BUFFER_SIZE)
      PROVE  RingInv'
  BY <1>3, <1>4, <1>5 DEF RingInv, ReadsInOrder
<1> QED BY <1>2, <1>5

\* Taking the next key out, which leaves any count that is not too large.
LEMMA TakeKeeps ==
    ASSUME RingInv, unread # <<>>, UNCHANGED <<Key_Buf, PutIndex, overrun>>, pc' # "asked",
           GetIndex' = (GetIndex + 1) % BUFFER_SIZE, unread' = Tail(unread),
           Buf_Count' \in Nat, Buf_Count' < Buf_Count
    PROVE  RingInv'
<1>1. BUFFER_SIZE \in Nat \ {0} /\ RingTypes /\ Len(unread) \in Nat \ {0}
  BY TerminalAssumption DEF RingInv, RingTypes
<1>3. GetIndex' = IF GetIndex + 1 < BUFFER_SIZE THEN GetIndex + 1 ELSE 0
  <2>1. GetIndex + 1 \in 0 .. 2 * BUFFER_SIZE - 1
    BY <1>1 DEF RingTypes, Places
  <2>2. Wrapped(GetIndex + 1)
    BY <2>1, Wraps
  <2> QED BY <1>1, <2>2 DEF RingTypes, Places, Wrapped
<1>4. /\ unread' \in Seq(Keys)
      /\ Len(unread') = Len(unread) - 1
      /\ \A k \in 1 .. Len(unread) - 1 : unread'[k] = unread[k + 1]
  BY <1>1 DEF RingTypes
<1>5. ASSUME ~overrun, NEW k \in 1 .. Len(unread)
      PROVE  (GetIndex' + k - 1) % BUFFER_SIZE = (GetIndex + k) % BUFFER_SIZE
  <2>0. Len(unread) <= BUFFER_SIZE
    BY <1>5 DEF RingInv
  <2>1. GetIndex + k \in 0 .. 2 * BUFFER_SIZE - 1 /\ GetIndex' + k - 1 \in 0 .. 2 * BUFFER_SIZE - 1
    BY <1>1, <1>3, <2>0 DEF RingTypes, Places
  <2>2. Wrapped(GetIndex + k) /\ Wrapped(GetIndex' + k - 1)
    BY <2>1, Wraps
  <2>3. GetIndex \in 0 .. BUFFER_SIZE - 1 /\ GetIndex' \in 0 .. BUFFER_SIZE - 1
    BY <1>1, <1>3 DEF RingTypes, Places
  <2>4. k \in 1 .. BUFFER_SIZE
    BY <1>1, <2>0
  <2>5. CASE GetIndex + 1 < BUFFER_SIZE
    <3>1. GetIndex' + k - 1 = GetIndex + k
      BY <1>3, <2>3, <2>4, <2>5
    <3> QED BY <3>1
  <2>6. CASE ~(GetIndex + 1 < BUFFER_SIZE)
    <3>1. GetIndex = BUFFER_SIZE - 1 /\ GetIndex' = 0
      BY <1>1, <1>3, <2>3, <2>6
    <3>2. k - 1 = GetIndex' + k - 1 /\ GetIndex + k = BUFFER_SIZE + k - 1
      BY <1>1, <2>4, <3>1
    <3> QED BY <1>1, <2>2, <2>4, <3>1, <3>2 DEF Wrapped
  <2> QED BY <2>5, <2>6
<1>6. RingTypes'
  BY <1>1, <1>3, <1>4 DEF RingTypes, Places
<1>7. ASSUME ~overrun
      PROVE  PutIndex' = (GetIndex' + Len(unread')) % BUFFER_SIZE /\ Len(unread') <= BUFFER_SIZE
  <2>1. (GetIndex' + Len(unread) - 1) % BUFFER_SIZE = (GetIndex + Len(unread)) % BUFFER_SIZE
    BY <1>1, <1>5, <1>7
  <2>2. GetIndex' + Len(unread) - 1 = GetIndex' + Len(unread')
    BY <1>1, <1>3, <1>4 DEF RingTypes, Places
  <2> QED BY <1>1, <1>4, <1>7, <2>1, <2>2 DEF RingInv
<1>8. ASSUME ~overrun
      PROVE  \A k \in 1 .. Len(unread') : Key_Buf'[(GetIndex' + k - 1) % BUFFER_SIZE] = unread'[k]
  <2> SUFFICES ASSUME NEW k \in 1 .. Len(unread')
               PROVE  Key_Buf[(GetIndex' + k - 1) % BUFFER_SIZE] = unread[k + 1]
    BY <1>1, <1>4
  <2>1. k + 1 \in 1 .. Len(unread) /\ k \in 1 .. Len(unread)
    BY <1>1, <1>4
  <2>2. Key_Buf[(GetIndex + (k + 1) - 1) % BUFFER_SIZE] = unread[k + 1]
    BY <1>8, <2>1 DEF RingInv, ReadsInOrder
  <2>3. GetIndex + (k + 1) - 1 = GetIndex + k
    BY <1>1, <2>1 DEF RingTypes, Places
  <2> QED BY <1>5, <1>8, <2>1, <2>2, <2>3
<1>9. Buf_Count' <= Len(unread') /\ (overrun' => Buf_Count' < Len(unread'))
  BY <1>1, <1>4 DEF RingTypes, RingInv, ReadsInOrder
<1> QED BY <1>6, <1>7, <1>8, <1>9 DEF RingInv, ReadsInOrder

LEMMA RingNext ==
    ASSUME RingInv, [Next]_vars
    PROVE  RingInv'
<1>1. RingTypes /\ Buf_Count <= Len(unread) /\ Len(unread) \in Nat
  BY TerminalAssumption DEF RingInv, RingTypes, ReadsInOrder
<1>2. ASSUME NEW scan \in ScanCodes, ISR_Keyboard(scan)
      PROVE  RingInv'
  BY <1>2, KeyTypes, PutKeeps DEF ISR_Keyboard
<1>3. CASE GetKeyBuf
  <2>1. CASE Buf_Count <= 0
    BY <1>3, <2>1 DEF GetKeyBuf, ringVars, RingInv, RingTypes, ReadsInOrder
  <2>2. CASE ~(Buf_Count <= 0)
    <3>1. unread # <<>>
      BY <1>1, <2>2 DEF RingTypes
    <3>2. Buf_Count' \in Nat /\ Buf_Count' < Buf_Count
      BY <1>1, <1>3, <2>2 DEF GetKeyBuf, RingTypes
    <3> QED BY <1>3, <2>2, <3>1, <3>2, TakeKeeps DEF GetKeyBuf
  <2> QED BY <2>1, <2>2
<1>4. CASE shutdown_Count
  <2>1. UNCHANGED ringVars /\ count' = Buf_Count /\ Buf_Count > 0
    BY <1>4 DEF shutdown_Count, keyVars
  <2>2. count' \in 1 .. Buf_Count
    BY <1>1, <2>1 DEF RingTypes
  <2> QED BY <2>1, <2>2 DEF ringVars, RingInv, RingTypes, ReadsInOrder
<1>5. CASE shutdown_Key
  <2>1. count \in 1 .. Buf_Count
    BY <1>5 DEF shutdown_Key, RingInv
  <2>2. unread # <<>>
    BY <1>1, <2>1 DEF RingTypes
  <2>3. Buf_Count' \in Nat /\ Buf_Count' < Buf_Count
    BY <1>1, <1>5, <2>1 DEF shutdown_Key, RingTypes
  <2>4. pc' # "asked"
    BY <1>5 DEF shutdown_Key
  <2> QED BY <1>5, <2>2, <2>3, <2>4, TakeKeeps DEF shutdown_Key
<1>6. CASE UNCHANGED ringVars /\ (pc' # "asked" \/ UNCHANGED <<pc, count>>)
  BY <1>6 DEF ringVars, RingInv, RingTypes, ReadsInOrder
<1>7. CASE \/ Ignored \/ Character \/ Erase \/ Tab \/ EmptyLine \/ NoCommand \/ Command
           \/ Clear_Command \/ TestTask_Create \/ shutdown \/ TestTask
  BY <1>6, <1>7 DEF Ignored, Character, Erase, Tab, EmptyLine, NoCommand, Command, Clear_Command,
                    TestTask_Create, shutdown, TestTask, Entered, Handling, keyVars
<1>8. CASE ShiftUp
  BY <1>6, <1>8 DEF ShiftUp
<1>9. CASE UNCHANGED vars
  BY <1>6, <1>9 DEF vars, keyVars, ringVars
<1> QED BY <1>2, <1>3, <1>4, <1>5, <1>7, <1>8, <1>9 DEF Next, Shell

(* Keys come out in the order they were typed, each once, for every size   *)
(* of the ring, also when the keyboard interrupts a shutdown between       *)
(* reading the count and writing it, until the ring, which then counts     *)
(* less than it holds, takes a key over one that waits.                    *)
THEOREM KeysInOrder == Spec => []ReadsInOrder
<1>1. RingInv => ReadsInOrder
  BY DEF RingInv
<1> QED BY <1>1, RingInit, RingNext, PTL DEF Spec

-----------------------------------------------------------------------------
(* The characters.  All are strings; the provers have no fact that says so  *)
(* of a string they are given.                                             *)

Chars == STRING \cup Keys \cup {NoKey, "root", ">", " ", "?", "c"}

LEMMA CharFacts ==
    /\ "root" \in Chars /\ ">" \in Chars /\ " " \in Chars /\ "?" \in Chars /\ "c" \in Chars
    /\ "\n" \in Chars /\ "\t" \in Chars /\ "BACKSPACE" \in Chars /\ NoKey \in Chars
    /\ Letters \subseteq Chars /\ Keys \subseteq Chars
<1>1. {"letter", "numpad", "enter", "backspace", "tab"} \subseteq DOMAIN KeyTable
  BY DEF KeyTable
<1>2. \A s \in DOMAIN KeyTable : KeyTable[s][1] \in Keys /\ KeyTable[s][2] \in Keys
  BY DEF Keys
<1>3. /\ KeyTable["letter"][1] = "a" /\ KeyTable["letter"][2] = "A" /\ KeyTable["numpad"][2] = "7"
      /\ KeyTable["enter"][1] = "\n" /\ KeyTable["backspace"][1] = "BACKSPACE"
      /\ KeyTable["tab"][1] = "\t"
  BY DEF KeyTable
<1>4. {"a", "A", "7", "\n", "BACKSPACE", "\t"} \subseteq Keys
  BY <1>1, <1>2, <1>3
<1> QED BY <1>4 DEF Chars, Letters

-----------------------------------------------------------------------------
(* What a fold returns.  FoldLeft is a function on the sets of indices     *)
(* that takes the largest index last; it exists by induction on the        *)
(* largest index.                                                          *)

IsFold(f, F, con, text, m) ==
    \A s \in SUBSET (1 .. m) :
        f[s] = IF s = {} THEN con ELSE F[<<f[s \ {Max(s)}], text[Max(s)]>>]

\* The same, of what the provers know of a function before its values are known.
GrowsAs(f, C, F, con, text) ==
    \A s \in SUBSET (1 .. Len(text)) :
        /\ s = {} => f[s] = con
        /\ s # {} /\ f[s \ {Max(s)}] \in C => f[s] = F[<<f[s \ {Max(s)}], text[Max(s)]>>]

HasFold(C, F, con, text, m) == \E f \in [SUBSET (1 .. m) -> C] : IsFold(f, F, con, text, m)

LEMMA MaxFacts ==
    ASSUME NEW m \in Nat, NEW s \in SUBSET (1 .. m), m \in s
    PROVE  Max(s) = m
<1>1. \A y \in s : m >= y
  OBVIOUS
<1>2. \E x \in s : \A y \in s : x >= y
  BY <1>1
<1>3. PICK x : x = Max(s)
  OBVIOUS
<1>4. x \in s /\ \A y \in s : x >= y
  BY <1>2, <1>3 DEF Max
<1>5. x \in Nat
  BY <1>4
<1>6. x = m
  BY <1>1, <1>4, <1>5
<1> QED BY <1>3, <1>6

LEMMA MaxExists ==
    ASSUME NEW n \in Nat, NEW s \in SUBSET (1 .. n), s # {}
    PROVE  Max(s) \in s
<1> DEFINE T == {n - x : x \in s}
<1>1. T \in SUBSET Nat /\ T # {}
  <2>1. \A x \in s : n - x \in Nat
    OBVIOUS
  <2> QED BY <2>1
<1>2. PICK t \in T : \A y \in T : t <= y
  BY <1>1, LeastNat
<1>3. PICK x \in s : t = n - x
  BY <1>2
<1>4. ASSUME NEW y \in s
      PROVE  x >= y
  <2>1. n - x <= n - y
    BY <1>2, <1>3
  <2> QED BY <2>1
<1>5. \E z \in s : \A y \in s : z >= y
  BY <1>4
<1> QED BY <1>5 DEF Max

LEMMA FoldExists ==
    ASSUME NEW A, NEW C, NEW F \in [C \X A -> C], NEW con \in C, NEW text \in Seq(A)
    PROVE  HasFold(C, F, con, text, Len(text))
<1> DEFINE S == {m \in Nat : m <= Len(text) => HasFold(C, F, con, text, m)}
<1>1. 0 \in S
  <2> DEFINE f == [s \in SUBSET (1 .. 0) |-> con]
  <2>1. f \in [SUBSET (1 .. 0) -> C] /\ IsFold(f, F, con, text, 0)
    BY DEF IsFold
  <2>2. HasFold(C, F, con, text, 0)
    BY <2>1 DEF HasFold
  <2> QED BY <2>2
<1>2. ASSUME NEW m \in Nat, m \in S
      PROVE  m + 1 \in S
  <2> DEFINE n == m + 1
  <2> SUFFICES ASSUME n <= Len(text)
               PROVE  HasFold(C, F, con, text, n)
    OBVIOUS
  <2>0. HasFold(C, F, con, text, m)
    BY <1>2
  <2>1. PICK g \in [SUBSET (1 .. m) -> C] : IsFold(g, F, con, text, m)
    <3> HIDE DEF S
    <3> QED BY <2>0 DEF HasFold
  <2> DEFINE f == [s \in SUBSET (1 .. n) |->
                      IF n \in s THEN F[<<g[s \ {n}], text[n]>>] ELSE g[s]]
  <2>2. \A s \in SUBSET (1 .. n) : s \ {n} \in SUBSET (1 .. m) /\ (n \notin s => s \in SUBSET (1 .. m))
    OBVIOUS
  <2>3. text[n] \in A
    OBVIOUS
  <2>4. f \in [SUBSET (1 .. n) -> C]
    BY <2>1, <2>2, <2>3
  <2>5. ASSUME NEW s \in SUBSET (1 .. n)
        PROVE  f[s] = IF s = {} THEN con ELSE F[<<f[s \ {Max(s)}], text[Max(s)]>>]
    <3>1. CASE n \in s
      <4>1. Max(s) = n
        BY <3>1, MaxFacts
      <4>2. f[s \ {n}] = g[s \ {n}] /\ f[s] = F[<<g[s \ {n}], text[n]>>]
        BY <2>2, <3>1
      <4> QED BY <3>1, <4>1, <4>2
    <3>2. CASE n \notin s
      <4>1. s \in SUBSET (1 .. m) /\ f[s] = g[s]
        BY <2>2, <3>2
      <4>2. \A k : s \ {k} \in SUBSET (1 .. n) /\ f[s \ {k}] = g[s \ {k}]
        BY <3>2
      <4>3. g[s] = IF s = {} THEN con ELSE F[<<g[s \ {Max(s)}], text[Max(s)]>>]
        BY <2>1, <4>1 DEF IsFold
      <4> QED BY <4>1, <4>2, <4>3
    <3> QED BY <3>1, <3>2
  <2>6. IsFold(f, F, con, text, n)
    BY <2>5 DEF IsFold
  <2> QED BY <2>4, <2>6 DEF HasFold
<1>3. Nat \subseteq S
  <2> HIDE DEF S
  <2> QED BY <1>1, <1>2, SetInduction
<1> QED BY <1>3

LEMMA FoldTyped ==
    ASSUME NEW A, NEW C, NEW F \in [C \X A -> C], NEW con \in C, NEW text \in Seq(A),
           NEW it, GrowsAs(it, C, F, con, text)
    PROVE  \A s \in SUBSET (1 .. Len(text)) : it[s] \in C
<1>0. PICK n \in Nat : n = Len(text)
  OBVIOUS
<1> DEFINE S == {m \in Nat : m <= n => \A s \in SUBSET (1 .. m) : it[s] \in C}
<1>1. 0 \in S
  <2>1. \A s \in SUBSET (1 .. 0) : s = {}
    OBVIOUS
  <2>2. it[{}] = con
    BY <1>0 DEF GrowsAs
  <2> QED BY <2>1, <2>2
<1>2. ASSUME NEW m \in Nat, m \in S, m + 1 <= n, NEW s \in SUBSET (1 .. m + 1)
      PROVE  it[s] \in C
  <2>1. \A r \in SUBSET (1 .. m) : it[r] \in C
    BY <1>2
  <2>2. CASE m + 1 \in s
    <3>1. Max(s) = m + 1
      <4>1. m + 1 \in Nat
        OBVIOUS
      <4> QED BY <2>2, <4>1, MaxFacts
    <3>2. s \ {m + 1} \in SUBSET (1 .. m)
      OBVIOUS
    <3>3. it[s \ {m + 1}] \in C
      BY <2>1, <3>2
    <3>4. s \in SUBSET (1 .. n) /\ s # {}
      BY <1>2, <2>2
    <3>5. it[s] = F[<<it[s \ {m + 1}], text[m + 1]>>]
      BY <1>0, <3>1, <3>3, <3>4 DEF GrowsAs
    <3>6. text[m + 1] \in A
      BY <1>0, <1>2
    <3> QED BY <3>3, <3>5, <3>6
  <2>3. CASE m + 1 \notin s
    <3>1. s \in SUBSET (1 .. m)
      BY <2>3
    <3> QED BY <2>1, <3>1
  <2> QED BY <2>2, <2>3
<1>3. ASSUME NEW m \in Nat, m \in S
      PROVE  m + 1 \in S
  <2>1. m + 1 <= n => \A s \in SUBSET (1 .. m + 1) : it[s] \in C
    <3> HIDE DEF S
    <3> QED BY <1>2, <1>3
  <2> QED BY <2>1
<1>4. Nat \subseteq S
  <2> HIDE DEF S
  <2> QED BY <1>1, <1>3, SetInduction
<1>5. n \in S
  BY <1>4
<1> QED BY <1>0, <1>5

EndsAs(it, C, F, text) ==
    /\ it[DOMAIN text] \in C
    /\ text # <<>> => \E d \in C : it[DOMAIN text] = F[<<d, text[Len(text)]>>]

LEMMA FoldFacts ==
    ASSUME NEW A, NEW C, NEW F \in [C \X A -> C], NEW con \in C, NEW text \in Seq(A),
           NEW it, GrowsAs(it, C, F, con, text)
    PROVE  EndsAs(it, C, F, text)
<1>1. \A s \in SUBSET (1 .. Len(text)) : it[s] \in C
  BY FoldTyped
<1>2. PICK n \in Nat : n = Len(text)
  OBVIOUS
<1>3. ASSUME n # 0
      PROVE  it[1 .. n] = F[<<it[(1 .. n) \ {n}], text[n]>>]
  <2>1. Max(1 .. n) = n
    BY <1>3, MaxFacts
  <2>2. n \in 1 .. n /\ 1 .. n \in SUBSET (1 .. n) /\ (1 .. n) \ {n} \in SUBSET (1 .. n)
    BY <1>3
  <2> QED BY <1>1, <1>2, <2>1, <2>2 DEF GrowsAs
<1>5. text # <<>> => n # 0
  BY <1>2
<1>6. it[1 .. n] \in C /\ it[(1 .. n) \ {n}] \in C
  BY <1>1, <1>2
<1>7. DOMAIN text = 1 .. n /\ Len(text) = n
  BY <1>2
<1>8. text # <<>> => it[DOMAIN text] = F[<<it[(1 .. n) \ {n}], text[Len(text)]>>]
  BY <1>3, <1>5, <1>7
<1> QED BY <1>6, <1>7, <1>8 DEF EndsAs

-----------------------------------------------------------------------------
(* The console.                                                            *)

CellType == [char : Chars, color : {"DEFAULT", "PATH"}]
Consoles == [cells : [Cells -> CellType], cursor : Cells]

\* What printf works on: it stores in the column of the cursor, in its row or below.
Below(out, q) == out.Video_Mem = out.cursor + WIDTH * q
Outs == {out \in [cells : [Cells -> CellType], cursor : Cells, Video_Mem : Nat] :
            \E q \in Nat : Below(out, q)}
Typed(con, c) == End(PutCell(Begin(con), c))

LEMMA ScreenFacts ==
    /\ WIDTH \in Nat /\ WIDTH >= 3
    /\ WIDTH * HEIGHT \in Nat /\ WIDTH * HEIGHT >= 2 * WIDTH
    /\ Len(Prompt) = 2 /\ Prompt[1] = "root" /\ Prompt[2] = ">"
    /\ 2 + COMMAND_MAX + MaxTabs <= WIDTH * HEIGHT
    /\ COMMAND_MAX \in Nat \ {0} /\ MaxTabs \in Nat
<1>1. Len(Prompt) = 2 /\ Prompt[1] = "root" /\ Prompt[2] = ">"
  BY DEF Prompt
<1>2. WIDTH \in Nat /\ WIDTH >= 3 /\ HEIGHT \in Nat /\ HEIGHT >= 2
  BY <1>1, TerminalAssumption
<1>3. WIDTH * HEIGHT \in Nat /\ WIDTH * HEIGHT >= 2 * WIDTH
  BY <1>2
<1> QED BY <1>1, <1>2, <1>3, TerminalAssumption

\* Rows: the first cell of one, and where the row before and its end are.
RowStart(s) == s % WIDTH = 0

LEMMA RowFacts ==
    ASSUME NEW s \in Nat, RowStart(s)
    PROVE  /\ s > 0 => s >= WIDTH /\ RowStart(s - WIDTH)
           /\ s \in Cells => s + WIDTH - 1 \in Cells
<1> DEFINE w == WIDTH
           q == s \div w
<1>1. w \in Nat \ {0} /\ HEIGHT \in Nat
  BY ScreenFacts, TerminalAssumption
<1>2. q \in Nat /\ s = w * q
  BY <1>1 DEF RowStart
<1> HIDE DEF w, q
<1>3. ASSUME s > 0
      PROVE  s >= w /\ (s - w) % w = 0
  <2>1. q >= 1
    BY <1>1, <1>2, <1>3
  <2>2. s - w = w * (q - 1) + 0
    BY <1>1, <1>2
  <2>3. q - 1 \in Int /\ 0 \in 0 .. w - 1
    BY <1>1, <1>2
  <2>4. (s - w) % w = 0
    BY <1>1, <2>2, <2>3, Quotient
  <2>5. s >= w
    BY <1>1, <1>2, <2>1
  <2> QED BY <2>4, <2>5
<1>4. ASSUME s < w * HEIGHT
      PROVE  s + w <= w * HEIGHT
  <2>1. q < HEIGHT
    BY <1>1, <1>2, <1>4
  <2>2. w * (q + 1) <= w * HEIGHT
    BY <1>1, <1>2, <2>1
  <2> QED BY <1>1, <1>2, <2>2
<1>5. s \in Cells => s < w * HEIGHT
  BY ScreenFacts DEF Cells, w
<1>6. s + w <= w * HEIGHT => s + w - 1 \in Cells
  BY <1>1, ScreenFacts DEF Cells, w
<1> QED BY <1>3, <1>4, <1>5, <1>6 DEF RowStart, w

\* A line feed goes to the row after the one the cursor is in.
LEMMA FeedFacts ==
    ASSUME NEW c \in Nat
    PROVE  \E r \in 0 .. c : /\ c + (WIDTH - (c % WIDTH)) = r + WIDTH
                             /\ RowStart(r) /\ RowStart(r + WIDTH)
<1> DEFINE w == WIDTH
           q == c \div w
<1>1. w \in Nat \ {0}
  BY ScreenFacts
<1>2. q \in Nat /\ c % w \in 0 .. w - 1 /\ c = (w * q) + (c % w)
  BY <1>1
<1> HIDE DEF w, q
<1>3. w * q \in 0 .. c /\ c + (w - (c % w)) = w * q + w
  <2>1. w * q \in Nat
    BY <1>1, <1>2
  <2>2. PICK d, e : d = c % w /\ e = w * q
    OBVIOUS
  <2>3. d \in Nat /\ e \in Nat /\ c = e + d
    BY <1>2, <2>1, <2>2
  <2>4. e \in 0 .. c /\ c + (w - d) = e + w
    BY <1>1, <2>3
  <2> QED BY <2>2, <2>4
<1>4. (w * q + 0) % w = 0 /\ (w * (q + 1) + 0) % w = 0
  <2>1. q \in Int /\ q + 1 \in Int /\ 0 \in 0 .. w - 1
    BY <1>1, <1>2
  <2>2. \A p \in Int : (w * p + 0) % w = 0
    BY <1>1, <2>1, Quotient
  <2> QED BY <2>1, <2>2
<1>5. w * q + 0 = w * q /\ w * (q + 1) + 0 = w * q + w
  BY <1>1, <1>2
<1>6. RowStart(w * q) /\ RowStart(w * q + w)
  BY <1>4, <1>5 DEF RowStart, w
<1> QED BY <1>3, <1>6 DEF w

LEMMA CellTypes ==
    ASSUME NEW c \in Chars
    PROVE  Cell(c) \in CellType /\ Cell(c).color = "DEFAULT"
BY DEF Cell, CellType

LEMMA BlankType == Cell(" ") \in CellType
BY CharFacts DEF Cell, CellType

LEMMA ScrollFacts ==
    ASSUME NEW cells \in [Cells -> CellType], NEW cursor \in Int, NEW video \in Int
    PROVE  LET d == Scroll([cells |-> cells, cursor |-> cursor, Video_Mem |-> video])
           IN  /\ d = [cells |-> d.cells, cursor |-> cursor - WIDTH, Video_Mem |-> video]
               /\ d.cells \in [Cells -> CellType]
               /\ \A k \in Cells : k + WIDTH \in Cells => d.cells[k] = cells[k + WIDTH]
<1>1. Cell(" ") \in CellType
  BY BlankType
<1> DEFINE moved == [k \in Cells |-> IF k + WIDTH \in Cells THEN cells[k + WIDTH] ELSE Cell(" ")]
<1>2. Scroll([cells |-> cells, cursor |-> cursor, Video_Mem |-> video])
        = [cells |-> moved, cursor |-> cursor - WIDTH, Video_Mem |-> video]
  BY DEF Scroll
<1>3. /\ moved \in [Cells -> CellType]
      /\ \A k \in Cells : k + WIDTH \in Cells => moved[k] = cells[k + WIDTH]
  BY <1>1
<1> HIDE DEF moved
<1> QED BY <1>2, <1>3

LEMMA BeginFacts ==
    ASSUME NEW con \in Consoles
    PROVE  Begin(con) \in Outs /\ End(Begin(con)) = con
<1>1. con.cells \in [Cells -> CellType] /\ con.cursor \in Cells /\ con.cursor \in Nat
      /\ con = [cells |-> con.cells, cursor |-> con.cursor]
  BY ScreenFacts DEF Consoles, Cells
<1>2. WIDTH * 0 = 0 /\ con.cursor + 0 = con.cursor
  BY <1>1, ScreenFacts
<1>3. Below(Begin(con), 0)
  BY <1>2 DEF Below, Begin
<1>4. Begin(con) \in [cells : [Cells -> CellType], cursor : Cells, Video_Mem : Nat]
  BY <1>1 DEF Begin
<1>5. Begin(con) \in Outs
  BY <1>3, <1>4 DEF Outs
<1>6. End(Begin(con)) = con
  BY <1>1 DEF Begin, End
<1> QED BY <1>5, <1>6

LEMMA EndFacts ==
    ASSUME NEW out \in Outs
    PROVE  End(out) \in Consoles /\ End(out).cursor = out.cursor
BY DEF Outs, End, Consoles

\* What a character does, where printf stores in the row of the cursor or below.
LEMMA PutOut ==
    ASSUME NEW out \in Outs, NEW c \in Chars
    PROVE  PutCell(out, c) \in Outs
<1>1. PICK q \in Nat : Below(out, q)
  BY DEF Outs
<1>2. out \in [cells : [Cells -> CellType], cursor : Cells, Video_Mem : Nat]
  BY DEF Outs
<1>3. PICK cells \in [Cells -> CellType] :
          Store(out, c) = [cells |-> cells, cursor |-> out.cursor, Video_Mem |-> out.Video_Mem]
  <2>1. CASE out.Video_Mem \in Cells
    <3>1. [out.cells EXCEPT ![out.Video_Mem] = Cell(c)] \in [Cells -> CellType]
      BY <1>2, CellTypes
    <3>2. Store(out, c) = [out EXCEPT !.cells[out.Video_Mem] = Cell(c)]
      BY <2>1 DEF Store
    <3> QED BY <1>2, <3>1, <3>2
  <2>2. CASE out.Video_Mem \notin Cells
    BY <1>2, <2>2 DEF Store
  <2> QED BY <2>1, <2>2
<1>4. CURSOR_LIMIT \in Nat /\ WIDTH \in Nat /\ out.cursor \in 0 .. CURSOR_LIMIT /\ Cells = 0 .. CURSOR_LIMIT
      /\ CURSOR_LIMIT - WIDTH + 1 \in Cells /\ out.Video_Mem \in Nat
  BY <1>2, ScreenFacts DEF CURSOR_LIMIT, Cells
<1>5. PICK w \in Nat : w = WIDTH * q /\ out.Video_Mem = out.cursor + w
  BY <1>1, <1>4 DEF Below
<1>6. CASE CURSOR_LIMIT <= out.cursor
  <2> DEFINE d == Scroll([cells |-> cells, cursor |-> out.cursor, Video_Mem |-> out.Video_Mem])
             e == PutCell(out, c)
  <2>1. /\ d = [cells |-> d.cells, cursor |-> out.cursor - WIDTH, Video_Mem |-> out.Video_Mem]
        /\ d.cells \in [Cells -> CellType]
    <3>1. out.cursor \in Int /\ out.Video_Mem \in Int
      BY <1>4
    <3> QED BY <3>1, ScrollFacts, SMTT(30)
  <2>2. e = Advance([d EXCEPT !.Video_Mem = @ - WIDTH], 1)
    BY <1>3, <1>6 DEF PutCell
  <2> HIDE DEF d, e
  <2>3. e = [cells |-> d.cells, cursor |-> out.cursor - WIDTH + 1, Video_Mem |-> out.Video_Mem - WIDTH + 1]
    BY <2>1, <2>2 DEF Advance
  <2>4. out.cursor - WIDTH + 1 \in Cells /\ out.Video_Mem - WIDTH + 1 \in Nat
        /\ out.Video_Mem - WIDTH + 1 = out.cursor - WIDTH + 1 + w
    BY <1>4, <1>5, <1>6
  <2>5. Below(e, q)
    BY <1>5, <2>3, <2>4 DEF Below
  <2>6. e \in [cells : [Cells -> CellType], cursor : Cells, Video_Mem : Nat]
    BY <2>1, <2>3, <2>4
  <2>7. e \in Outs
    BY <2>5, <2>6 DEF Outs
  <2> QED BY <2>7 DEF e
<1>7. CASE ~(CURSOR_LIMIT <= out.cursor)
  <2> DEFINE e == PutCell(out, c)
  <2>1. e = [cells |-> cells, cursor |-> out.cursor + 1, Video_Mem |-> out.Video_Mem + 1]
    BY <1>3, <1>7 DEF PutCell, Advance
  <2> HIDE DEF e
  <2>2. out.cursor + 1 \in Cells /\ out.Video_Mem + 1 \in Nat
        /\ out.Video_Mem + 1 = out.cursor + 1 + w
    BY <1>4, <1>5, <1>7
  <2>3. Below(e, q)
    BY <1>5, <2>1, <2>2 DEF Below
  <2>4. e \in [cells : [Cells -> CellType], cursor : Cells, Video_Mem : Nat]
    BY <2>1, <2>2
  <2>5. e \in Outs
    BY <2>3, <2>4 DEF Outs
  <2> QED BY <2>5 DEF e
<1> QED BY <1>6, <1>7

\* Where printf has just begun, or never fed a line, a character goes where the
\* cursor is, and all that is on the screen moves up a row if that was the last cell.
LEMMA PutCellFacts ==
    ASSUME NEW con \in Consoles, NEW c \in Chars
    PROVE  LET d == Typed(con, c)
               shift == IF con.cursor = CURSOR_LIMIT THEN WIDTH ELSE 0
           IN  /\ d \in Consoles
               /\ PutCell(Begin(con), c) = Begin(d)
               /\ d.cursor = con.cursor + 1 - shift
               /\ \A k \in Cells : k + shift \in Cells =>
                      d.cells[k] = IF k + shift = con.cursor THEN Cell(c) ELSE con.cells[k + shift]
<1> DEFINE cells == [con.cells EXCEPT ![con.cursor] = Cell(c)]
           written == [cells |-> cells, cursor |-> con.cursor, Video_Mem |-> con.cursor]
           out == PutCell(Begin(con), c)
<1>1. con.cells \in [Cells -> CellType] /\ con.cursor \in Cells
  BY DEF Consoles
<1>2. Store(Begin(con), c) = written
  BY <1>1 DEF Store, Begin
<1>3. cells \in [Cells -> CellType]
  BY <1>1, CellTypes
<1>4. \A k \in Cells : cells[k] = IF k = con.cursor THEN Cell(c) ELSE con.cells[k]
  BY <1>1
<1>5. CURSOR_LIMIT \in Nat /\ WIDTH \in Nat /\ con.cursor \in 0 .. CURSOR_LIMIT
      /\ CURSOR_LIMIT - WIDTH + 1 \in Cells /\ Cells = 0 .. CURSOR_LIMIT
  BY <1>1, ScreenFacts DEF CURSOR_LIMIT, Cells
<1>6. out = IF CURSOR_LIMIT <= con.cursor
            THEN Advance([Scroll(written) EXCEPT !.Video_Mem = @ - WIDTH], 1)
            ELSE Advance(written, 1)
  <2>1. Begin(con).cursor = con.cursor
    BY DEF Begin
  <2> QED BY <1>2, <2>1 DEF PutCell
<1> HIDE DEF cells, out
<1>7. CASE con.cursor = CURSOR_LIMIT
  <2> DEFINE d == Scroll(written)
  <2>1. /\ d = [cells |-> d.cells, cursor |-> con.cursor - WIDTH, Video_Mem |-> con.cursor]
        /\ d.cells \in [Cells -> CellType]
        /\ \A k \in Cells : k + WIDTH \in Cells => d.cells[k] = cells[k + WIDTH]
    <3>1. con.cursor \in Int
      BY <1>5
    <3> DEFINE s == Scroll([cells |-> cells, cursor |-> con.cursor, Video_Mem |-> con.cursor])
    <3>2. /\ s = [cells |-> s.cells, cursor |-> con.cursor - WIDTH, Video_Mem |-> con.cursor]
          /\ s.cells \in [Cells -> CellType]
          /\ \A k \in Cells : k + WIDTH \in Cells => s.cells[k] = cells[k + WIDTH]
      BY ONLY <1>3, <3>1, ScrollFacts
    <3>3. d = s
      BY <1>3
    <3> HIDE DEF s, d
    <3> QED BY <3>2, <3>3, Zenon
  <2>2. out = Advance([d EXCEPT !.Video_Mem = @ - WIDTH], 1)
    BY <1>5, <1>6, <1>7
  <2> HIDE DEF d
  <2>3. con.cursor - WIDTH + 1 = con.cursor + 1 - WIDTH /\ con.cursor - WIDTH + 1 \in Cells
    BY <1>5, <1>7
  <2>4. out = [cells |-> d.cells, cursor |-> con.cursor + 1 - WIDTH, Video_Mem |-> con.cursor + 1 - WIDTH]
    <3>1. out = [cells |-> d.cells, cursor |-> con.cursor - WIDTH + 1, Video_Mem |-> con.cursor - WIDTH + 1]
      BY <2>1, <2>2 DEF Advance
    <3> QED BY <2>3, <3>1
  <2>5. Typed(con, c) = [cells |-> d.cells, cursor |-> con.cursor + 1 - WIDTH] /\ out = Begin(Typed(con, c))
    BY <2>4 DEF Typed, End, Begin, out
  <2> QED BY <1>4, <1>7, <2>1, <2>3, <2>5 DEF Consoles, out
<1>8. CASE con.cursor # CURSOR_LIMIT
  <2>1. out = [cells |-> cells, cursor |-> con.cursor + 1, Video_Mem |-> con.cursor + 1]
    BY <1>5, <1>6, <1>8 DEF Advance
  <2>2. con.cursor + 1 \in Cells /\ con.cursor + 1 - 0 = con.cursor + 1 /\ \A k \in Cells : k + 0 = k
    BY <1>5, <1>8
  <2>3. Typed(con, c) = [cells |-> cells, cursor |-> con.cursor + 1] /\ out = Begin(Typed(con, c))
    BY <2>1 DEF Typed, End, Begin, out
  <2> QED BY <1>3, <1>4, <1>8, <2>2, <2>3 DEF Consoles, out
<1> QED BY <1>7, <1>8

\* The character is put and nothing scrolls.
IsPut(d, con, c) ==
    /\ d \in Consoles
    /\ d.cursor = con.cursor + 1
    /\ \A k \in Cells : d.cells[k] = IF k = con.cursor THEN Cell(c) ELSE con.cells[k]

LEMMA PutCellInside ==
    ASSUME NEW con \in Consoles, NEW c \in Chars, con.cursor # CURSOR_LIMIT
    PROVE  IsPut(Typed(con, c), con, c)
<1> DEFINE d == Typed(con, c)
<1>1. /\ d \in Consoles
      /\ d.cursor = con.cursor + 1 - 0
      /\ \A k \in Cells : k + 0 \in Cells =>
             d.cells[k] = IF k + 0 = con.cursor THEN Cell(c) ELSE con.cells[k + 0]
  <2> DEFINE shift == IF con.cursor = CURSOR_LIMIT THEN WIDTH ELSE 0
  <2>1. shift = 0
    OBVIOUS
  <2>2. /\ d \in Consoles
        /\ d.cursor = con.cursor + 1 - shift
        /\ \A k \in Cells : k + shift \in Cells =>
               d.cells[k] = IF k + shift = con.cursor THEN Cell(c) ELSE con.cells[k + shift]
    BY PutCellFacts
  <2> HIDE DEF d, shift
  <2> QED BY <2>1, <2>2
<1> HIDE DEF d
<1>2. con.cursor + 1 - 0 = con.cursor + 1 /\ \A k \in Cells : k + 0 = k
  <2>1. con.cursor \in Int /\ \A k \in Cells : k \in Int
    BY ScreenFacts DEF Consoles, Cells
  <2> QED BY <2>1
<1>3. d \in Consoles /\ d.cursor = con.cursor + 1
      /\ \A k \in Cells : d.cells[k] = IF k = con.cursor THEN Cell(c) ELSE con.cells[k]
  BY <1>1, <1>2
<1> QED BY <1>3 DEF d, IsPut

\* The columns of the cursor and of printf are the same.
LEMMA SameColumn ==
    ASSUME NEW c \in Int, NEW q \in Nat
    PROVE  (c + WIDTH * q) % WIDTH = c % WIDTH
<1> DEFINE w == WIDTH
           a == c \div w
           r == c % w
<1>1. w \in Nat \ {0}
  BY ScreenFacts
<1>2. a \in Int /\ r \in 0 .. w - 1 /\ c = w * a + r
  BY <1>1
<1> HIDE DEF w, a, r
<1>3. c + w * q = w * (a + q) + r
  BY <1>1, <1>2
<1>4. a + q \in Int
  BY <1>2
<1>5. (w * (a + q) + r) % w = r
  BY <1>1, <1>2, <1>4, Quotient
<1> QED BY <1>3, <1>5 DEF w, r

\* A line feed ends at the start of a row.  clear puts the cursor a row before
\* the first.
LEMMA LineFeedFacts ==
    ASSUME NEW out \in [cells : [Cells -> CellType], cursor : Cells \cup {0 - WIDTH}, Video_Mem : Int],
           NEW q \in Nat, Below(out, q)
    PROVE  LineFeed(out) \in Outs /\ RowStart(LineFeed(out).cursor)
<1> DEFINE c == out.cursor
           feed == WIDTH - (c % WIDTH)
           fed == [cells |-> out.cells, cursor |-> c + feed, Video_Mem |-> out.Video_Mem + feed]
<1>0. CURSOR_LIMIT \in Nat /\ WIDTH \in Nat \ {0} /\ Cells = 0 .. CURSOR_LIMIT /\ c \in Int
  BY ScreenFacts DEF CURSOR_LIMIT, Cells
<1>1. LineFeed(out) = IF CURSOR_LIMIT < fed.cursor THEN Scroll(fed) ELSE fed
  <2>1. out.Video_Mem % WIDTH = c % WIDTH
    BY <1>0, SameColumn DEF Below
  <2>2. Advance(out, feed) = fed
    BY DEF Advance
  <2> QED BY <2>1, <2>2 DEF LineFeed
<1>2. out.cells \in [Cells -> CellType]
  OBVIOUS
<1>4. PICK r \in Int : /\ fed.cursor = r + WIDTH /\ RowStart(r) /\ RowStart(r + WIDTH)
                      /\ r + WIDTH >= 0 /\ (r >= 0 => r \in Cells)
                      /\ (r < 0 => r + WIDTH \in Cells)
  <2>1. CASE c \in Cells
    <3>1. c \in Nat
      BY <1>0, <2>1
    <3>2. PICK r \in 0 .. c : /\ c + (WIDTH - (c % WIDTH)) = r + WIDTH
                             /\ RowStart(r) /\ RowStart(r + WIDTH)
      BY <3>1, FeedFacts
    <3>3. r \in Int /\ r + WIDTH >= 0 /\ r >= 0 /\ r \in Cells
      BY <1>0, <2>1, <3>2
    <3> QED BY <3>2, <3>3
  <2>2. CASE c = 0 - WIDTH
    <3>1. (WIDTH * (-1) + 0) % WIDTH = 0 /\ (WIDTH * 0 + 0) % WIDTH = 0
      <4>1. 0 \in 0 .. WIDTH - 1 /\ -1 \in Int /\ 0 \in Int
        BY <1>0
      <4> QED BY <1>0, <4>1, Quotient
    <3>2. WIDTH * (-1) + 0 = 0 - WIDTH /\ WIDTH * 0 + 0 = 0
      BY <1>0
    <3>3. (0 - WIDTH) % WIDTH = 0 /\ 0 % WIDTH = 0
      BY <3>1, <3>2
    <3>4. fed.cursor = 0 /\ 0 = (0 - WIDTH) + WIDTH /\ 0 \in Cells /\ 0 - WIDTH < 0
      <4>1. c % WIDTH = 0
        BY <2>2, <3>3
      <4>2. fed.cursor = c + (WIDTH - (c % WIDTH))
        OBVIOUS
      <4>3. fed.cursor = c + (WIDTH - 0)
        BY <4>1, <4>2
      <4> HIDE DEF fed, feed
      <4>4. c + (WIDTH - 0) = 0 /\ 0 = (0 - WIDTH) + WIDTH /\ 0 \in Cells /\ 0 - WIDTH < 0
        <5>1. 0 - WIDTH + (WIDTH - 0) = 0 /\ 0 = (0 - WIDTH) + WIDTH /\ 0 - WIDTH < 0
          BY <1>0
        <5>2. 0 \in Cells
          BY <1>0
        <5> QED BY <2>2, <5>1, <5>2
      <4> QED BY <4>3, <4>4
    <3>5. RowStart(0 - WIDTH) /\ RowStart((0 - WIDTH) + WIDTH)
      BY <3>3, <3>4 DEF RowStart
    <3>6. 0 - WIDTH \in Int /\ fed.cursor = (0 - WIDTH) + WIDTH
      <4> HIDE DEF fed, feed
      <4> QED BY <1>0, <3>4
    <3> HIDE DEF fed, feed
    <3>7. (0 - WIDTH) + WIDTH >= 0 /\ (0 - WIDTH) + WIDTH \in Cells /\ ~(0 - WIDTH >= 0)
      BY <1>0, <3>4
    <3> QED BY <3>5, <3>6, <3>7
  <2> QED BY <2>1, <2>2
<1>5. PICK f \in Int, w \in Nat : /\ f = feed /\ w = WIDTH * q /\ WIDTH * (q + 1) = w + WIDTH
                                 /\ out.Video_Mem = c + w /\ r + WIDTH = c + f
  <2>1. WIDTH * q \in Nat /\ WIDTH * (q + 1) = WIDTH * q + WIDTH /\ q \in Int
    BY <1>0
  <2>2. c % WIDTH \in Int
    BY <1>0
  <2>3. feed \in Int
    BY <1>0, <2>2
  <2> QED BY <1>4, <2>1, <2>3 DEF Below
<1>6. fed = [cells |-> out.cells, cursor |-> r + WIDTH, Video_Mem |-> r + WIDTH + w]
      /\ r + WIDTH + w \in Nat
  <2>1. out.Video_Mem + f = r + WIDTH + w
    <3>1. out.Video_Mem = c + w /\ r + WIDTH = c + f
      BY <1>5
    <3> HIDE DEF c, feed, fed
    <3> QED BY <1>0, <3>1
  <2>2. fed = [cells |-> out.cells, cursor |-> c + f, Video_Mem |-> out.Video_Mem + f]
    BY <1>5
  <2>3. r + WIDTH + w \in Nat
    BY <1>0, <1>4, <1>5
  <2> QED BY <1>5, <2>1, <2>2, <2>3
<1> HIDE DEF feed, fed, c
<1>7. CASE CURSOR_LIMIT < r + WIDTH
  <2> DEFINE d == Scroll(fed)
  <2>1. r \in Cells
    BY <1>0, <1>4, <1>7
  <2>9. PICK u \in Int, v \in Int : /\ u = r + WIDTH /\ v = r + WIDTH + w
                                    /\ u - WIDTH = r /\ v = r + WIDTH * (q + 1)
    <3>1. r \in Int /\ WIDTH \in Int /\ w \in Int /\ WIDTH * (q + 1) = w + WIDTH
      BY <1>0, <1>4, <1>5
    <3> QED BY ONLY <3>1
  <2>2. /\ d = [cells |-> d.cells, cursor |-> u - WIDTH, Video_Mem |-> v]
        /\ d.cells \in [Cells -> CellType]
    <3>1. out.cells \in [Cells -> CellType]
      BY <1>2
    <3>2. fed = [cells |-> out.cells, cursor |-> u, Video_Mem |-> v]
      BY <1>6, <2>9
    <3> DEFINE s == Scroll([cells |-> out.cells, cursor |-> u, Video_Mem |-> v])
    <3>3. s = [cells |-> s.cells, cursor |-> u - WIDTH, Video_Mem |-> v]
          /\ s.cells \in [Cells -> CellType]
      BY ONLY <3>1, ScrollFacts
    <3>4. d = s
      BY <3>2
    <3> HIDE DEF s, d
    <3> QED BY <3>3, <3>4, Zenon
  <2> HIDE DEF d
  <2>3. d = [cells |-> d.cells, cursor |-> r, Video_Mem |-> v]
    BY <2>2, <2>9, Zenon
  <2>4. Below(d, q + 1) /\ d.cursor = r
    BY <2>3, <2>9 DEF Below
  <2>5. d \in [cells : [Cells -> CellType], cursor : Cells, Video_Mem : Nat]
    BY <1>6, <2>1, <2>2, <2>3, <2>9
  <2>6. d \in Outs
    BY <2>4, <2>5 DEF Outs
  <2>7. LineFeed(out) = d
    BY <1>1, <1>6, <1>7 DEF d
  <2> QED BY <1>4, <2>4, <2>6, <2>7
<1>8. CASE ~(CURSOR_LIMIT < r + WIDTH)
  <2>1. r + WIDTH \in Cells
    BY <1>0, <1>4, <1>8
  <2>2. Below(fed, q)
    BY <1>5, <1>6 DEF Below
  <2>3. fed \in [cells : [Cells -> CellType], cursor : Cells, Video_Mem : Nat]
    BY <1>2, <1>6, <2>1
  <2>4. fed \in Outs
    BY <2>2, <2>3 DEF Outs
  <2>5. LineFeed(out) = fed /\ fed.cursor = r + WIDTH
    BY <1>1, <1>6, <1>8
  <2> QED BY <1>4, <2>4, <2>5
<1> QED BY <1>7, <1>8

\* As putchar feeds a line, of a screen that clear may have left.
LEMMA FeedLine ==
    ASSUME NEW con \in [cells : [Cells -> CellType], cursor : Cells \cup {0 - WIDTH}]
    PROVE  End(LineFeed(Begin(con))) \in Consoles /\ RowStart(End(LineFeed(Begin(con))).cursor)
<1>1. con.cursor \in Int /\ WIDTH * 0 = 0
  BY ScreenFacts DEF Cells
<1>2. Begin(con) \in [cells : [Cells -> CellType], cursor : Cells \cup {0 - WIDTH}, Video_Mem : Int]
  BY <1>1 DEF Begin
<1>3. Below(Begin(con), 0)
  <2>1. con.cursor + 0 = con.cursor
    BY <1>1
  <2> QED BY <1>1, <2>1 DEF Below, Begin
<1>4. LineFeed(Begin(con)) \in Outs /\ RowStart(LineFeed(Begin(con)).cursor)
  BY <1>2, <1>3, LineFeedFacts
<1> QED BY <1>4, EndFacts

LEMMA BackSpaceFacts ==
    ASSUME NEW con \in Consoles
    PROVE  /\ BackSpace(con) \in Consoles
           /\ con.cursor > 0 /\ con.cells[con.cursor - 1].color # "PATH" =>
                 /\ BackSpace(con).cursor = con.cursor - 1
                 /\ \A k \in Cells : k # con.cursor - 1 => BackSpace(con).cells[k] = con.cells[k]
           /\ con.cells[con.cursor - 1].color = "PATH" => BackSpace(con) = con
<1>1. con.cells \in [Cells -> CellType] /\ con.cursor \in Cells
  BY DEF Consoles
<1>2. Cell(" ") \in CellType
  BY BlankType
<1>3. CASE con.cursor > 0 /\ con.cells[con.cursor - 1].color # "PATH"
  <2>1. con.cursor - 1 \in Cells
    BY <1>1, <1>3, ScreenFacts DEF Cells
  <2> DEFINE cells == [con.cells EXCEPT ![con.cursor - 1] = Cell(" ")]
  <2>2. BackSpace(con) = [cells |-> cells, cursor |-> con.cursor - 1]
    BY <1>3 DEF BackSpace
  <2>3. /\ cells \in [Cells -> CellType]
        /\ \A k \in Cells : k # con.cursor - 1 => cells[k] = con.cells[k]
    BY <1>1, <1>2
  <2> HIDE DEF cells
  <2> QED BY <1>3, <2>1, <2>2, <2>3 DEF Consoles
<1>4. CASE ~(con.cursor > 0 /\ con.cells[con.cursor - 1].color # "PATH")
  <2>1. BackSpace(con) = con
    BY <1>4 DEF BackSpace
  <2> QED BY <1>4, <2>1
<1> QED BY <1>3, <1>4

LEMMA PutcharFacts ==
    ASSUME NEW con \in Consoles, NEW c \in Chars
    PROVE  /\ putchar(con, c) \in Consoles
           /\ c = "\n" => RowStart(putchar(con, c).cursor)
<1>1. CASE c = "\n"
  <2>1. putchar(con, c) = End(LineFeed(Begin(con)))
    BY <1>1 DEF putchar
  <2>2. con \in [cells : [Cells -> CellType], cursor : Cells \cup {0 - WIDTH}]
    BY DEF Consoles
  <2> QED BY <2>1, <2>2, FeedLine
<1>2. CASE c = "BACKSPACE"
  <2>1. putchar(con, c) = BackSpace(con) /\ c # "\n"
    BY <1>2 DEF putchar
  <2> QED BY <2>1, BackSpaceFacts
<1>3. CASE c \notin {"\n", "BACKSPACE"}
  <2>1. putchar(con, c) = Typed(con, c)
    BY <1>3 DEF putchar, Typed
  <2> QED BY <1>3, <2>1, PutCellFacts
<1> QED BY <1>1, <1>2, <1>3

LEMMA PutFormatFacts ==
    ASSUME NEW out \in Outs, NEW c \in Chars
    PROVE  /\ PutFormat(out, c) \in Outs
           /\ c = "\n" => RowStart(PutFormat(out, c).cursor)
<1>1. CASE c = "\n"
  <2>1. PutFormat(out, c) = LineFeed(out)
    BY <1>1 DEF PutFormat
  <2>2. out \in [cells : [Cells -> CellType], cursor : Cells \cup {0 - WIDTH}, Video_Mem : Int]
    BY DEF Outs
  <2>3. PICK q \in Nat : Below(out, q)
    BY DEF Outs
  <2> QED BY <2>1, <2>2, <2>3, LineFeedFacts
<1>2. CASE c # "\n"
  <2>1. PutFormat(out, c) = PutCell(out, c)
    BY <1>2 DEF PutFormat
  <2> QED BY <1>2, <2>1, PutOut
<1> QED BY <1>1, <1>2

\* What printf has put is a screen, and ends a row if the text ends a line.
LEMMA PrintfFacts ==
    ASSUME NEW con \in Consoles, NEW text \in Seq(Chars)
    PROVE  /\ printf(con, text) \in Consoles
           /\ text # <<>> /\ text[Len(text)] = "\n" => RowStart(printf(con, text).cursor)
<1> DEFINE base == Begin(con)
           F == [p \in Outs \X Chars |-> PutFormat(p[1], p[2])]
           it == CHOOSE g : g = [s \in SUBSET DOMAIN text |->
                     IF s = {} THEN base ELSE PutFormat(g[s \ {Max(s)}], text[Max(s)])]
<1>0. base \in Outs
  BY BeginFacts
<1>1. printf(con, text) = End(it[DOMAIN text])
  BY DEF printf, FoldLeft, MapThenFoldSet
<1> HIDE DEF base
<1>2. F \in [Outs \X Chars -> Outs]
  BY PutFormatFacts
<1>3. \A d \in Outs, c \in Chars : F[<<d, c>>] = PutFormat(d, c)
  OBVIOUS
<1>4. DOMAIN text = 1 .. Len(text) /\ \A k \in 1 .. Len(text) : text[k] \in Chars
  OBVIOUS
<1>5. ASSUME NEW s \in SUBSET (1 .. Len(text)), s # {}
      PROVE  text[Max(s)] \in Chars /\ s \ {Max(s)} \in SUBSET (1 .. Len(text))
  <2>1. Len(text) \in Nat
    OBVIOUS
  <2>2. Max(s) \in s
    BY <1>5, <2>1, MaxExists
  <2> QED BY <1>4, <2>2
<1>6. PICK f \in [SUBSET (1 .. Len(text)) -> Outs] : IsFold(f, F, base, text, Len(text))
  <2> HIDE DEF F
  <2> QED BY <1>0, <1>2, FoldExists DEF HasFold
<1>7. f = [s \in SUBSET DOMAIN text |-> IF s = {} THEN base ELSE PutFormat(f[s \ {Max(s)}], text[Max(s)])]
  <2> HIDE DEF F
  <2>1. ASSUME NEW s \in SUBSET (1 .. Len(text))
        PROVE  f[s] = IF s = {} THEN base ELSE PutFormat(f[s \ {Max(s)}], text[Max(s)])
    BY <1>3, <1>5, <1>6 DEF IsFold
  <2>2. f \in [SUBSET (1 .. Len(text)) -> Outs]
    BY <1>6
  <2>3. f = [s \in SUBSET (1 .. Len(text)) |-> f[s]]
    BY <2>2
  <2>4. f = [s \in SUBSET (1 .. Len(text)) |->
                IF s = {} THEN base ELSE PutFormat(f[s \ {Max(s)}], text[Max(s)])]
    BY <2>1, <2>3
  <2> QED BY <1>4, <2>4
<1>8. it = [s \in SUBSET DOMAIN text |-> IF s = {} THEN base ELSE PutFormat(it[s \ {Max(s)}], text[Max(s)])]
  BY <1>7
<1> HIDE DEF it, F
<1>9. GrowsAs(it, Outs, F, base, text)
  BY <1>3, <1>4, <1>5, <1>8, ZenonT(40) DEF GrowsAs
<1>10. EndsAs(it, Outs, F, text)
  BY <1>0, <1>2, <1>9, FoldFacts
<1>11. it[DOMAIN text] \in Outs
  BY <1>10 DEF EndsAs
<1>12. ASSUME text # <<>>, text[Len(text)] = "\n"
       PROVE  RowStart(it[DOMAIN text].cursor)
  <2>1. PICK d \in Outs : it[DOMAIN text] = F[<<d, text[Len(text)]>>]
    BY <1>10, <1>12 DEF EndsAs
  <2>2. "\n" \in Chars
    BY CharFacts
  <2>3. it[DOMAIN text] = PutFormat(d, "\n")
    BY <1>3, <1>12, <2>1, <2>2
  <2> QED BY <2>2, <2>3, PutFormatFacts
<1>13. End(it[DOMAIN text]) \in Consoles /\ End(it[DOMAIN text]).cursor = it[DOMAIN text].cursor
  BY <1>11, EndFacts
<1> QED BY <1>1, <1>12, <1>13

\* What a command prints, one text after another.
LEMMA PrintsFacts ==
    ASSUME NEW con \in Consoles, NEW out \in Seq(Seq(Chars))
    PROVE  FoldLeft(printf, con, out) \in Consoles
<1> DEFINE F == [p \in Consoles \X Seq(Chars) |-> printf(p[1], p[2])]
           it == CHOOSE g : g = [s \in SUBSET DOMAIN out |->
                     IF s = {} THEN con ELSE printf(g[s \ {Max(s)}], out[Max(s)])]
<1>1. FoldLeft(printf, con, out) = it[DOMAIN out]
  BY DEF FoldLeft, MapThenFoldSet
<1>2. F \in [Consoles \X Seq(Chars) -> Consoles]
  BY PrintfFacts
<1>3. \A d \in Consoles, c \in Seq(Chars) : F[<<d, c>>] = printf(d, c)
  OBVIOUS
<1>4. DOMAIN out = 1 .. Len(out) /\ \A k \in 1 .. Len(out) : out[k] \in Seq(Chars)
  OBVIOUS
<1>5. ASSUME NEW s \in SUBSET (1 .. Len(out)), s # {}
      PROVE  out[Max(s)] \in Seq(Chars) /\ s \ {Max(s)} \in SUBSET (1 .. Len(out))
  <2>1. Len(out) \in Nat
    OBVIOUS
  <2>2. Max(s) \in s
    BY <1>5, <2>1, MaxExists
  <2> QED BY <1>4, <2>2
<1>6. PICK f \in [SUBSET (1 .. Len(out)) -> Consoles] : IsFold(f, F, con, out, Len(out))
  <2> HIDE DEF F
  <2> QED BY <1>2, FoldExists DEF HasFold
<1>7. f = [s \in SUBSET DOMAIN out |-> IF s = {} THEN con ELSE printf(f[s \ {Max(s)}], out[Max(s)])]
  <2> HIDE DEF F
  <2>1. ASSUME NEW s \in SUBSET (1 .. Len(out))
        PROVE  f[s] = IF s = {} THEN con ELSE printf(f[s \ {Max(s)}], out[Max(s)])
    BY <1>3, <1>5, <1>6 DEF IsFold
  <2>2. f \in [SUBSET (1 .. Len(out)) -> Consoles]
    BY <1>6
  <2>3. f = [s \in SUBSET (1 .. Len(out)) |-> f[s]]
    BY <2>2
  <2>4. f = [s \in SUBSET (1 .. Len(out)) |->
                IF s = {} THEN con ELSE printf(f[s \ {Max(s)}], out[Max(s)])]
    BY <2>1, <2>3
  <2> QED BY <1>4, <2>4
<1>8. it = [s \in SUBSET DOMAIN out |-> IF s = {} THEN con ELSE printf(it[s \ {Max(s)}], out[Max(s)])]
  BY <1>7
<1> HIDE DEF it, F
<1>9. GrowsAs(it, Consoles, F, con, out)
  BY <1>3, <1>4, <1>5, <1>8, ZenonT(40) DEF GrowsAs
<1>10. EndsAs(it, Consoles, F, out)
  BY <1>2, <1>9, FoldFacts
<1> QED BY <1>1, <1>10 DEF EndsAs

\* One cell, put as part of a string.
LEMMA PrintStringFacts ==
    ASSUME NEW con, NEW c
    PROVE  PrintString(con, <<c>>) = PutCell(con, c)
<1> DEFINE it == CHOOSE g : g = [s \in SUBSET {1} |->
                     IF s = {} THEN con ELSE PutCell(g[s \ {Max(s)}], <<c>>[Max(s)])]
           f == [s \in SUBSET {1} |-> IF s = {} THEN con ELSE PutCell(con, c)]
<1>1. PrintString(con, <<c>>) = it[{1}]
  <2>1. DOMAIN <<c>> = {1}
    OBVIOUS
  <2>2. PrintString(con, <<c>>) =
            (CHOOSE g : g = [s \in SUBSET DOMAIN <<c>> |->
                 IF s = {} THEN con ELSE PutCell(g[s \ {Max(s)}], <<c>>[Max(s)])])[DOMAIN <<c>>]
    BY DEF PrintString, FoldLeft, MapThenFoldSet
  <2> QED BY <2>1, <2>2
<1>2. Max({1}) = 1
  <2>1. {1} \in SUBSET (1 .. 1) /\ 1 \in {1} /\ 1 \in Nat
    OBVIOUS
  <2> QED BY <2>1, MaxFacts
<1>3. \A s \in SUBSET {1} : s # {} => s = {1}
  OBVIOUS
<1>4. <<c>>[1] = c /\ {1} \ {1} = {}
  OBVIOUS
<1>5. ASSUME NEW s \in SUBSET {1}
      PROVE  f[s] = IF s = {} THEN con ELSE PutCell(f[s \ {Max(s)}], <<c>>[Max(s)])
  <2>1. f[{}] = con
    OBVIOUS
  <2> QED BY <1>2, <1>3, <1>4, <2>1
<1>6. f = [s \in SUBSET {1} |-> IF s = {} THEN con ELSE PutCell(f[s \ {Max(s)}], <<c>>[Max(s)])]
  BY <1>5
<1>7. it = [s \in SUBSET {1} |-> IF s = {} THEN con ELSE PutCell(it[s \ {Max(s)}], <<c>>[Max(s)])]
  <2> HIDE DEF f
  <2> QED BY <1>6
<1> HIDE DEF it, f
<1>8. it[{}] = con /\ it[{1}] = PutCell(it[{1} \ {Max({1})}], <<c>>[Max({1})])
  BY <1>7
<1> QED BY <1>1, <1>2, <1>4, <1>8

-----------------------------------------------------------------------------
(* The prompt and the line.                                                *)
(*                                                                         *)
(* The prompt begins a row, so that it scrolls out of the screen only when *)
(* the cursor is a screen away from it, farther than a line reaches; and   *)
(* all that stands behind it can be erased.                                *)

PromptAt(con, s) ==
    /\ s \in Cells /\ RowStart(s) /\ s + 2 <= con.cursor
    /\ con.cells[s] = [char |-> "root", color |-> "PATH"]
    /\ con.cells[s + 1] = [char |-> ">", color |-> "PATH"]
    /\ \A k \in s + 2 .. con.cursor - 1 : con.cells[k].color = "DEFAULT"

LEMMA OneElement ==
    ASSUME NEW S, NEW c, NEW s \in Seq(S), Len(s) = 1, s[1] = c
    PROVE  s = <<c>>
<1>1. s = [i \in 1 .. 1 |-> c]
  OBVIOUS
<1>2. <<c>> = [i \in 1 .. 1 |-> c]
  OBVIOUS
<1> QED BY <1>1, <1>2

LEMMA PrintPromptFacts ==
    ASSUME NEW con \in Consoles, RowStart(con.cursor)
    PROVE  /\ PrintPrompt(con) \in Consoles /\ PromptAt(PrintPrompt(con), con.cursor)
           /\ PrintPrompt(con).cursor = con.cursor + 2
<1> DEFINE s == con.cursor
           a == Typed(con, "root")
           b == Typed(a, ">")
           d == SetColor_Path(b, 2)
<1>1. PrintPrompt(con) = d
  <2>1. Len(Prompt) = 2 /\ Prompt[1] = "root" /\ Prompt[2] = ">"
    BY ScreenFacts
  <2>2. Last(Prompt) = ">"
    BY <2>1 DEF Last
  <2>3. SubSeq(Prompt, 1, 1) = <<"root">>
    <3>1. Prompt \in Seq({"root", ">"})
      BY DEF Prompt
    <3>2. SubSeq(Prompt, 1, 1) \in Seq({"root", ">"}) /\ Len(SubSeq(Prompt, 1, 1)) = 1
          /\ SubSeq(Prompt, 1, 1)[1] = "root"
      BY <2>1, <3>1
    <3> QED BY <3>2, OneElement
  <2>4. Front(Prompt) = <<"root">>
    <3>1. Len(Prompt) - 1 = 1
      BY <2>1
    <3> QED BY <2>3, <3>1 DEF Front
  <2>5. PutCell(Begin(con), "root") = Begin(a)
    BY CharFacts, PutCellFacts
  <2>6. PrintString(Begin(con), Front(Prompt)) = Begin(a)
    BY <2>4, <2>5, PrintStringFacts
  <2>7. b = End(PutCell(Begin(a), ">"))
    BY DEF Typed
  <2> HIDE DEF a, b
  <2> QED BY <2>1, <2>2, <2>6, <2>7 DEF PrintPrompt
<1>2. /\ s \in Cells /\ s + 2 \in Cells /\ s + 1 \in Cells
      /\ s # CURSOR_LIMIT /\ s + 1 # CURSOR_LIMIT /\ Cells = 0 .. CURSOR_LIMIT /\ s \in Nat
  <2>1. s \in Cells /\ s \in Nat
    BY ScreenFacts DEF Consoles, Cells
  <2>2. s + WIDTH - 1 \in Cells
    BY <2>1, RowFacts
  <2> QED BY <2>1, <2>2, ScreenFacts DEF Cells, CURSOR_LIMIT
<1>3. /\ a \in Consoles /\ a.cursor = s + 1
      /\ a.cells[s] = Cell("root")
  <2>1. IsPut(a, con, "root")
    <3>1. con.cursor # CURSOR_LIMIT
      BY <1>2
    <3>2. "root" \in Chars
      BY CharFacts
    <3> HIDE DEF s
    <3> QED BY <3>1, <3>2, PutCellInside
  <2> HIDE DEF a
  <2> QED BY <1>2, <2>1 DEF IsPut
<1>4. /\ b \in Consoles /\ b.cursor = s + 2
      /\ b.cells[s] = Cell("root") /\ b.cells[s + 1] = Cell(">")
  <2> HIDE DEF a
  <2>1. IsPut(b, a, ">")
    <3>1. a \in Consoles /\ a.cursor # CURSOR_LIMIT
      BY <1>2, <1>3
    <3>2. ">" \in Chars
      BY CharFacts
    <3> QED BY <3>1, <3>2, PutCellInside
  <2> HIDE DEF b
  <2> QED BY <1>2, <1>3, <2>1 DEF IsPut
<1> HIDE DEF a, b
<1>5. d.cursor = s + 2 /\ d = [cells |-> d.cells, cursor |-> s + 2]
      /\ d.cells = [k \in Cells |-> IF k \in s .. s + 1 THEN [b.cells[k] EXCEPT !.color = "PATH"]
                                                       ELSE b.cells[k]]
  <2>1. b.cursor - 2 = s /\ b.cursor - 1 = s + 1 /\ DOMAIN b.cells = Cells
    BY <1>2, <1>4 DEF Consoles
  <2>2. b = [cells |-> b.cells, cursor |-> s + 2]
    BY <1>4 DEF Consoles
  <2> QED BY <2>1, <2>2 DEF SetColor_Path
<1> HIDE DEF d
<1>6. d.cells \in [Cells -> CellType]
  <2>1. b.cells \in [Cells -> CellType]
    BY <1>4 DEF Consoles
  <2>2. \A x \in CellType : [x EXCEPT !.color = "PATH"] \in CellType
    BY DEF CellType
  <2> QED BY <1>5, <2>1, <2>2
<1>7. /\ d.cells[s] = [char |-> "root", color |-> "PATH"]
      /\ d.cells[s + 1] = [char |-> ">", color |-> "PATH"]
  <2>1. s \in s .. s + 1 /\ s + 1 \in s .. s + 1
    BY <1>2
  <2> QED BY <1>2, <1>4, <1>5, <2>1 DEF Cell
<1>8. d \in Consoles
  BY <1>2, <1>5, <1>6 DEF Consoles
<1>9. s + 2 .. s + 2 - 1 = {}
  BY <1>2
<1> QED BY <1>1, <1>2, <1>5, <1>7, <1>8, <1>9 DEF PromptAt

\* A character typed behind a prompt: the prompt and the line stay in front of
\* it, a row higher if the screen had to scroll.
LEMMA TypedFacts ==
    ASSUME NEW con \in Consoles, NEW s \in Cells, PromptAt(con, s), NEW c \in Chars,
           s = 0 => con.cursor < CURSOR_LIMIT
    PROVE  LET d == Typed(con, c)
           IN  /\ d \in Consoles
               /\ \E t \in Cells :
                      /\ PromptAt(d, t)
                      /\ d.cursor = t + (con.cursor - s) + 1
                      /\ d.cells[t + (con.cursor - s)] = Cell(c)
                      /\ \A k \in 0 .. con.cursor - s - 1 : d.cells[t + k] = con.cells[s + k]
<1> DEFINE d == Typed(con, c)
           shift == IF con.cursor = CURSOR_LIMIT THEN WIDTH ELSE 0
           t == s - shift
           n == con.cursor - s
<1>1. /\ d \in Consoles
      /\ d.cursor = con.cursor + 1 - shift
      /\ \A k \in Cells : k + shift \in Cells =>
             d.cells[k] = IF k + shift = con.cursor THEN Cell(c) ELSE con.cells[k + shift]
  BY PutCellFacts
<1>2. Cells = 0 .. CURSOR_LIMIT /\ CURSOR_LIMIT \in Nat /\ WIDTH \in Nat /\ WIDTH >= 3
  BY ScreenFacts DEF Cells, CURSOR_LIMIT
<1>3. con.cursor \in Cells /\ s \in Nat /\ n \in Nat /\ n >= 2 /\ shift \in {0, WIDTH}
  BY <1>2 DEF Consoles, PromptAt
<1>4. t \in Nat /\ t \in Cells /\ RowStart(t)
  <2>1. CASE con.cursor = CURSOR_LIMIT
    <3>1. s > 0
      BY <1>2, <1>3, <2>1
    <3>2. s >= WIDTH /\ RowStart(s - WIDTH)
      BY <1>3, <3>1, RowFacts DEF PromptAt
    <3> QED BY <1>2, <1>3, <2>1, <3>2
  <2>2. CASE con.cursor # CURSOR_LIMIT
    <3>1. s - 0 = s
      BY <1>3
    <3> QED BY <1>3, <2>2, <3>1 DEF PromptAt
  <2> QED BY <2>1, <2>2
<1>5. /\ t + shift = s /\ d.cursor = t + n + 1 /\ t + n + shift = con.cursor
      /\ \A k \in 0 .. n : t + k \in Cells /\ t + k + shift = s + k /\ s + k \in Cells
  <2>1. shift \in Int /\ t \in Int /\ n \in Int /\ s \in Int /\ con.cursor \in Int
    BY <1>2, <1>3
  <2>2. t + shift = s /\ s + n = con.cursor /\ t + n + shift = con.cursor
    <3> HIDE DEF shift
    <3> QED BY <2>1
  <2> HIDE DEF shift, t, n
  <2>3. d.cursor = t + n + 1
    <3> HIDE DEF d
    <3> QED BY <1>1, <2>1, <2>2
  <2>4. shift \in Nat /\ con.cursor <= CURSOR_LIMIT /\ con.cursor \in Nat
    BY <1>2, <1>3
  <2>5. \A k \in 0 .. n : t + k \in Cells /\ t + k + shift = s + k /\ s + k \in Cells
    BY <1>2, <1>3, <1>4, <2>1, <2>2, <2>4
  <2> QED BY <2>2, <2>3, <2>5
<1> HIDE DEF d, shift, t
<1>6. d.cells[t + n] = Cell(c)
  <2>1. n \in 0 .. n /\ s + n = con.cursor
    BY <1>2, <1>3
  <2> HIDE DEF n
  <2>2. t + n \in Cells /\ t + n + shift = con.cursor
    BY <1>5, <2>1
  <2> QED BY <1>1, <1>3, <2>2
<1>7. ASSUME NEW k \in 0 .. n - 1
      PROVE  d.cells[t + k] = con.cells[s + k]
  <2>1. k \in 0 .. n /\ s + k # con.cursor
    BY <1>3
  <2>2. t + k \in Cells /\ t + k + shift = s + k /\ s + k \in Cells
    BY <1>5, <2>1
  <2> QED BY <1>1, <2>1, <2>2
<1>8. PromptAt(d, t)
  <2>1. d.cells[t] = con.cells[s] /\ d.cells[t + 1] = con.cells[s + 1]
    <3>1. 0 \in 0 .. n - 1 /\ 1 \in 0 .. n - 1 /\ t + 0 = t /\ s + 0 = s
      BY <1>3, <1>4
    <3> QED BY <1>7, <3>1
  <2>2. ASSUME NEW j \in t + 2 .. d.cursor - 1
        PROVE  d.cells[j].color = "DEFAULT"
    <3>1. j - t \in 2 .. n /\ j = t + (j - t)
      BY <1>3, <1>4, <1>5
    <3>2. CASE j - t = n
      BY <1>6, <3>1, <3>2, CellTypes
    <3>3. CASE j - t \in 2 .. n - 1
      <4>1. d.cells[j] = con.cells[s + (j - t)]
        BY <1>3, <1>7, <3>1, <3>3
      <4>2. s + (j - t) \in s + 2 .. con.cursor - 1
        <5>1. con.cursor = s + n /\ j - t \in Int
          BY <1>2, <1>3, <3>3
        <5> HIDE DEF n
        <5> QED BY <1>3, <3>3, <5>1
      <4> QED BY <4>1, <4>2 DEF PromptAt
    <3> QED BY <1>3, <3>1, <3>2, <3>3
  <2>3. t + 2 <= d.cursor
    BY <1>3, <1>4, <1>5
  <2> QED BY <1>4, <2>1, <2>2, <2>3 DEF PromptAt
<1> QED BY <1>1, <1>4, <1>5, <1>6, <1>7, <1>8 DEF d
-----------------------------------------------------------------------------
(* The invariant of the line: a prompt stands on the screen, and behind it *)
(* the line, as far as the cursor, with at most as many cells more as tabs *)
(* were typed.                                                             *)

LineTypes ==
    /\ Console \in Consoles
    /\ Buffer_Command \in [0 .. COMMAND_MAX - 1 -> Chars]
    /\ Length \in 0 .. COMMAND_MAX - 1
    /\ tabs \in 0 .. MaxTabs

LineAt(s) ==
    /\ PromptAt(Console, s)
    /\ g_Cursor \in s + 2 + Length .. s + 2 + Length + tabs
    /\ tabs = 0 => \A k \in 0 .. Length - 1 : screen[s + 2 + k] = Cell(Buffer_Command[k])

LineInv ==
    /\ LineTypes
    /\ AtPrompt => \E s \in Cells : LineAt(s)

LEMMA CellNat == \A s \in Cells : s \in Nat
BY DEF Cells

LEMMA ConsoleParts == Console.cells = screen /\ Console.cursor = g_Cursor
BY DEF Console

LEMMA Shown ==
    ASSUME NEW con \in Consoles, Show(con)
    PROVE  Console' = con
BY DEF Show, Console, Consoles

\* The prompt of a new line.
LEMMA NewPrompt ==
    ASSUME NEW con \in Consoles, RowStart(con.cursor), Show(PrintPrompt(con)),
           Buffer_Command' \in [0 .. COMMAND_MAX - 1 -> Chars], Length' = 0, tabs' = 0
    PROVE  LineInv'
<1> DEFINE d == PrintPrompt(con)
<1>1. d \in Consoles /\ PromptAt(d, con.cursor) /\ d.cursor = con.cursor + 2
  BY PrintPromptFacts
<1>2. Console' = d
  BY <1>1, Shown
<1> HIDE DEF d
<1>3. g_Cursor' = con.cursor + 2 /\ con.cursor \in Cells /\ con.cursor \in Nat
  <2>1. Console'.cursor = g_Cursor'
    BY DEF Console
  <2> QED BY <1>1, <1>2, <2>1, CellNat DEF Consoles
<1>4. Length' \in 0 .. COMMAND_MAX - 1 /\ tabs' \in 0 .. MaxTabs
  BY ScreenFacts
<1>5. LineTypes'
  BY <1>1, <1>2, <1>4 DEF LineTypes
<1>6. LineAt(con.cursor)'
  <2>1. PromptAt(Console', con.cursor)
    BY <1>1, <1>2
  <2>2. g_Cursor' \in con.cursor + 2 + Length' .. con.cursor + 2 + Length' + tabs'
    BY <1>3
  <2>3. \A k \in 0 .. Length' - 1 : FALSE
    OBVIOUS
  <2> QED BY <2>1, <2>2, <2>3 DEF LineAt
<1> QED BY <1>3, <1>5, <1>6 DEF LineInv

LEMMA RemoveFacts ==
    ASSUME LineTypes, RemoveCommand
    PROVE  Buffer_Command' \in [0 .. COMMAND_MAX - 1 -> Chars] /\ Length' = 0 /\ tabs' = 0
BY CharFacts DEF LineTypes, RemoveCommand

LEMMA LineInit == Init => LineInv
<1> SUFFICES ASSUME Init PROVE LineInv
  OBVIOUS
<1> DEFINE con == [cells |-> cleark, cursor |-> 0]
           d == PrintPrompt(con)
<1>1. con \in Consoles /\ RowStart(con.cursor)
  <2>1. 0 \in Cells /\ WIDTH \in Nat \ {0}
    BY ScreenFacts DEF Cells
  <2>2. cleark \in [Cells -> CellType]
    BY BlankType DEF cleark
  <2>3. (WIDTH * 0 + 0) % WIDTH = 0
    <3>1. 0 \in 0 .. WIDTH - 1 /\ 0 \in Int
      BY <2>1
    <3> QED BY <2>1, <3>1, Quotient
  <2>4. WIDTH * 0 + 0 = 0
    BY <2>1
  <2> QED BY <2>1, <2>2, <2>3, <2>4 DEF Consoles, RowStart
<1> HIDE DEF con
<1>2. d \in Consoles /\ PromptAt(d, con.cursor) /\ d.cursor = con.cursor + 2
  BY <1>1, PrintPromptFacts
<1>3. screen = d.cells /\ g_Cursor = d.cursor
  BY DEF Init, con
<1> HIDE DEF d
<1>4. Console = d
  BY <1>2, <1>3 DEF Console, Consoles
<1>5. con.cursor \in Cells /\ con.cursor \in Nat
  BY <1>1, CellNat DEF Consoles
<1>6. Length = 0 /\ tabs = 0 /\ Buffer_Command \in [0 .. COMMAND_MAX - 1 -> Chars]
  BY CharFacts DEF Init
<1>7. LineTypes
  BY <1>2, <1>4, <1>6, ScreenFacts DEF LineTypes
<1>8. LineAt(con.cursor)
  <2>1. g_Cursor \in con.cursor + 2 + Length .. con.cursor + 2 + Length + tabs
    BY <1>2, <1>3, <1>5, <1>6
  <2>2. \A k \in 0 .. Length - 1 : FALSE
    BY <1>6
  <2> QED BY <1>2, <1>4, <2>1, <2>2 DEF LineAt
<1> QED BY <1>5, <1>7, <1>8 DEF LineInv

\* A cell put behind the line, of a character or of a tab.
LEMMA PutBehind ==
    ASSUME LineTypes, NEW s \in Cells, LineAt(s), NEW c \in Chars, Show(Typed(Console, c)),
           Length + tabs + 1 < COMMAND_MAX + MaxTabs
    PROVE  /\ Console' \in Consoles
           /\ \E t \in Cells :
                  /\ PromptAt(Console', t)
                  /\ g_Cursor' = t + (g_Cursor - s) + 1
                  /\ screen'[t + (g_Cursor - s)] = Cell(c)
                  /\ \A k \in 0 .. g_Cursor - s - 1 : screen'[t + k] = screen[s + k]
<1>1. Console \in Consoles /\ PromptAt(Console, s) /\ s \in Nat
  BY CellNat DEF LineTypes, LineAt
<1>2. s = 0 => Console.cursor < CURSOR_LIMIT
  <2>1. s = 0 => g_Cursor <= 2 + Length + tabs /\ g_Cursor \in Int
    BY <1>1 DEF LineAt, LineTypes
  <2> QED BY <1>1, <2>1, ScreenFacts, ConsoleParts DEF LineTypes, CURSOR_LIMIT
<1> DEFINE d == Typed(Console, c)
<1>3. /\ d \in Consoles
      /\ \E t \in Cells :
             /\ PromptAt(d, t)
             /\ d.cursor = t + (Console.cursor - s) + 1
             /\ d.cells[t + (Console.cursor - s)] = Cell(c)
             /\ \A k \in 0 .. Console.cursor - s - 1 : d.cells[t + k] = Console.cells[s + k]
  BY <1>1, <1>2, TypedFacts
<1> HIDE DEF d
<1>4. Console' = d /\ d.cells = screen' /\ d.cursor = g_Cursor'
  <2>1. Show(d)
    BY DEF d
  <2> QED BY <1>3, <2>1, Shown DEF Show
<1> QED BY <1>3, <1>4, ConsoleParts
LEMMA CharacterLine ==
    ASSUME LineInv, Character
    PROVE  LineInv'
<1>1. PICK code \in Letters : Handling(code) /\ Show(putchar(Console, code))
  BY DEF Character
<1>2. PICK s \in Cells : LineAt(s)
  BY <1>1 DEF LineInv, AtPrompt, Handling
<1>3. LineTypes /\ code \in Chars /\ putchar(Console, code) = Typed(Console, code)
  BY CharFacts DEF LineInv, putchar, Letters, Typed
<1>4. /\ Length' = Length + 1 /\ Length + 1 < COMMAND_MAX
      /\ UNCHANGED <<Buffer_Command, tabs>> /\ Buffer_Command[Length] = code
  BY <1>1 DEF Character, LineBound, Handling, Code
<1>5. Length \in Nat /\ tabs \in 0 .. MaxTabs /\ MaxTabs \in Nat /\ COMMAND_MAX \in Nat
  BY <1>3, ScreenFacts DEF LineTypes
<1>6. Length + tabs + 1 < COMMAND_MAX + MaxTabs
  BY <1>4, <1>5
<1>7. Console' \in Consoles
  BY <1>1, <1>2, <1>3, <1>6, PutBehind
<1>8. PICK t \in Cells :
          /\ PromptAt(Console', t)
          /\ g_Cursor' = t + (g_Cursor - s) + 1
          /\ screen'[t + (g_Cursor - s)] = Cell(code)
          /\ \A k \in 0 .. g_Cursor - s - 1 : screen'[t + k] = screen[s + k]
  BY <1>1, <1>2, <1>3, <1>6, PutBehind
<1>9. LineTypes'
  BY <1>3, <1>4, <1>5, <1>7 DEF LineTypes
<1>10. s \in Nat /\ t \in Nat /\ g_Cursor \in s + 2 + Length .. s + 2 + Length + tabs
  BY <1>2, CellNat DEF LineAt
<1>11. g_Cursor' \in t + 2 + Length' .. t + 2 + Length' + tabs'
  BY <1>4, <1>5, <1>8, <1>10
<1>12. ASSUME tabs' = 0, NEW k \in 0 .. Length' - 1
       PROVE  screen'[t + 2 + k] = Cell(Buffer_Command'[k])
  <2>1. g_Cursor - s = 2 + Length
    BY <1>4, <1>5, <1>10, <1>12
  <2>2. CASE k = Length
    <3>1. t + (g_Cursor - s) = t + 2 + k
      BY <1>5, <1>10, <2>1, <2>2
    <3> QED BY <1>4, <1>8, <2>2, <3>1
  <2>3. CASE k # Length
    <3>1. k \in 0 .. Length - 1
      BY <1>4, <1>5, <2>3
    <3>2. 2 + k \in 0 .. g_Cursor - s - 1 /\ t + (2 + k) = t + 2 + k /\ s + (2 + k) = s + 2 + k
      BY <1>5, <1>10, <2>1, <3>1
    <3>3. screen'[t + 2 + k] = screen[s + 2 + k]
      BY <1>8, <3>2
    <3>4. screen[s + 2 + k] = Cell(Buffer_Command[k])
      BY <1>2, <1>4, <1>12, <3>1 DEF LineAt
    <3> QED BY <1>4, <3>3, <3>4
  <2> QED BY <2>2, <2>3
<1> QED BY <1>8, <1>9, <1>11, <1>12 DEF LineInv, LineAt

LEMMA TabLine ==
    ASSUME LineInv, Tab
    PROVE  LineInv'
<1>1. Handling("\t") /\ Show(putchar(Console, "\t"))
  BY DEF Tab
<1>2. PICK s \in Cells : LineAt(s)
  BY <1>1 DEF LineInv, AtPrompt, Handling
<1>3. LineTypes /\ "\t" \in Chars /\ putchar(Console, "\t") = Typed(Console, "\t")
  BY CharFacts DEF LineInv, putchar, Typed
<1>4. tabs' = tabs + 1 /\ tabs < MaxTabs /\ UNCHANGED <<Buffer_Command, Length>>
  BY DEF Tab
<1>5. Length \in 0 .. COMMAND_MAX - 1 /\ tabs \in 0 .. MaxTabs /\ MaxTabs \in Nat /\ COMMAND_MAX \in Nat
  BY <1>3, ScreenFacts DEF LineTypes
<1>6. Length + tabs + 1 < COMMAND_MAX + MaxTabs
  BY <1>4, <1>5
<1>7. Console' \in Consoles
  BY <1>1, <1>2, <1>3, <1>6, PutBehind
<1>8. PICK t \in Cells :
          /\ PromptAt(Console', t)
          /\ g_Cursor' = t + (g_Cursor - s) + 1
  BY <1>1, <1>2, <1>3, <1>6, PutBehind
<1>9. LineTypes'
  BY <1>3, <1>4, <1>5, <1>7 DEF LineTypes
<1>10. s \in Nat /\ t \in Nat /\ g_Cursor \in s + 2 + Length .. s + 2 + Length + tabs
  BY <1>2, CellNat DEF LineAt
<1>11. g_Cursor' \in t + 2 + Length' .. t + 2 + Length' + tabs'
  BY <1>4, <1>5, <1>8, <1>10
<1>12. tabs' # 0
  BY <1>4, <1>5
<1> QED BY <1>8, <1>9, <1>11, <1>12 DEF LineInv, LineAt

\* Nothing but the prompt stops a backspace, and before it stands the line.
LEMMA EraseSteps ==
    ASSUME LineInv, Erase
    PROVE  /\ LineInv'
           /\ Length > 0 => g_Cursor' = g_Cursor - 1
<1>1. Handling("BACKSPACE") /\ Show(putchar(Console, "BACKSPACE"))
  BY DEF Erase
<1>2. PICK s \in Cells : LineAt(s)
  BY <1>1 DEF LineInv, AtPrompt, Handling
<1>3. LineTypes /\ putchar(Console, "BACKSPACE") = BackSpace(Console)
  BY DEF LineInv, putchar
<1>4. /\ Buffer_Command' = [Buffer_Command EXCEPT ![Length] = NoKey]
      /\ Length' = IF Length > 0 THEN Length - 1 ELSE Length
      /\ tabs' = tabs
  BY DEF Erase
<1>5. Length \in 0 .. COMMAND_MAX - 1 /\ tabs \in 0 .. MaxTabs /\ MaxTabs \in Nat /\ COMMAND_MAX \in Nat
  BY <1>3, ScreenFacts DEF LineTypes
<1> DEFINE d == BackSpace(Console)
<1>6. d \in Consoles /\ Console \in Consoles /\ Console.cells = screen /\ Console.cursor = g_Cursor
  BY <1>3, BackSpaceFacts, ConsoleParts DEF LineTypes
<1>7. Console' = d /\ screen' = d.cells /\ g_Cursor' = d.cursor
  BY <1>1, <1>3, <1>6, Shown DEF Show
<1>8. /\ Length' \in 0 .. COMMAND_MAX - 1
      /\ Buffer_Command' \in [0 .. COMMAND_MAX - 1 -> Chars]
      /\ \A k \in 0 .. Length' - 1 : k \in 0 .. Length - 1 /\ Buffer_Command'[k] = Buffer_Command[k]
  <2>1. Length' \in 0 .. COMMAND_MAX - 1 /\ \A k \in 0 .. Length' - 1 : k \in 0 .. Length - 1
    BY <1>4, <1>5
  <2>2. Buffer_Command' \in [0 .. COMMAND_MAX - 1 -> Chars]
    BY <1>3, <1>4, CharFacts DEF LineTypes
  <2>3. \A k \in 0 .. Length - 1 : Buffer_Command'[k] = Buffer_Command[k]
    BY <1>3, <1>4, <1>5 DEF LineTypes
  <2> QED BY <2>1, <2>2, <2>3
<1>9. LineTypes'
  BY <1>3, <1>4, <1>6, <1>7, <1>8 DEF LineTypes
<1>10. s \in Nat /\ g_Cursor \in s + 2 + Length .. s + 2 + Length + tabs /\ g_Cursor \in Nat
  BY <1>2, <1>5, CellNat DEF LineAt
<1>11. PromptAt(Console, s)
  BY <1>2 DEF LineAt
<1>12. CASE g_Cursor > s + 2
  <2>1. g_Cursor - 1 \in s + 2 .. g_Cursor - 1 /\ g_Cursor > 0
    BY <1>10, <1>12
  <2>2. screen[g_Cursor - 1].color # "PATH"
    BY <1>6, <1>11, <2>1 DEF PromptAt
  <2>3. /\ d.cursor = g_Cursor - 1
        /\ \A k \in Cells : k # g_Cursor - 1 => d.cells[k] = screen[k]
    BY <1>6, <2>1, <2>2, BackSpaceFacts
  <2> HIDE DEF d
  <2>4. \A k \in s .. g_Cursor - 2 : k \in Cells /\ d.cells[k] = screen[k]
    <3>1. g_Cursor \in Cells /\ s \in Cells
      BY <1>6 DEF Consoles
    <3>2. \A k \in s .. g_Cursor - 2 : k \in Cells /\ k # g_Cursor - 1
      BY <1>10, <3>1, ScreenFacts DEF Cells
    <3> QED BY <2>3, <3>2
  <2>5. PromptAt(d, s)
    <3>1. s \in s .. g_Cursor - 2 /\ s + 1 \in s .. g_Cursor - 2 /\ s + 2 <= d.cursor
      BY <1>10, <1>12, <2>3
    <3>2. \A k \in s + 2 .. d.cursor - 1 : k \in s .. g_Cursor - 2 /\ k \in s + 2 .. g_Cursor - 1
      BY <1>10, <2>3
    <3> QED BY <1>6, <1>11, <2>4, <3>1, <3>2 DEF PromptAt
  <2>6. g_Cursor' \in s + 2 + Length' .. s + 2 + Length' + tabs'
    BY <1>4, <1>5, <1>7, <1>10, <1>12, <2>3
  <2>7. ASSUME tabs' = 0, NEW k \in 0 .. Length' - 1
        PROVE  screen'[s + 2 + k] = Cell(Buffer_Command'[k])
    <3>1. k \in 0 .. Length - 1 /\ Buffer_Command'[k] = Buffer_Command[k]
      BY <1>8, <2>7
    <3>2. s + 2 + k \in s .. g_Cursor - 2
      BY <1>4, <1>5, <1>10, <2>7
    <3>3. screen[s + 2 + k] = Cell(Buffer_Command[k])
      BY <1>2, <1>4, <2>7, <3>1 DEF LineAt
    <3> QED BY <1>7, <2>4, <3>1, <3>2, <3>3
  <2>8. LineAt(s)'
    BY <1>7, <2>5, <2>6, <2>7 DEF LineAt
  <2> QED BY <1>7, <1>9, <2>3, <2>8 DEF LineInv
<1>13. CASE ~(g_Cursor > s + 2)
  <2>1. g_Cursor = s + 2 /\ Length = 0
    BY <1>5, <1>10, <1>13
  <2>2. screen[g_Cursor - 1].color = "PATH"
    <3>1. g_Cursor - 1 = s + 1
      BY <1>10, <2>1
    <3> QED BY <1>6, <1>11, <3>1 DEF PromptAt
  <2>3. d = Console
    BY <1>6, <2>2, BackSpaceFacts
  <2> HIDE DEF d
  <2>4. Console' = Console /\ screen' = screen /\ g_Cursor' = g_Cursor /\ Length' = Length
    BY <1>4, <1>6, <1>7, <2>1, <2>3
  <2>5. LineAt(s)'
    BY <1>2, <1>4, <1>8, <2>4 DEF LineAt
  <2> QED BY <1>5, <1>9, <2>1, <2>5 DEF LineInv
<1> QED BY <1>12, <1>13

\* A step that leaves the screen and the line alone, or ends the prompt.
LEMMA SameLine ==
    ASSUME LineInv, UNCHANGED <<consoleVars, lineVars>>, AtPrompt' => AtPrompt
    PROVE  LineInv'
<1>1. Console' = Console /\ UNCHANGED <<screen, g_Cursor, Buffer_Command, Length, tabs>>
  BY DEF consoleVars, lineVars, Console
<1>2. LineTypes'
  BY <1>1 DEF LineInv, LineTypes
<1>3. \A s \in Cells : LineAt(s) => LineAt(s)'
  BY <1>1 DEF LineAt
<1> QED BY <1>2, <1>3 DEF LineInv

LEMMA GetKeyLine ==
    ASSUME LineInv, RingInv, GetKeyBuf
    PROVE  LineInv'
<1>1. UNCHANGED <<screen, g_Cursor, Length, tabs>> /\ AtPrompt
  BY DEF GetKeyBuf, consoleVars, AtPrompt
<1>2. PICK key \in Chars : Buffer_Command' = [Buffer_Command EXCEPT ![Length] = key]
  <2>1. Key_Buf[GetIndex] \in Chars
    BY CharFacts DEF RingInv, RingTypes
  <2> QED BY <2>1, CharFacts DEF GetKeyBuf
<1>3. LineTypes /\ Length \in 0 .. COMMAND_MAX - 1
  BY DEF LineInv, LineTypes
<1>4. Console' = Console
  BY <1>1 DEF Console
<1>5. LineTypes'
  BY <1>1, <1>2, <1>3, <1>4 DEF LineTypes
<1>6. \A k \in 0 .. Length - 1 : Buffer_Command'[k] = Buffer_Command[k]
  BY <1>2, <1>3, ScreenFacts DEF LineTypes
<1>7. \A s \in Cells : LineAt(s) => LineAt(s)'
  BY <1>1, <1>4, <1>6 DEF LineAt
<1> QED BY <1>1, <1>5, <1>7 DEF LineInv
\* What is printed is a text.
LEMMA ShortTexts ==
    ASSUME NEW S, NEW a \in S, NEW b \in S
    PROVE  <<a>> \in Seq(S) /\ <<a, b>> \in Seq(S) /\ <<a, b, a>> \in Seq(S)
OBVIOUS

LEMMA WiderTexts ==
    ASSUME NEW S, NEW T, S \subseteq T, NEW s \in Seq(S)
    PROVE  s \in Seq(T)
<1>1. PICK n \in Nat : n = Len(s)
  OBVIOUS
<1>2. s \in [1 .. n -> T]
  BY <1>1
<1> QED BY <1>2

LEMMA ReturnLine ==
    ASSUME LineInv, RingInv,
           EmptyLine \/ NoCommand \/ Command \/ Clear_Command \/ TestTask_Create \/ shutdown
    PROVE  LineInv'
<1>1. LineTypes /\ Console \in Consoles
  BY DEF LineInv, LineTypes
<1>2. putchar(Console, "\n") \in Consoles /\ RowStart(putchar(Console, "\n").cursor)
  BY <1>1, CharFacts, PutcharFacts
<1>3. CASE EmptyLine
  BY <1>1, <1>2, <1>3, RemoveFacts, NewPrompt DEF EmptyLine, Entered
<1>4. CASE Command
  <2>1. PICK out \in Outputs :
            Show(PrintPrompt(putchar(FoldLeft(printf, putchar(Console, "\n"), out), "\n")))
    BY <1>4 DEF Command
  <2>2. out \in Seq(Seq(Chars))
    <3>1. out \in Seq(Seq(STRING))
      BY TerminalAssumption
    <3>2. STRING \subseteq Chars
      BY DEF Chars
    <3>3. Seq(STRING) \subseteq Seq(Chars)
      BY <3>2, WiderTexts
    <3> QED BY <3>1, <3>3, WiderTexts
  <2> DEFINE a == FoldLeft(printf, putchar(Console, "\n"), out)
             b == putchar(a, "\n")
  <2>3. a \in Consoles
    BY <1>2, <2>2, PrintsFacts
  <2>4. b \in Consoles /\ RowStart(b.cursor)
    <3> HIDE DEF a
    <3> QED BY <2>3, CharFacts, PutcharFacts
  <2>5. Show(PrintPrompt(b)) /\ RemoveCommand
    BY <1>4, <2>1 DEF Command, Entered
  <2> HIDE DEF b
  <2> QED BY <1>1, <2>4, <2>5, RemoveFacts, NewPrompt
<1>5. CASE Clear_Command
  <2> DEFINE a == [cells |-> cleark, cursor |-> 0 - WIDTH]
             b == putchar(a, "\n")
  <2>1. a \in [cells : [Cells -> CellType], cursor : Cells \cup {0 - WIDTH}]
    <3>1. cleark \in [Cells -> CellType]
      BY BlankType DEF cleark
    <3> QED BY <3>1
  <2> HIDE DEF a
  <2>2. b = End(LineFeed(Begin(a)))
    BY DEF putchar
  <2>3. b \in Consoles /\ RowStart(b.cursor)
    BY <2>1, <2>2, FeedLine
  <2>4. Show(PrintPrompt(b)) /\ RemoveCommand
    BY <1>5 DEF Clear_Command, Entered, a
  <2> HIDE DEF b
  <2> QED BY <1>1, <2>3, <2>4, RemoveFacts, NewPrompt
<1>6. CASE shutdown
  <2> DEFINE a == printf(putchar(Console, "\n"), <<"?">>)
  <2>1. a \in Consoles
    <3>1. <<"?">> \in Seq(Chars)
      BY CharFacts, ShortTexts
    <3> QED BY <1>2, <3>1, PrintfFacts
  <2>2. Show(a) /\ UNCHANGED <<Buffer_Command, Length, tabs>> /\ pc' = "ask"
    BY <1>6 DEF shutdown, lineVars
  <2> HIDE DEF a
  <2>3. Console' = a
    BY <2>1, <2>2, Shown
  <2> QED BY <1>1, <2>1, <2>2, <2>3 DEF LineInv, LineTypes, AtPrompt
<1>7. CASE NoCommand
  <2> DEFINE a == printf(putchar(Console, "\n"), <<"?", "\n">>)
  <2>1. a \in Consoles /\ RowStart(a.cursor)
    <3>1. PICK text : text = <<"?", "\n">>
      OBVIOUS
    <3>2. text \in Seq(Chars) /\ text # <<>> /\ text[Len(text)] = "\n"
      BY <3>1, CharFacts, ShortTexts
    <3>3. printf(putchar(Console, "\n"), text) \in Consoles
          /\ RowStart(printf(putchar(Console, "\n"), text).cursor)
      BY <1>2, <3>2, PrintfFacts
    <3> QED BY <3>1, <3>3
  <2>2. Show(PrintPrompt(a)) /\ RemoveCommand
    BY <1>7 DEF NoCommand, Entered
  <2> HIDE DEF a
  <2> QED BY <1>1, <2>1, <2>2, RemoveFacts, NewPrompt
<1>8. CASE TestTask_Create
  <2> DEFINE b == putchar(putchar(Console, "\n"), "\n")
  <2>1. b \in Consoles /\ RowStart(b.cursor)
    BY <1>2, CharFacts, PutcharFacts
  <2>2. Show(PrintPrompt(b)) /\ RemoveCommand
    BY <1>8 DEF TestTask_Create, Entered
  <2> HIDE DEF b
  <2> QED BY <1>1, <2>1, <2>2, RemoveFacts, NewPrompt
<1> QED BY <1>3, <1>4, <1>5, <1>6, <1>7, <1>8

LEMMA AnswerLine ==
    ASSUME LineInv, RingInv, shutdown_Key
    PROVE  LineInv'
<1>1. LineTypes /\ Console \in Consoles
  BY DEF LineInv, LineTypes
<1>2. PICK key \in Chars : key = Key_Buf[GetIndex]
  BY CharFacts DEF RingInv, RingTypes
<1>3. putchar(Console, key) \in Consoles
  BY <1>1, PutcharFacts
<1> DEFINE a == printf(putchar(putchar(Console, key), "\n"), <<"?">>)
           b == putchar(printf(putchar(Console, key), <<"\n", "c", "\n">>), "\n")
<1>4. a \in Consoles
  <2>1. <<"?">> \in Seq(Chars)
    BY CharFacts, ShortTexts
  <2>2. putchar(putchar(Console, key), "\n") \in Consoles
    BY <1>3, CharFacts, PutcharFacts
  <2> QED BY <2>1, <2>2, PrintfFacts
<1>5. b \in Consoles /\ RowStart(b.cursor)
  <2>1. <<"\n", "c", "\n">> \in Seq(Chars)
    BY CharFacts, ShortTexts
  <2>2. printf(putchar(Console, key), <<"\n", "c", "\n">>) \in Consoles
    BY <1>3, <2>1, PrintfFacts
  <2> QED BY <2>2, CharFacts, PutcharFacts
<1>6. \/ pc' = "ask" /\ Show(a) /\ UNCHANGED lineVars
      \/ pc' = "get" /\ Show(PrintPrompt(b)) /\ RemoveCommand
      \/ pc' = "off" /\ UNCHANGED <<lineVars, consoleVars>>
  BY <1>2 DEF shutdown_Key
<1> HIDE DEF a, b
<1>7. CASE pc' = "ask" /\ Show(a) /\ UNCHANGED lineVars
  <2>1. Console' = a
    BY <1>4, <1>7, Shown
  <2> QED BY <1>1, <1>4, <1>7, <2>1 DEF LineInv, LineTypes, AtPrompt, lineVars
<1>8. CASE pc' = "get" /\ Show(PrintPrompt(b)) /\ RemoveCommand
  BY <1>1, <1>5, <1>8, RemoveFacts, NewPrompt
<1>9. CASE pc' = "off" /\ UNCHANGED <<lineVars, consoleVars>>
  BY <1>9, SameLine DEF AtPrompt
<1> QED BY <1>6, <1>7, <1>8, <1>9

LEMMA LineNext ==
    ASSUME LineInv, RingInv, [Next]_vars, ~printed'
    PROVE  LineInv'
<1>1. CASE GetKeyBuf
  BY <1>1, GetKeyLine
<1>2. CASE Ignored
  BY <1>2, SameLine DEF Ignored, Handling, AtPrompt
<1>3. CASE Character
  BY <1>3, CharacterLine
<1>4. CASE Erase
  BY <1>4, EraseSteps
<1>5. CASE Tab
  BY <1>5, TabLine
<1>6. CASE EmptyLine \/ NoCommand \/ Command \/ Clear_Command \/ TestTask_Create \/ shutdown
  BY <1>6, ReturnLine
<1>7. CASE shutdown_Count
  BY <1>7, SameLine DEF shutdown_Count, AtPrompt
<1>8. CASE shutdown_Key
  BY <1>8, AnswerLine
<1>9. CASE ShiftUp
  BY <1>9, SameLine DEF ShiftUp, AtPrompt
<1>10. ASSUME NEW scan \in ScanCodes, ISR_Keyboard(scan)
       PROVE  LineInv'
  BY <1>10, SameLine DEF ISR_Keyboard, AtPrompt
<1>11. CASE UNCHANGED vars
  BY <1>11, SameLine DEF vars, AtPrompt
<1>12. CASE TestTask
  BY <1>12 DEF TestTask
<1> QED BY <1>1, <1>2, <1>3, <1>4, <1>5, <1>6, <1>7, <1>8, <1>9, <1>10, <1>11, <1>12 DEF Next, Shell

\* What a test task has printed stays said.
LEMMA PrintedStays ==
    ASSUME [Next]_vars, printed
    PROVE  printed'
BY DEF Next, Shell, GetKeyBuf, Ignored, Character, Erase, Tab, EmptyLine, NoCommand, Command,
       Clear_Command, TestTask_Create, shutdown, shutdown_Count, shutdown_Key, TestTask, ShiftUp,
       ISR_Keyboard, Entered, Handling, taskVars, vars

TerminalInv == RingInv /\ (~printed => LineInv)

(* The invariant of the ring, and of the line until a test task writes to  *)
(* the screen.                                                             *)
THEOREM TerminalInvariant == Spec => []TerminalInv
<1>1. Init => TerminalInv
  BY RingInit, LineInit DEF TerminalInv
<1>2. TerminalInv /\ [Next]_vars => TerminalInv'
  BY RingNext, LineNext, PrintedStays DEF TerminalInv
<1> QED BY <1>1, <1>2, PTL DEF Spec

(* What stands between the prompt and the cursor is the line that Enter    *)
(* will run if no tab was typed in it, on every screen that a line and its *)
(* prompt fit on, whatever of the commands' texts is lost below it, until  *)
(* a test task prints.                                                     *)
THEOREM LineShown == Spec => []LineIsOnScreen
<1>1. ASSUME LineInv, AtPrompt, tabs = 0
      PROVE  /\ Length < g_Cursor
             /\ \A k \in 0 .. Length - 1 : screen[g_Cursor - Length + k] = Cell(Buffer_Command[k])
             /\ screen[g_Cursor - Length - 1] = [char |-> ">", color |-> "PATH"]
  <2>1. PICK s \in Cells : LineAt(s)
    BY <1>1 DEF LineInv
  <2>2. s \in Nat /\ Length \in Nat /\ g_Cursor = s + 2 + Length
    <3>1. s \in Nat /\ Length \in Nat
      BY <1>1, <2>1, CellNat DEF LineInv, LineTypes
    <3>2. g_Cursor \in s + 2 + Length .. s + 2 + Length + 0
      BY <1>1, <2>1 DEF LineAt
    <3> QED BY <3>1, <3>2
  <2>3. g_Cursor - Length = s + 2 /\ g_Cursor - Length - 1 = s + 1 /\ Length < g_Cursor
    BY <2>2
  <2>4. \A k \in 0 .. Length - 1 : screen[s + 2 + k] = Cell(Buffer_Command[k])
    BY <1>1, <2>1 DEF LineAt
  <2>5. screen[s + 1] = [char |-> ">", color |-> "PATH"]
    BY <2>1, ConsoleParts DEF LineAt, PromptAt
  <2> QED BY <2>3, <2>4, <2>5
<1>2. TerminalInv => LineIsOnScreen
  BY <1>1 DEF LineIsOnScreen, TerminalInv
<1> QED BY <1>2, TerminalInvariant, PTL

(* The prompt stays on the screen while its line is typed, however far the *)
(* screen scrolls, until a test task prints.                               *)
THEOREM PromptStays == Spec => []PromptKept
<1>1. ASSUME LineInv, AtPrompt
      PROVE  \E from \in Cells :
                 /\ from + Len(Prompt) \in g_Cursor - Length - tabs .. g_Cursor - Length
                 /\ \A n \in 1 .. Len(Prompt) :
                        screen[from + n - 1] = [char |-> Prompt[n], color |-> "PATH"]
  <2>1. PICK s \in Cells : LineAt(s)
    BY <1>1 DEF LineInv
  <2>2. s \in Nat /\ Length \in Nat /\ tabs \in Nat /\ g_Cursor \in s + 2 + Length .. s + 2 + Length + tabs
    BY <1>1, <2>1, CellNat, ScreenFacts DEF LineInv, LineTypes, LineAt
  <2>3. s + 2 \in g_Cursor - Length - tabs .. g_Cursor - Length
    BY <2>2
  <2>4. ASSUME NEW n \in 1 .. 2
        PROVE  screen[s + n - 1] = [char |-> Prompt[n], color |-> "PATH"]
    <3>1. screen[s] = [char |-> "root", color |-> "PATH"] /\ screen[s + 1] = [char |-> ">", color |-> "PATH"]
      BY <2>1, ConsoleParts DEF LineAt, PromptAt
    <3>2. CASE n = 1
      <4>1. s + n - 1 = s
        BY <2>2, <3>2
      <4> QED BY <3>1, <3>2, <4>1, ScreenFacts
    <3>3. CASE n = 2
      <4>1. s + n - 1 = s + 1
        BY <2>2, <3>3
      <4> QED BY <3>1, <3>3, <4>1, ScreenFacts
    <3> QED BY <3>2, <3>3
  <2>5. Len(Prompt) = 2
    BY ScreenFacts
  <2> QED BY <2>3, <2>4, <2>5
<1>2. TerminalInv => PromptKept
  BY <1>1 DEF PromptKept, TerminalInv
<1> QED BY <1>2, TerminalInvariant, PTL

(* A backspace shortens the line only if it erases the cell before the     *)
(* cursor, so what is erased and what is shown never part, until a test    *)
(* task prints.                                                            *)
THEOREM ErasesWhatItShortens == Spec => BackspaceErases
<1>1. ASSUME LineInv, Erase, Length' < Length
      PROVE  g_Cursor' = g_Cursor - 1
  <2>1. Length > 0
    BY <1>1, ScreenFacts DEF LineInv, LineTypes, Erase
  <2> QED BY <1>1, <2>1, EraseSteps
<1>2. TerminalInv /\ [Next]_vars
         => [~printed /\ Erase /\ Length' < Length => g_Cursor' = g_Cursor - 1]_vars
  BY <1>1 DEF TerminalInv
<1> QED BY <1>2, TerminalInvariant, PTL DEF Spec, BackspaceErases
=============================================================================
