--------------------------- MODULE DiskDriverProofs ---------------------------
(***************************************************************************)
(* The disk driver for every size of the disk and of a call.  Types and    *)
(* mutex hold with any drive (Basic).  That a transfer finds the drive     *)
(* ready, until the drive misleads the driver, is not inductive: it        *)
(* depends on the interrupt flag being clear whenever the driver goes on   *)
(* to wait for it (FlagInv), hence on the sectors the drive has left       *)
(* (Accounts) and on its phase at every place of a call (PhaseInv).        *)
(***************************************************************************)
EXTENDS DiskDriver, TLAPS, SequenceTheorems

Transferring == at \in {"look", "wait", "transfer"}
\* The drive has answered IDENTIFY with an error.
Refused == at = "wait" /\ call = Identify /\ phase = "idle" /\ error /\ left = 0

CallInv ==
    /\ call \in Calls => call.lba + call.count < Sectors
    /\ call = NoCall <=> at \in {"idle", "stopped"}
    /\ call = Identify => at # "acquire"

\* What was moved and what the drive has left make up the call.
Progress ==
    /\ Len(moved) = i
    /\ \A k \in 1 .. i : moved[k] = call.lba + k - 1
Accounts ==
    /\ Transferring \/ at = "release" => Progress
    /\ Transferring /\ ~Refused =>
          left = call.count - i /\ left > 0 /\ next = call.lba + i /\ command = call.kind /\ ~error
    /\ at = "release" => left = 0 /\ i = call.count
    /\ at \in {"acquire", "poll_busy", "poll_ready", "command"} => i = 0 /\ moved = <<>> /\ ~ahead

PhaseInv ==
    /\ Transferring => phase \in {"busy", "data"} \/ Refused
    /\ ~Transferring => phase # "data" /\ (phase = "busy" => left = 0)
    /\ at = "poll_ready" => phase # "busy"
    /\ at = "command" => phase = "idle"

FlagInv ==
    /\ Transferring /\ phase # "data" => ~intrq
    /\ Transferring /\ ~ahead /\ phase # "data" => ~IsInteruppted
    /\ at = "look" => call # Identify /\ (FirstOfWrite => ~IsInteruppted /\ ~intrq /\ ~ahead)
    /\ at = "wait" => ~FirstOfWrite /\ ~ahead
    /\ at = "transfer" => phase = "data" /\ ~intrq /\ (~ahead => ~IsInteruppted)

DInv == TypeOK /\ CallInv /\ Accounts /\ PhaseInv /\ FlagInv /\ MutexHeldInCall

\* What no drive can upset.
Counts ==
    /\ next + left < Sectors
    /\ phase = "data" => left > 0
    /\ at \in {"acquire", "poll_busy", "poll_ready", "command"} => i = 0
    /\ Transferring => i < call.count
Basic == TypeOK /\ CallInv /\ Counts /\ MutexHeldInCall

IInv == Basic /\ (~misled => DInv)

-----------------------------------------------------------------------------
(* The calls, and a sector added to those moved.                           *)

LEMMA CallFacts ==
    /\ \A c \in Calls : /\ c.kind \in {"read", "write"} /\ c.lba \in 0 .. Sectors
                        /\ c.count \in 1 .. MaxCount /\ c # NoCall /\ c # Identify
    /\ NoCall.kind = "none"
    /\ Identify.kind = "identify" /\ Identify.lba = 0 /\ Identify.count = 1
    /\ NoCall # Identify
<1>1. \A c \in Calls : c.kind \in {"read", "write"} /\ c.lba \in 0 .. Sectors /\ c.count \in 1 .. MaxCount
  BY DEF Calls
<1>2. NoCall.kind = "none" /\ Identify.kind = "identify" /\ Identify.lba = 0 /\ Identify.count = 1
  BY DEF NoCall, Identify
<1> QED
  BY <1>1, <1>2

LEMMA AppendFacts ==
    ASSUME NEW S, NEW s \in Seq(S), NEW x \in S
    PROVE  /\ Append(s, x) \in Seq(S)
           /\ Len(Append(s, x)) = Len(s) + 1
           /\ \A k \in 1 .. Len(s) : Append(s, x)[k] = s[k]
           /\ Append(s, x)[Len(s) + 1] = x
BY AppendProperties

LEMMA InitDInv == Init => DInv
<1> SUFFICES ASSUME Init PROVE DInv
  OBVIOUS
<1>1. call = Identify /\ call \notin Calls /\ call # NoCall
  BY CallFacts DEF Init
<1>2. TypeOK
  <2>1. moved \in Seq(0 .. Sectors - 1 \cup {Garbage})
    BY EmptySeq DEF Init
  <2>2. at \in Places /\ i \in 0 .. MaxCount /\ left \in 0 .. MaxCount /\ next \in 0 .. Sectors - 1
    BY DiskAssumption DEF Init, Places
  <2>3. TotalSectors \in 0 .. Sectors
    BY DiskAssumption DEF Init
  <2> QED
    BY <1>1, <2>1, <2>2, <2>3 DEF Init, TypeOK
<1> QED
  BY <1>1, <1>2, CallFacts DEF Init, DInv, CallInv, Accounts, PhaseInv, FlagInv, MutexHeldInCall,
      Transferring, Refused

-----------------------------------------------------------------------------
(* Before the transfer.                                                    *)

LEMMA RequestKeeps ==
    ASSUME DInv, Request
    PROVE  DInv'
<1>1. at = "idle" /\ at' = "acquire" /\ call = NoCall
  BY DEF DInv, CallInv, Request, DriverAt, Goto
<1>2. call' \in Calls /\ call'.lba + call'.count < Sectors
  <2>1. PICK c \in Calls : InRange(c) /\ call' = c
    BY DEF Request
  <2>2. TotalSectors \in 0 .. Sectors
    BY DEF DInv, TypeOK
  <2> QED
    BY <2>1, <2>2, CallFacts, DiskAssumption DEF InRange
<1>3. call' # NoCall /\ call' # Identify /\ call'.kind # "identify"
  BY <1>2, CallFacts
<1>4. TypeOK'
  <2>1. moved' \in Seq(0 .. Sectors - 1 \cup {Garbage})
    BY EmptySeq DEF Request
  <2>2. at' \in Places
    BY <1>1 DEF Places
  <2>3. i' = 0 /\ ahead' = FALSE /\ 0 \in 0 .. MaxCount
    BY DiskAssumption DEF Request
  <2>4. call' \in Calls \cup {NoCall, Identify}
    BY <1>2
  <2> QED
    BY <2>1, <2>2, <2>3, <2>4 DEF DInv, TypeOK, Request, driveVars
<1>5. /\ i' = 0 /\ moved' = <<>> /\ ahead' = FALSE
      /\ UNCHANGED <<IsInteruppted, Disk_Mutex, misled, phase, left, intrq>>
  BY DEF Request, driveVars
<1>6. CallInv'
  BY <1>1, <1>2, <1>3 DEF CallInv
<1>7. Accounts' /\ PhaseInv' /\ FlagInv'
  BY <1>1, <1>5 DEF DInv, Accounts, PhaseInv, FlagInv, Transferring, Refused
<1>8. MutexHeldInCall'
  BY <1>1, <1>3, <1>5 DEF DInv, MutexHeldInCall
<1> QED
  BY <1>4, <1>6, <1>7, <1>8 DEF DInv

LEMMA AcquireKeeps ==
    ASSUME DInv, Acquire
    PROVE  DInv'
<1>1. /\ at = "acquire" /\ at' = "poll_busy" /\ Disk_Mutex' = 0
      /\ UNCHANGED <<call, i, IsInteruppted, TotalSectors, moved, ahead, misled, phase, command,
                     left, next, error, intrq>>
  BY DEF Acquire, DriverAt, Goto, driveVars
<1>2. call \in Calls /\ call.kind # "identify"
  BY <1>1, CallFacts DEF DInv, CallInv, TypeOK
<1>3. TypeOK'
  BY <1>1 DEF DInv, TypeOK, Places
<1>4. CallInv'
  BY <1>1, <1>2 DEF DInv, CallInv
<1>5. Accounts' /\ PhaseInv' /\ FlagInv'
  BY <1>1 DEF DInv, Accounts, PhaseInv, FlagInv, Transferring, Refused
<1>6. MutexHeldInCall'
  BY <1>1, <1>2 DEF DInv, MutexHeldInCall
<1> QED
  BY <1>3, <1>4, <1>5, <1>6 DEF DInv

LEMMA PollKeeps ==
    ASSUME DInv, PollBusy \/ PollReady
    PROVE  DInv'
<1>1. /\ \/ at = "poll_busy" /\ at' = "poll_ready" /\ phase # "busy"
         \/ at = "poll_ready" /\ at' = "command" /\ phase # "spinup"
         \/ at \in {"poll_busy", "poll_ready"} /\ at' = "fail"
      /\ UNCHANGED <<call, i, IsInteruppted, TotalSectors, Disk_Mutex, moved, ahead, misled, phase,
                     command, left, next, error, intrq>>
  BY DEF PollBusy, PollReady, Poll, BSY, RDY, DriverAt, Goto, driveVars
<1>2. TypeOK'
  BY <1>1 DEF DInv, TypeOK, Places
<1>3. CallInv'
  BY <1>1 DEF DInv, CallInv
<1>4. Accounts' /\ FlagInv'
  BY <1>1 DEF DInv, Accounts, FlagInv, Transferring, Refused
<1>5. PhaseInv'
  BY <1>1 DEF DInv, PhaseInv, TypeOK, Transferring
<1>6. MutexHeldInCall'
  BY <1>1 DEF DInv, MutexHeldInCall
<1> QED
  BY <1>2, <1>3, <1>4, <1>5, <1>6 DEF DInv

LEMMA CommandKeeps ==
    ASSUME DInv, Command
    PROVE  DInv'
<1>1. /\ at = "command" /\ at' = IF call.kind = "identify" THEN "wait" ELSE "look"
      /\ IsInteruppted' = FALSE /\ intrq = FALSE /\ phase' = "busy" /\ command' = call.kind
      /\ error' = FALSE /\ left' = call.count /\ next' = call.lba
      /\ UNCHANGED <<call, i, TotalSectors, Disk_Mutex, intrq, moved, ahead, misled>>
  BY DEF DInv, TypeOK, Command, DriverAt, Goto
<1>2. /\ call \in Calls \/ call = Identify
      /\ call.kind \in {"read", "write", "identify"}
      /\ call.lba \in 0 .. Sectors - 1 /\ call.count \in 1 .. MaxCount
      /\ call.kind = "identify" <=> call = Identify
  <2>1. call \in Calls \/ call = Identify
    BY <1>1 DEF DInv, TypeOK, CallInv
  <2>2. CASE call \in Calls
    BY <2>2, CallFacts, DiskAssumption DEF DInv, CallInv
  <2>3. CASE call = Identify
    BY <2>3, CallFacts, DiskAssumption
  <2> QED
    BY <2>1, <2>2, <2>3
<1>3. i = 0 /\ moved = <<>> /\ ahead = FALSE
  BY <1>1 DEF DInv, TypeOK, Accounts
<1>4. TypeOK'
  <2>1. at' \in Places
    BY <1>1, <1>2 DEF Places
  <2>2. left' \in 0 .. MaxCount /\ next' \in 0 .. Sectors - 1
    BY <1>1, <1>2, DiskAssumption
  <2>3. command' \in {"none", "identify", "read", "write"} /\ phase' \in {"idle", "spinup", "busy", "data"}
    BY <1>1, <1>2
  <2>4. error' \in BOOLEAN /\ IsInteruppted' \in BOOLEAN
    BY <1>1
  <2> QED
    BY <1>1, <2>1, <2>2, <2>3, <2>4 DEF DInv, TypeOK
<1>5. CallInv'
  BY <1>1 DEF DInv, CallInv
<1>6. Accounts'
  BY <1>1, <1>2, <1>3, DiskAssumption DEF Accounts, Progress, Transferring, Refused
<1>7. PhaseInv'
  BY <1>1, <1>2 DEF PhaseInv, Transferring
<1>8. FlagInv'
  BY <1>1, <1>2, <1>3 DEF FlagInv, Transferring, FirstOfWrite
<1>9. MutexHeldInCall'
  BY <1>1 DEF DInv, MutexHeldInCall
<1> QED
  BY <1>4, <1>5, <1>6, <1>7, <1>8, <1>9 DEF DInv

LEMMA LookKeeps ==
    ASSUME DInv, ~misled', Look
    PROVE  DInv'
<1>1. /\ at = "look" /\ at' = IF phase = "data" THEN "transfer" ELSE "wait"
      /\ intrq = FALSE
      /\ FirstOfWrite \/ ahead => phase = "data"
      /\ ahead' = (phase = "data" /\ ~FirstOfWrite)
      /\ misled' = FALSE
      /\ UNCHANGED <<call, i, IsInteruppted, TotalSectors, Disk_Mutex, moved, phase, command, left, next,
                     error, intrq>>
  BY DEF DInv, TypeOK, Look, Misleading, DRQ, DriverAt, Goto, driveVars
<1>2. TypeOK'
  BY <1>1 DEF DInv, TypeOK, Places
<1>3. CallInv'
  BY <1>1 DEF DInv, CallInv
<1>4. Accounts' /\ PhaseInv'
  BY <1>1 DEF DInv, Accounts, PhaseInv, Progress, Transferring, Refused
<1>5. FlagInv'
  BY <1>1 DEF DInv, TypeOK, FlagInv, PhaseInv, Transferring, Refused, FirstOfWrite
<1>6. MutexHeldInCall'
  BY <1>1 DEF DInv, MutexHeldInCall
<1> QED
  BY <1>2, <1>3, <1>4, <1>5, <1>6 DEF DInv

LEMMA WaitKeeps ==
    ASSUME DInv, Wait
    PROVE  DInv'
<1>1. /\ at = "wait" /\ intrq = FALSE
      /\ UNCHANGED <<call, i, TotalSectors, Disk_Mutex, moved, ahead, misled, phase, command,
                     left, next, error, intrq>>
      /\ \/ IsInteruppted /\ IsInteruppted' = FALSE /\ at' = "transfer"
         \/ call.kind = "identify" /\ error /\ at' = "fail" /\ UNCHANGED IsInteruppted
  BY DEF DInv, TypeOK, Wait, DriverAt, Goto, driveVars
<1>2. TypeOK'
  <2>1. at' \in Places /\ IsInteruppted' \in BOOLEAN
    BY <1>1 DEF DInv, TypeOK, Places
  <2> QED BY <1>1, <2>1 DEF DInv, TypeOK
<1>3. CallInv'
  BY <1>1 DEF DInv, CallInv
<1>4. ~ahead
  BY <1>1 DEF DInv, FlagInv
<1>5. at' = "transfer" => phase = "data"
  BY <1>1, <1>4 DEF DInv, FlagInv, Transferring
<1>6. at' = "fail" => Refused
  BY <1>1 DEF DInv, Accounts, Transferring
<1>7. Accounts' /\ PhaseInv'
  BY <1>1, <1>5, <1>6 DEF DInv, Accounts, PhaseInv, Progress, Transferring, Refused
<1>8. FlagInv'
  BY <1>1, <1>4, <1>5 DEF DInv, FlagInv, Transferring
<1>9. MutexHeldInCall'
  BY <1>1 DEF DInv, MutexHeldInCall
<1> QED
  BY <1>2, <1>3, <1>7, <1>8, <1>9 DEF DInv

-----------------------------------------------------------------------------
(* The transfer, and the ways out of a call.                               *)

LEMMA TransferKeeps ==
    ASSUME DInv, Transfer
    PROVE  DInv'
<1>1. at = "transfer" /\ phase = "data" /\ intrq = FALSE
  BY DEF DInv, TypeOK, FlagInv, Transfer, DriverAt
<1>2. /\ moved' = Append(moved, next)
      /\ left' = left - 1 /\ next' = next + 1
      /\ phase' = IF command # "write" /\ left = 1 THEN "idle" ELSE "busy"
      /\ i' = i + 1
      /\ TotalSectors' \in {TotalSectors, Sectors} /\ misled' = misled
      /\ at' = IF i + 1 >= call.count THEN "release" ELSE "look"
      /\ UNCHANGED <<call, IsInteruppted, Disk_Mutex, ahead, command, error, intrq>>
  BY <1>1 DEF Transfer, SectorDone, LastSector, DRQ, Goto
<1>3. /\ left = call.count - i /\ left > 0 /\ next = call.lba + i /\ command = call.kind /\ ~error
      /\ Progress
  BY <1>1 DEF DInv, Accounts, Transferring, Refused
<1>4. /\ call \in Calls \/ call = Identify
      /\ call.kind \in {"read", "write", "identify"}
      /\ call.lba \in Nat /\ call.count \in 1 .. MaxCount
      /\ call.lba + call.count <= Sectors - 1
      /\ call.kind = "identify" <=> call = Identify
  <2>1. call \in Calls \/ call = Identify
    BY <1>1 DEF DInv, TypeOK, CallInv
  <2>2. CASE call \in Calls
    BY <2>2, CallFacts, DiskAssumption DEF DInv, CallInv
  <2>3. CASE call = Identify
    BY <2>3, CallFacts, DiskAssumption
  <2> QED
    BY <2>1, <2>2, <2>3
<1>5. i \in Nat /\ i < call.count /\ next \in 0 .. Sectors - 1
  BY <1>3, <1>4 DEF DInv, TypeOK
<1>6. moved' \in Seq(0 .. Sectors - 1 \cup {Garbage}) /\ Progress'
  <2>1. moved \in Seq(0 .. Sectors - 1 \cup {Garbage}) /\ next \in 0 .. Sectors - 1 \cup {Garbage}
    BY <1>5 DEF DInv, TypeOK
  <2>2. /\ moved' \in Seq(0 .. Sectors - 1 \cup {Garbage})
        /\ Len(moved') = Len(moved) + 1
        /\ \A k \in 1 .. Len(moved) : moved'[k] = moved[k]
        /\ moved'[Len(moved) + 1] = next
    BY <1>2, <2>1, AppendFacts
  <2>3. Len(moved) = i /\ \A k \in 1 .. i : moved[k] = call.lba + k - 1
    BY <1>3 DEF Progress
  <2>4. \A k \in 1 .. i + 1 : moved'[k] = call.lba + k - 1
    <3> TAKE k \in 1 .. i + 1
    <3>1. CASE k = i + 1
      BY <1>3, <1>4, <1>5, <2>2, <2>3, <3>1
    <3>2. CASE k \in 1 .. i
      BY <2>2, <2>3, <3>2
    <3> QED
      BY <1>5, <3>1, <3>2
  <2> QED
    BY <1>2, <2>2, <2>3, <2>4 DEF Progress
<1>7. TypeOK'
  <2>1. at' \in Places /\ phase' \in {"idle", "spinup", "busy", "data"} /\ TotalSectors' \in 0 .. Sectors
    BY <1>2, DiskAssumption DEF DInv, TypeOK, Places
  <2>2. i' \in 0 .. MaxCount /\ left' \in 0 .. MaxCount
    <3>1. i' = i + 1 /\ left' = left - 1
      BY <1>2
    <3> QED
      BY <1>3, <1>4, <1>5, <3>1, DiskAssumption
  <2>3. next' \in 0 .. Sectors - 1
    <3>1. next' = next + 1
      BY <1>2
    <3>2. next = call.lba + i
      BY <1>3
    <3> QED
      BY <1>4, <1>5, <3>1, <3>2, DiskAssumption
  <2> QED
    BY <1>2, <1>6, <2>1, <2>2, <2>3 DEF DInv, TypeOK
<1>8. CallInv'
  BY <1>1, <1>2, <1>4 DEF DInv, CallInv
<1>9. Accounts'
  <2>1. CASE i + 1 >= call.count
    <3>1. left' = 0 /\ i' = call'.count /\ at' = "release"
      BY <1>2, <1>3, <1>4, <1>5, <2>1
    <3> QED
      BY <1>6, <3>1 DEF Accounts, Transferring
  <2>2. CASE ~(i + 1 >= call.count)
    <3>1. left' = call'.count - i' /\ left' > 0
      BY <1>2, <1>3, <1>4, <1>5, <2>2
    <3>2. next' = call'.lba + i'
      BY <1>2, <1>3, <1>4, <1>5
    <3>3. command' = call'.kind /\ ~error' /\ at' = "look"
      BY <1>2, <1>3, <2>2
    <3> QED
      BY <1>6, <3>1, <3>2, <3>3 DEF Accounts, Transferring
  <2> QED
    BY <2>1, <2>2
<1>10. call = Identify => i + 1 >= call.count
  BY <1>5, CallFacts
<1>11. PhaseInv'
  <2>1. CASE i + 1 >= call.count
    BY <1>2, <1>3, <1>4, <1>5, <2>1 DEF PhaseInv, Transferring
  <2>2. CASE ~(i + 1 >= call.count)
    BY <1>2, <1>3, <1>4, <1>5, <2>2 DEF PhaseInv, Transferring
  <2> QED
    BY <2>1, <2>2
<1>12. FlagInv'
  BY <1>1, <1>2, <1>5, <1>10 DEF DInv, FlagInv, Transferring, FirstOfWrite
<1>13. MutexHeldInCall'
  BY <1>1, <1>2 DEF DInv, MutexHeldInCall
<1> QED
  BY <1>7, <1>8, <1>9, <1>11, <1>12, <1>13 DEF DInv

LEMMA ReturnOrFailKeeps ==
    ASSUME DInv, Return \/ Fail
    PROVE  DInv'
<1>1. /\ at \in {"release", "fail"} /\ at' \in {"idle", "stopped"} /\ call' = NoCall
      /\ Disk_Mutex' = IF call.kind = "identify" THEN Disk_Mutex ELSE 1
      /\ UNCHANGED <<i, IsInteruppted, TotalSectors, moved, ahead, misled, phase, command, left, next, error, intrq>>
  BY DEF Return, Fail, ReleaseMutex, DriverAt, Goto, driveVars
<1>2. TypeOK'
  BY <1>1 DEF DInv, TypeOK, Places
<1>3. CallInv'
  BY <1>1, CallFacts DEF CallInv
<1>4. Accounts' /\ PhaseInv' /\ FlagInv'
  BY <1>1 DEF DInv, Accounts, PhaseInv, FlagInv, Transferring, Refused
<1>5. MutexHeldInCall'
  BY <1>1 DEF DInv, MutexHeldInCall
<1> QED
  BY <1>2, <1>3, <1>4, <1>5 DEF DInv

-----------------------------------------------------------------------------
(* The interrupt and the drive.                                            *)

LEMMA InterruptKeeps ==
    ASSUME DInv, ISR_HardDisk
    PROVE  DInv'
<1>1. /\ intrq /\ IsInteruppted' = TRUE /\ intrq' = FALSE
      /\ UNCHANGED <<call, at, i, TotalSectors, Disk_Mutex, moved, ahead, misled, phase, command, left, next, error>>
  BY DEF ISR_HardDisk
<1>2. TypeOK'
  BY <1>1 DEF DInv, TypeOK
<1>3. CallInv' /\ MutexHeldInCall'
  BY <1>1 DEF DInv, CallInv, MutexHeldInCall
<1>4. Accounts' /\ PhaseInv'
  BY <1>1 DEF DInv, Accounts, PhaseInv, Progress, Transferring, Refused
<1>5. FlagInv'
  BY <1>1 DEF DInv, FlagInv, Transferring, FirstOfWrite
<1> QED
  BY <1>2, <1>3, <1>4, <1>5 DEF DInv

LEMMA DriveKeeps ==
    ASSUME DInv, ~misled', Drive \/ DriveStandby \/ DriveError
    PROVE  DInv'
<1>1. UNCHANGED <<call, at, i, IsInteruppted, TotalSectors, Disk_Mutex, moved, ahead, command, next>>
     /\ misled' \in BOOLEAN
  BY DEF DInv, TypeOK, Drive, DriveReady, DriveFinish, DriveSpinUp, DriveStandby, DriveError, driverVars
<1>2. CallInv' /\ MutexHeldInCall'
  BY <1>1 DEF DInv, CallInv, MutexHeldInCall
<1>3. Progress => Progress'
  BY <1>1 DEF Progress
<1>4. Transferring' = Transferring /\ FirstOfWrite' = FirstOfWrite
  BY <1>1 DEF Transferring, FirstOfWrite
<1>5. CASE DriveReady
  <2>1. /\ phase = "busy" /\ left > 0 /\ phase' = "data" /\ intrq' = ~FirstOfWrite
        /\ UNCHANGED <<left, error>>
    BY <1>5 DEF DriveReady
  <2>2. TypeOK'
    BY <1>1, <2>1 DEF DInv, TypeOK, FirstOfWrite
  <2>3. Transferring
    BY <2>1 DEF DInv, TypeOK, PhaseInv
  <2>4. Accounts' /\ PhaseInv'
    BY <1>1, <1>3, <1>4, <2>1, <2>3 DEF DInv, Accounts, PhaseInv, Transferring, Refused
  <2>5. FlagInv'
    BY <1>1, <1>4, <2>1, <2>3 DEF DInv, FlagInv, Transferring
  <2> QED
    BY <1>2, <2>2, <2>4, <2>5 DEF DInv
<1>6. CASE DriveFinish \/ DriveSpinUp \/ DriveStandby
  <2>1. /\ \/ phase = "busy" /\ left = 0
           \/ phase \in {"spinup", "idle"} /\ (phase = "idle" => at = "idle") /\ intrq' = intrq
        /\ phase' = "idle" \/ (phase' = "spinup" /\ at = "idle")
        /\ intrq' \in BOOLEAN
        /\ UNCHANGED <<left, error>>
    BY <1>6 DEF DInv, TypeOK, DriveFinish, DriveSpinUp, DriveStandby
  <2>2. TypeOK'
    BY <1>1, <2>1 DEF DInv, TypeOK
  <2>3. ~Transferring
    BY <2>1 DEF DInv, Accounts, PhaseInv, Transferring, Refused
  <2>4. Accounts' /\ PhaseInv' /\ FlagInv'
    BY <1>1, <1>3, <1>4, <2>1, <2>3 DEF DInv, Accounts, PhaseInv, FlagInv, Transferring
  <2> QED
    BY <1>2, <2>2, <2>4 DEF DInv
<1>7. CASE DriveError
  <2>1. /\ error' = TRUE /\ ~error
        /\ \/ phase \in {"spinup", "busy"} /\ (phase = "busy" => left = 0) /\ UNCHANGED <<phase, left, intrq>>
           \/ phase = "busy" /\ command = "identify" /\ phase' = "idle" /\ left' = 0 /\ intrq' = FALSE
    BY <1>7 DEF DriveError
  <2>2. TypeOK'
    <3>1. left' \in 0 .. MaxCount
      BY <2>1, DiskAssumption DEF DInv, TypeOK
    <3>2. phase' \in {"idle", "spinup", "busy", "data"} /\ intrq' \in BOOLEAN /\ error' \in BOOLEAN
      BY <2>1 DEF DInv, TypeOK
    <3> QED
      BY <1>1, <3>1, <3>2 DEF DInv, TypeOK
  <2>3. CASE ~Transferring
    <3>1. Accounts' /\ PhaseInv' /\ FlagInv'
      BY <1>1, <1>3, <1>4, <2>1, <2>3 DEF DInv, Accounts, PhaseInv, FlagInv, Transferring
    <3> QED
      BY <1>2, <2>2, <3>1 DEF DInv
  <2>4. CASE Transferring
    <3>1. left > 0 /\ command = call.kind
      BY <2>1, <2>4 DEF DInv, Accounts, Refused
    <3>2. phase = "busy" /\ command = "identify" /\ phase' = "idle" /\ left' = 0 /\ intrq' = FALSE
      BY <2>1, <2>4, <3>1 DEF DInv, TypeOK, PhaseInv, Refused
    <3>3. call = Identify
      BY <3>1, <3>2, CallFacts DEF DInv, TypeOK
    <3>4. at = "wait"
      BY <2>4, <3>2, <3>3 DEF DInv, FlagInv, Transferring
    <3>5. Refused'
      BY <1>1, <2>1, <3>2, <3>3, <3>4 DEF Refused
    <3>6. ~IsInteruppted /\ ~ahead /\ ~FirstOfWrite
      BY <2>4, <3>2, <3>4 DEF DInv, FlagInv
    <3>7. Accounts' /\ PhaseInv'
      BY <1>1, <1>3, <1>4, <2>4, <3>4, <3>5 DEF DInv, Accounts, PhaseInv, Transferring
    <3>8. FlagInv'
      BY <1>1, <1>4, <3>2, <3>4, <3>6 DEF FlagInv
    <3> QED
      BY <1>2, <2>2, <3>7, <3>8 DEF DInv
  <2> QED
    BY <2>3, <2>4
<1> QED
  BY <1>5, <1>6, <1>7 DEF Drive

LEMMA StutterKeeps == DInv /\ UNCHANGED vars => DInv'
<1> SUFFICES ASSUME DInv, UNCHANGED vars PROVE DInv'
  OBVIOUS
<1>1. UNCHANGED <<call, at, i, IsInteruppted, TotalSectors, Disk_Mutex, moved, ahead, misled, phase,
                  command, left, next, error, intrq>>
  BY DEF vars, driverVars, driveVars
<1>2. TypeOK' /\ CallInv' /\ MutexHeldInCall'
  BY <1>1 DEF DInv, TypeOK, CallInv, MutexHeldInCall
<1>3. Accounts' /\ PhaseInv' /\ FlagInv'
  BY <1>1 DEF DInv, Accounts, PhaseInv, FlagInv, Progress, Transferring, Refused, FirstOfWrite
<1> QED
  BY <1>2, <1>3 DEF DInv

LEMMA StepKeeps == DInv /\ ~misled' /\ [Next]_vars => DInv'
<1> SUFFICES ASSUME DInv, ~misled', [Next]_vars PROVE DInv'
  OBVIOUS
<1>1. CASE Request
  BY <1>1, RequestKeeps
<1>2. CASE Acquire
  BY <1>2, AcquireKeeps
<1>3. CASE PollBusy \/ PollReady
  BY <1>3, PollKeeps
<1>4. CASE Command
  BY <1>4, CommandKeeps
<1>5. CASE Look
  BY <1>5, LookKeeps
<1>6. CASE Wait
  BY <1>6, WaitKeeps
<1>7. CASE Transfer
  BY <1>7, TransferKeeps
<1>8. CASE Return \/ Fail
  BY <1>8, ReturnOrFailKeeps
<1>9. CASE ISR_HardDisk
  BY <1>9, InterruptKeeps
<1>10. CASE Drive \/ DriveStandby \/ DriveError
  BY <1>10, DriveKeeps
<1>11. CASE UNCHANGED vars
  BY <1>11, StutterKeeps
<1> QED
  BY <1>1, <1>2, <1>3, <1>4, <1>5, <1>6, <1>7, <1>8, <1>9, <1>10, <1>11 DEF Next, Driver

-----------------------------------------------------------------------------
(* What no drive can upset.                                                *)

LEMMA RequestBasic ==
    ASSUME Basic, Request
    PROVE  Basic'
<1>1. at = "idle" /\ at' = "acquire" /\ call = NoCall
  BY DEF Basic, CallInv, Request, DriverAt, Goto
<1>2. call' \in Calls /\ call'.lba + call'.count < Sectors
  <2>1. PICK c \in Calls : InRange(c) /\ call' = c
    BY DEF Request
  <2>2. TotalSectors \in 0 .. Sectors
    BY DEF Basic, TypeOK
  <2> QED BY <2>1, <2>2, CallFacts, DiskAssumption DEF InRange
<1>3. call' # NoCall /\ call' # Identify /\ call'.kind # "identify"
  BY <1>2, CallFacts
<1>4. /\ i' = 0 /\ moved' = <<>> /\ ahead' = FALSE /\ 0 \in 0 .. MaxCount
      /\ UNCHANGED <<IsInteruppted, TotalSectors, Disk_Mutex, misled, phase, command, left, next, error, intrq>>
  BY DiskAssumption DEF Request, driveVars
<1>5. moved' \in Seq(0 .. Sectors - 1 \cup {Garbage})
  BY <1>4, EmptySeq
<1>6. TypeOK'
  BY <1>1, <1>2, <1>4, <1>5 DEF Basic, TypeOK, Places
<1>7. CallInv'
  BY <1>1, <1>2, <1>3 DEF CallInv
<1>8. Counts' /\ MutexHeldInCall'
  BY <1>1, <1>3, <1>4 DEF Basic, Counts, MutexHeldInCall, Transferring
<1> QED BY <1>6, <1>7, <1>8 DEF Basic

LEMMA CommandBasic ==
    ASSUME Basic, Command
    PROVE  Basic'
<1>1. /\ at = "command" /\ at' = IF call.kind = "identify" THEN "wait" ELSE "look"
      /\ IsInteruppted' = FALSE /\ phase' = "busy" /\ command' = call.kind
      /\ error' = FALSE /\ left' = call.count /\ next' = call.lba
      /\ UNCHANGED <<call, i, TotalSectors, Disk_Mutex, intrq, moved, ahead, misled>>
  BY DEF Command, DriverAt, Goto
<1>2. /\ call.kind \in {"read", "write", "identify"}
      /\ call.lba \in Nat /\ call.count \in 1 .. MaxCount /\ call.lba + call.count < Sectors
  <2>1. call \in Calls \/ call = Identify
    BY <1>1 DEF Basic, TypeOK, CallInv
  <2>2. CASE call \in Calls
    BY <2>2, CallFacts, DiskAssumption DEF Basic, CallInv
  <2>3. CASE call = Identify
    BY <2>3, CallFacts, DiskAssumption
  <2> QED BY <2>1, <2>2, <2>3
<1>3. i = 0
  BY <1>1 DEF Basic, Counts
<1>4. left' \in 0 .. MaxCount /\ next' \in 0 .. Sectors - 1 /\ next' + left' < Sectors /\ i' < call'.count
  BY <1>1, <1>2, <1>3, DiskAssumption
<1>5. TypeOK'
  BY <1>1, <1>2, <1>4 DEF Basic, TypeOK, Places
<1>6. CallInv' /\ Counts' /\ MutexHeldInCall'
  BY <1>1, <1>2, <1>4 DEF Basic, CallInv, Counts, MutexHeldInCall, Transferring
<1> QED BY <1>5, <1>6 DEF Basic

LEMMA TransferBasic ==
    ASSUME Basic, Transfer
    PROVE  Basic'
<1>1. /\ at = "transfer"
      /\ moved' = Append(moved, IF phase = "data" THEN next ELSE Garbage)
      /\ i' = i + 1 /\ TotalSectors' \in {TotalSectors} \cup 0 .. Sectors
      /\ at' = IF i + 1 >= call.count THEN "release" ELSE "look"
      /\ UNCHANGED <<call, IsInteruppted, Disk_Mutex, ahead, misled, command, error, intrq>>
  BY DiskAssumption DEF Transfer, LastSector, DRQ, DriverAt, Goto
<1>2. \/ /\ left > 0 /\ left' = left - 1 /\ next' = next + 1 /\ phase' \in {"idle", "busy"}
      \/ left' = left /\ next' = next /\ phase' = phase /\ phase # "data"
  BY DEF Transfer, SectorDone, DRQ, Basic, Counts
<1>3. moved' \in Seq(0 .. Sectors - 1 \cup {Garbage})
  BY <1>1, AppendFacts DEF Basic, TypeOK
<1>4. call.count \in 1 .. MaxCount
  BY <1>1, CallFacts, DiskAssumption DEF Basic, TypeOK, CallInv
<1>5. i \in Nat /\ i < call.count /\ left \in Nat /\ left <= MaxCount /\ next \in Nat /\ next + left < Sectors
  BY <1>1 DEF Basic, TypeOK, Counts, Transferring
<1>6. i' \in 0 .. MaxCount /\ (at' = "look" => i' < call'.count)
  BY <1>1, <1>4, <1>5, DiskAssumption
<1>7. left' \in 0 .. MaxCount /\ next' \in 0 .. Sectors - 1 /\ next' + left' < Sectors
  <2>1. CASE left > 0 /\ left' = left - 1 /\ next' = next + 1
    BY <1>5, <2>1, DiskAssumption
  <2>2. CASE left' = left /\ next' = next
    BY <1>5, <2>2, DiskAssumption
  <2> QED BY <1>2, <2>1, <2>2
<1>8. phase' \in {"idle", "spinup", "busy", "data"} /\ phase' # "data"
  BY <1>2 DEF Basic, TypeOK
<1>9. TypeOK'
  BY <1>1, <1>3, <1>6, <1>7, <1>8 DEF Basic, TypeOK, Places
<1>10. CallInv'
  BY <1>1 DEF Basic, CallInv
<1>11. Counts' /\ MutexHeldInCall'
  BY <1>1, <1>6, <1>7, <1>8 DEF Basic, Counts, MutexHeldInCall, Transferring
<1> QED BY <1>9, <1>10, <1>11 DEF Basic

\* The other steps of the driver, and the interrupt.
LEMMA DriverBasic ==
    ASSUME Basic, Acquire \/ PollBusy \/ PollReady \/ Look \/ Wait \/ Return \/ Fail \/ ISR_HardDisk
    PROVE  Basic'
<1>1. /\ UNCHANGED <<i, TotalSectors, moved, phase, command, left, next, error>>
      /\ IsInteruppted' \in BOOLEAN /\ ahead' \in BOOLEAN /\ misled' \in BOOLEAN /\ intrq' \in BOOLEAN
  BY DEF Basic, TypeOK, Acquire, PollBusy, PollReady, Poll, Look, Misleading, DRQ, Wait, Return, Fail,
      ISR_HardDisk, driveVars
<1>2. \/ /\ at = "acquire" /\ at' = "poll_busy" /\ call' = call /\ Disk_Mutex' = 0
      \/ /\ at = "poll_busy" /\ at' \in {"poll_ready", "fail"} /\ UNCHANGED <<call, Disk_Mutex>>
      \/ /\ at = "poll_ready" /\ at' \in {"command", "fail"} /\ UNCHANGED <<call, Disk_Mutex>>
      \/ /\ at = "look" /\ at' \in {"transfer", "wait"} /\ UNCHANGED <<call, Disk_Mutex>>
      \/ /\ at = "wait" /\ at' \in {"transfer", "fail"} /\ UNCHANGED <<call, Disk_Mutex>>
      \/ /\ at \in {"release", "fail"} /\ at' \in {"idle", "stopped"} /\ call' = NoCall
         /\ Disk_Mutex' = IF call.kind = "identify" THEN Disk_Mutex ELSE 1
      \/ /\ UNCHANGED <<at, call, Disk_Mutex>>
  BY DEF Acquire, PollBusy, PollReady, Poll, Look, Wait, Return, Fail, ISR_HardDisk, ReleaseMutex, DriverAt, Goto
<1>3. at' \in Places /\ call' \in Calls \cup {NoCall, Identify} /\ Disk_Mutex' \in {0, 1}
  BY <1>2 DEF Basic, TypeOK, Places
<1>4. TypeOK'
  BY <1>1, <1>3 DEF Basic, TypeOK
<1>5. CallInv'
  BY <1>2, CallFacts DEF Basic, CallInv
<1>6. Counts'
  BY <1>1, <1>2 DEF Basic, Counts, Transferring
<1>7. at = "acquire" => call.kind # "identify"
  BY CallFacts DEF Basic, TypeOK, CallInv
<1>8. MutexHeldInCall'
  BY <1>2, <1>7 DEF Basic, MutexHeldInCall
<1> QED BY <1>4, <1>5, <1>6, <1>8 DEF Basic

LEMMA DriveBasic ==
    ASSUME Basic, Drive \/ DriveStandby \/ DriveError
    PROVE  Basic'
<1>1. UNCHANGED <<call, at, i, IsInteruppted, TotalSectors, Disk_Mutex, moved, ahead, command, next>>
  BY DEF Drive, DriveReady, DriveFinish, DriveSpinUp, DriveStandby, DriveError, driverVars
<1>2. /\ phase' \in {"idle", "spinup", "busy", "data"} /\ (phase' = "data" => left' > 0)
      /\ intrq' \in BOOLEAN /\ misled' \in BOOLEAN /\ error' \in BOOLEAN
      /\ left' \in {0, left}
  BY DEF Basic, TypeOK, Counts, Drive, DriveReady, DriveFinish, DriveSpinUp, DriveStandby, DriveError,
      driverVars, FirstOfWrite
<1>3. left' \in 0 .. MaxCount /\ next' + left' < Sectors
  <2>1. next \in 0 .. Sectors - 1 /\ left \in 0 .. MaxCount /\ next + left < Sectors
    BY DEF Basic, TypeOK, Counts
  <2>2. CASE left' = left
    BY <1>1, <2>1, <2>2
  <2>3. CASE left' = 0
    BY <1>1, <2>1, <2>3, DiskAssumption
  <2> QED BY <1>2, <2>2, <2>3
<1>4. TypeOK'
  BY <1>1, <1>2, <1>3 DEF Basic, TypeOK
<1>5. CallInv' /\ Counts' /\ MutexHeldInCall'
  BY <1>1, <1>2, <1>3 DEF Basic, CallInv, Counts, MutexHeldInCall, Transferring
<1> QED BY <1>4, <1>5 DEF Basic

LEMMA BasicKeeps == Basic /\ [Next]_vars => Basic'
<1> SUFFICES ASSUME Basic, [Next]_vars PROVE Basic'
  OBVIOUS
<1>1. CASE UNCHANGED vars
  BY <1>1 DEF vars, driverVars, driveVars, Basic, TypeOK, CallInv, Counts, MutexHeldInCall, Transferring
<1>2. CASE Next
  BY <1>2, RequestBasic, CommandBasic, TransferBasic, DriverBasic, DriveBasic DEF Next, Driver
<1> QED BY <1>1, <1>2

\* Once misled, misled for ever.
LEMMA MisledStays == TypeOK /\ misled /\ [Next]_vars => misled'
BY DEF TypeOK, Next, vars, driverVars, driveVars, Request, Driver, Acquire, PollBusy, PollReady, Poll, Command,
   Look, Wait, Transfer, Return, Fail, ISR_HardDisk, Drive, DriveReady, DriveFinish, DriveSpinUp,
   DriveStandby, DriveError

\* The inductive invariant holds for ever.
THEOREM DriverInvariant == Spec => []IInv
<1>1. Init => IInv
  <2> SUFFICES ASSUME Init PROVE IInv
    OBVIOUS
  <2>1. DInv
    BY InitDInv
  <2>2. Counts
    BY DiskAssumption, CallFacts DEF Init, Counts, Transferring
  <2> QED BY <2>1, <2>2 DEF IInv, Basic, DInv
<1>2. IInv /\ [Next]_vars => IInv'
  <2> SUFFICES ASSUME IInv, [Next]_vars PROVE IInv'
    OBVIOUS
  <2>1. Basic'
    BY BasicKeeps DEF IInv
  <2>2. ASSUME ~misled' PROVE DInv'
    <3>1. ~misled
      BY <2>2, MisledStays DEF IInv, Basic
    <3> QED BY <2>2, <3>1, StepKeeps DEF IInv
  <2> QED BY <2>1, <2>2 DEF IInv
<1> QED
  BY <1>1, <1>2, PTL DEF Spec

-----------------------------------------------------------------------------
(* The state of the driver and the drive stays within its types, whatever  *)
(* the drive does.                                                         *)
THEOREM DriverTypes == Spec => []TypeOK
<1>1. IInv => TypeOK
  BY DEF IInv, Basic
<1> QED
  BY <1>1, DriverInvariant, PTL

(* Until the drive misleads the driver no sector is transferred on the     *)
(* strength of a stale interrupt (the loops of ReadSector and WriteSector, *)
(* which read the status once for each sector).                            *)
THEOREM TransfersWhenReady == Spec => []TransferWhenReady
<1>1. IInv => TransferWhenReady
  BY DEF IInv, DInv, FlagInv, TransferWhenReady, DRQ
<1> QED
  BY <1>1, DriverInvariant, PTL

(* Until then a call that succeeds has moved exactly its sectors, in       *)
(* order, and left none in the drive.                                      *)
THEOREM CallsMoveTheirSectors == Spec => []CallMovesItsSectors
<1>1. IInv => CallMovesItsSectors
  <2> SUFFICES ASSUME IInv, at = "release", ~misled
               PROVE  moved = [k \in 1 .. call.count |-> call.lba + k - 1] /\ left = 0
    BY DEF CallMovesItsSectors
  <2>1. left = 0 /\ i = call.count /\ Progress
    BY DEF IInv, DInv, Accounts
  <2>2. moved \in Seq(0 .. Sectors - 1 \cup {Garbage})
    BY DEF IInv, DInv, TypeOK
  <2>3. moved = [k \in 1 .. Len(moved) |-> moved[k]]
    BY <2>2
  <2> QED
    BY <2>1, <2>3 DEF Progress
<1> QED
  BY <1>1, DriverInvariant, PTL

(* Every way out of a call, the failures included, gives the mutex back,   *)
(* whatever the drive does.                                                *)
THEOREM MutexGivenBack == Spec => []MutexHeldInCall
<1>1. IInv => MutexHeldInCall
  BY DEF IInv, Basic
<1> QED
  BY <1>1, DriverInvariant, PTL

(* A command waits for the drive to end the write that WriteSector has     *)
(* already returned from, until the drive misleads the driver.             *)
THEOREM CommandsWhenIdle == Spec => CommandWhenIdle
<1>1. IInv /\ [Next]_vars => [Command /\ ~misled => phase = "idle"]_vars
  BY DEF IInv, DInv, PhaseInv, Command, DriverAt
<1> QED
  BY <1>1, DriverInvariant, PTL DEF Spec, CommandWhenIdle
=============================================================================
