------------------------------ MODULE DiskDriver ------------------------------
(***************************************************************************)
(* The PATA driver (DiskDriver.c, ISR_HardDisk of ISR_Handler.c) with the  *)
(* drive it talks to.  The task that makes a call, the interrupt handler   *)
(* and the drive take turns; at is where the call has got to.  A status    *)
(* read and the branch on it are one step, and so are a run of port writes *)
(* the drive does not react to.  An interrupt that is raised is served     *)
(* before the next instruction of the driver.                              *)
(***************************************************************************)
EXTENDS Integers, Sequences

CONSTANTS
    Sectors,    \* size of the disk in sectors
    MaxCount    \* the most sectors a caller asks for (FilsSystem.c: 2)

ASSUME DiskAssumption == Sectors \in Nat /\ Sectors > 1 /\ MaxCount \in Nat \ {0}

VARIABLES
    \* the driver: call under way, place in it, its loop variable
    call, at, i,
    IsInteruppted, TotalSectors,
    Disk_Mutex,         \* permits of the semaphore
    \* the drive: phase, command, sectors left, the next one, error bit, INTRQ
    phase, command, left, next, error, intrq,
    moved,              \* the sectors that went through the data port in this call
    ahead,              \* has the drive been ahead of the driver in this call?
    misled              \* has it since done what the driver cannot follow? see Look

driverVars == <<call, at, i, IsInteruppted, TotalSectors, Disk_Mutex, moved, ahead, misled>>
driveVars == <<phase, command, left, next, error, intrq>>
vars == <<driverVars, driveVars>>

Garbage == -1
NoCall == [kind |-> "none", lba |-> 0, count |-> 0]
Calls == [kind : {"read", "write"}, lba : 0 .. Sectors, count : 1 .. MaxCount]
Identify == [kind |-> "identify", lba |-> 0, count |-> 1]

\* InitDisk up to the call of SetDisk; the drive may still be starting.
Init ==
    /\ call = Identify /\ at = "poll_busy" /\ i = 0
    /\ IsInteruppted = FALSE /\ TotalSectors = 0 /\ Disk_Mutex = 1
    /\ phase \in {"idle", "spinup"} /\ command = "none" /\ left = 0 /\ next = 0
    /\ error = FALSE /\ intrq = FALSE
    /\ moved = <<>> /\ ahead = FALSE /\ misled = FALSE

-----------------------------------------------------------------------------
(* The status register.                                                    *)
BSY == phase = "busy"
RDY == phase # "spinup"
DRQ == phase = "data"

DriverAt(place) == at = place /\ ~intrq
Goto(place) == at' = place

(* The range check of ReadSector and WriteSector.  It also refuses a range *)
(* that ends with the last sector.                                         *)
InRange_Slip(c) == c.lba + c.count <= TotalSectors + 1
InRange(c) == c.lba + c.count < TotalSectors
Request ==
    /\ DriverAt("idle")
    /\ \E c \in Calls : InRange(c) /\ call' = c
    /\ Goto("acquire")
    /\ i' = 0 /\ moved' = <<>> /\ ahead' = FALSE
    /\ UNCHANGED <<IsInteruppted, TotalSectors, Disk_Mutex, misled, driveVars>>

Acquire ==
    /\ DriverAt("acquire")
    /\ Disk_Mutex = 1
    /\ Disk_Mutex' = 0
    /\ Goto("poll_busy")
    /\ UNCHANGED <<call, i, IsInteruppted, TotalSectors, moved, ahead, misled, driveVars>>

\* The polls of SetDisk, ReadSector and WriteSector: an error bit ends the call.
Poll(place, waiting, goOn) ==
    /\ DriverAt(place)
    /\ \/ waiting /\ error /\ Goto("fail")
       \/ ~waiting /\ Goto(goOn)
    /\ UNCHANGED <<call, i, IsInteruppted, TotalSectors, Disk_Mutex, moved, ahead, misled, driveVars>>
PollBusy_Slip == Poll("poll_busy", BSY /\ error, "poll_ready")
PollBusy == Poll("poll_busy", BSY, "poll_ready")
PollReady == Poll("poll_ready", ~RDY, "command")

\* The flag is cleared and the command given, which makes the drive busy.
Command ==
    /\ DriverAt("command")
    /\ IsInteruppted' = FALSE
    /\ phase' = "busy" /\ command' = call.kind /\ error' = FALSE
    /\ left' = call.count /\ next' = call.lba
    /\ Goto(IF call.kind = "identify" THEN "wait" ELSE "look")
    /\ UNCHANGED <<call, i, TotalSectors, Disk_Mutex, intrq, moved, ahead, misled>>

(* Before each sector the status is read once; only if there is no data    *)
(* yet the flag is waited for and cleared.  Two things mislead the driver: *)
(* the drive has not asked for the first sector of a write yet (when it    *)
(* does, it raises no interrupt, and the driver waits for ever), or it     *)
(* falls behind after it was ahead (the flag is still set from a sector    *)
(* that was not waited for, and the driver goes on without data).          *)
FirstOfWrite == call.kind = "write" /\ i = 0
Misleading == ~DRQ /\ (FirstOfWrite \/ ahead)
Look_Slip ==
    /\ DriverAt("look")
    /\ ahead' = FALSE
    /\ misled' = (misled \/ Misleading)
    /\ Goto("wait")
    /\ UNCHANGED <<call, i, IsInteruppted, TotalSectors, Disk_Mutex, moved, driveVars>>
Look ==
    /\ DriverAt("look")
    /\ ahead' = (DRQ /\ ~FirstOfWrite)
    /\ misled' = (misled \/ Misleading)
    /\ Goto(IF DRQ THEN "transfer" ELSE "wait")
    /\ UNCHANGED <<call, i, IsInteruppted, TotalSectors, Disk_Mutex, moved, driveVars>>

\* SetDisk also looks at the error bit while it waits.
Wait_Slip ==
    /\ DriverAt("wait")
    /\ IsInteruppted
    /\ Goto("transfer")
    /\ UNCHANGED <<IsInteruppted, call, i, TotalSectors, Disk_Mutex, moved, ahead, misled, driveVars>>
Wait ==
    /\ DriverAt("wait")
    /\ \/ IsInteruppted /\ IsInteruppted' = FALSE /\ Goto("transfer")
       \/ ~IsInteruppted /\ call.kind = "identify" /\ error /\ Goto("fail") /\ UNCHANGED IsInteruppted
    /\ UNCHANGED <<call, i, TotalSectors, Disk_Mutex, moved, ahead, misled, driveVars>>

\* The drive after a sector: a read ends with its last sector, a write with
\* the drive working on it.
SectorDone ==
    IF DRQ
    THEN /\ left' = left - 1 /\ next' = next + 1
         /\ phase' = IF command # "write" /\ left = 1 THEN "idle" ELSE "busy"
    ELSE UNCHANGED <<left, next, phase>>

\* GetSector or SetSector, and the end of the loop.  Bound: what SetDisk reads
\* when the drive has no data is not taken for a disk larger than this one.
LastSector_Slip == i + 2 >= call.count
LastSector == i + 1 >= call.count
Transfer ==
    /\ DriverAt("transfer")
    /\ moved' = Append(moved, IF DRQ THEN next ELSE Garbage)
    /\ SectorDone
    /\ i' = i + 1
    /\ TotalSectors' \in IF call.kind # "identify" THEN {TotalSectors}
                        ELSE IF DRQ THEN {Sectors} ELSE 0 .. Sectors
    /\ Goto(IF LastSector THEN "release" ELSE "look")
    /\ UNCHANGED <<call, IsInteruppted, Disk_Mutex, ahead, misled, command, error, intrq>>

\* SetDisk does not take the mutex and has none to release.
ReleaseMutex == Disk_Mutex' = IF call.kind = "identify" THEN Disk_Mutex ELSE 1
Return ==
    /\ DriverAt("release")
    /\ ReleaseMutex
    /\ call' = NoCall
    /\ Goto("idle")
    /\ UNCHANGED <<i, IsInteruppted, TotalSectors, moved, ahead, misled, driveVars>>

(* A call that fails returns 0.  If SetDisk fails, the kernel stops.       *)
Fail_Slip ==
    /\ DriverAt("fail")
    /\ call' = NoCall
    /\ Goto(IF call.kind = "identify" THEN "stopped" ELSE "idle")
    /\ UNCHANGED <<Disk_Mutex, i, IsInteruppted, TotalSectors, moved, ahead, misled, driveVars>>
Fail ==
    /\ DriverAt("fail")
    /\ ReleaseMutex
    /\ call' = NoCall
    /\ Goto(IF call.kind = "identify" THEN "stopped" ELSE "idle")
    /\ UNCHANGED <<i, IsInteruppted, TotalSectors, moved, ahead, misled, driveVars>>

ISR_HardDisk ==
    /\ intrq
    /\ IsInteruppted' = TRUE
    /\ intrq' = FALSE
    /\ UNCHANGED <<call, at, i, TotalSectors, Disk_Mutex, moved, ahead, misled, phase, command, left,
                   next, error>>

-----------------------------------------------------------------------------
(* The drive.  It asks for, or offers, the next sector with an interrupt,  *)
(* except for the first sector of a write.                                 *)
DriveReady ==
    /\ phase = "busy" /\ left > 0
    /\ phase' = "data"
    /\ intrq' = ~FirstOfWrite
    /\ UNCHANGED <<driverVars, command, left, next, error>>

\* The last sector of a write is on the disk.
DriveFinish ==
    /\ phase = "busy" /\ left = 0
    /\ phase' = "idle"
    /\ intrq' = TRUE
    /\ UNCHANGED <<driverVars, command, left, next, error>>

DriveSpinUp ==
    /\ phase = "spinup"
    /\ phase' = "idle"
    /\ UNCHANGED <<driverVars, command, left, next, error, intrq>>

\* Between calls the drive may stop spinning.
DriveStandby ==
    /\ phase = "idle" /\ at = "idle" /\ ~intrq
    /\ phase' = "spinup"
    /\ UNCHANGED <<driverVars, command, left, next, error, intrq>>

(* An error: while the drive starts, while it writes the last sector, or   *)
(* in answer to IDENTIFY.  If that comes with an interrupt SetDisk may see *)
(* the interrupt and not the error.  Errors of a transfer the driver does  *)
(* not look for, and the drive here has none.                              *)
DriveError ==
    /\ ~error
    /\ \/ phase = "spinup" /\ UNCHANGED <<phase, left, intrq, misled>>
       \/ phase = "busy" /\ left = 0 /\ UNCHANGED <<phase, left, intrq, misled>>
       \/ /\ phase = "busy" /\ command = "identify"
          /\ phase' = "idle" /\ left' = 0
          /\ intrq' \in BOOLEAN
          /\ misled' = (misled \/ intrq')
    /\ error' = TRUE
    /\ UNCHANGED <<call, at, i, IsInteruppted, TotalSectors, Disk_Mutex, moved, ahead, command, next>>

-----------------------------------------------------------------------------
Driver == Acquire \/ PollBusy \/ PollReady \/ Command \/ Look \/ Wait \/ Transfer \/ Return \/ Fail
Drive == DriveReady \/ DriveFinish \/ DriveSpinUp

Next == Request \/ Driver \/ ISR_HardDisk \/ Drive \/ DriveStandby \/ DriveError

Spec == Init /\ [][Next]_vars

(* The task in the driver gets the processor, interrupts are served, and   *)
(* the drive works on what it was told.                                    *)
FairSpec == Spec /\ WF_vars(Driver) /\ WF_vars(ISR_HardDisk) /\ WF_vars(Drive)

-----------------------------------------------------------------------------
Places == {"idle", "acquire", "poll_busy", "poll_ready", "command", "look", "wait", "transfer",
           "release", "fail", "stopped"}
TypeOK ==
    /\ call \in Calls \cup {NoCall, Identify}
    /\ at \in Places
    /\ i \in 0 .. MaxCount
    /\ IsInteruppted \in BOOLEAN
    /\ TotalSectors \in 0 .. Sectors
    /\ Disk_Mutex \in {0, 1}
    /\ phase \in {"idle", "spinup", "busy", "data"}
    /\ command \in {"none", "identify", "read", "write"}
    /\ left \in 0 .. MaxCount
    /\ next \in 0 .. Sectors - 1
    /\ error \in BOOLEAN
    /\ intrq \in BOOLEAN
    /\ ahead \in BOOLEAN /\ misled \in BOOLEAN
    /\ moved \in Seq(0 .. Sectors - 1 \cup {Garbage})

(* The data port is used when the drive has data or asks for it, and never *)
(* before, on the strength of an interrupt that belongs to an earlier      *)
(* sector or to an earlier command, unless the drive misled the driver:    *)
(* the flag of a sector found ready at once does no harm by itself, nor    *)
(* does the interrupt that ends the write before.                          *)
TransferWhenReady == at = "transfer" /\ ~misled => DRQ

(* Until then, a call that succeeds has moved the sectors asked for, in    *)
(* order, and has left none in the drive.                                  *)
CallMovesItsSectors ==
    at = "release" /\ ~misled =>
        /\ moved = [k \in 1 .. call.count |-> call.lba + k - 1]
        /\ left = 0

(* Every way out of a call gives the mutex back, and the drive is only     *)
(* touched with the mutex held, except by SetDisk, misled or not.          *)
MutexHeldInCall ==
    Disk_Mutex = IF at \in {"idle", "acquire", "stopped"} \/ call.kind = "identify" THEN 1 ELSE 0

(* A command is never given to a drive that is still busy with the last    *)
(* one, which WriteSector returns before the drive has finished, unless    *)
(* the driver was misled: then it may leave sectors in the drive.          *)
CommandWhenIdle == [][Command /\ ~misled => phase = "idle"]_vars

(* Every call returns, with an error or without, unless the driver was     *)
(* misled: then it may wait for an interrupt that never comes.             *)
CallReturns == at # "idle" ~> at \in {"idle", "stopped"} \/ misled
=============================================================================
