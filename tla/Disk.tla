-------------------------------- MODULE Disk --------------------------------
(***************************************************************************)
(* The disk driver of kernel/io/disk.cpp (init_disk, wait_disk_ready,      *)
(* read_disk, write_disk) against an ATA drive and the timer.  The driver  *)
(* polls: between any two reads of the status the drive may have answered, *)
(* failed, or been too slow.  The drive is external: as the ATA standard   *)
(* has it, it ignores a command while it is busy, and may ignore one while *)
(* it still offers data.                                                   *)
(***************************************************************************)
EXTENDS Integers

CONSTANTS
    Kinds,          \* what may be behind the ports, see TypeOK
    Lbas,           \* the sectors of the drive
    KernelSectors,  \* how many sectors main reads first
    Ops,            \* the operations that may follow: [write, lba, sectors]
    MaxOps,         \* bound: how many operations are called
    MaxSlow         \* bound: how often the drive needs longer than the driver waits

\* main reads more than one sector of its kernel: a single one, read right after
\* init_disk, might be the data of the IDENTIFY that the drive still offers.
ASSUME DiskSizes ==
    /\ Lbas \subseteq Nat /\ MaxOps \in Nat /\ MaxSlow \in Nat
    /\ Kinds \subseteq {"PATA", "SATA", "PATAPI", "SATAPI", "faulty", "none", "floating"}
    /\ KernelSectors \in Nat \ {0, 1} /\ 0 .. (KernelSectors - 1) \subseteq Lbas
    /\ \A o \in Ops : /\ o.write \in BOOLEAN /\ o.lba \in Nat /\ o.sectors \in Nat \ {0}
                      /\ o.lba .. (o.lba + o.sectors - 1) \subseteq Lbas

VARIABLES
    kind, drive, media,     \* the drive: its state and what its sectors hold
    type,                   \* dev->type
    disk_errors,
    op, ops,                \* the operation, and how many were called
    pc, i, buffer, stat,    \* where the driver is, and its locals
    expired,                \* timer_expired(t, 400)
    fails, slow             \* the failures of this operation; the slow answers

device == <<kind, drive, media>>
locals == <<op, ops, i, buffer>>
vars == <<device, type, disk_errors, locals, pc, stat, expired, fails, slow>>

NoOp == [write |-> FALSE, lba |-> 0, sectors |-> 0]
IdentifyData == -1
NoData == -2
Written(k) == 100 + k           \* what the caller of write_disk has in its buffer
MaxFails == 7                   \* bound: fails counts no further

-----------------------------------------------------------------------------
(* The drive.                                                                *)

Ready == [st |-> "idle", task |-> "none", next |-> 0, left |-> 0, data |-> NoData]
Working(task, lba, n) == [st |-> "busy", task |-> task, next |-> lba, left |-> n, data |-> NoData]

Status == CASE kind = "none" -> "zero" [] kind = "floating" -> "float" [] OTHER -> drive.st

BSY(s) == s \in {"busy", "float"}
DRQ(s) == s \in {"drq", "float"}
ERR(s) == s \in {"err", "float"}

NoSignature == "PATA"                           \* mutant: CL and CH are not looked at
\* What the registers CL and CH show after a reset or an IDENTIFY, as a type.
Signature == CASE kind \in {"PATAPI", "SATAPI"} -> kind
               [] kind = "SATA" -> "UNKNOWN_ATAPI"
               [] OTHER -> "PATA"

Answer == [drive EXCEPT !.st = IF drive.task = "none" THEN "idle" ELSE "drq"]
Stored == [drive EXCEPT !.st = IF drive.left = 1 THEN "idle" ELSE "drq",
                        !.next = @ + 1, !.left = @ - 1, !.data = NoData]

Answers ==
    /\ drive.st = "busy"
    /\ drive.task = "identify" => kind \in {"PATA", "faulty"}
    /\ IF drive.data # NoData
       THEN /\ media' = [media EXCEPT ![drive.next] = drive.data] /\ drive' = Stored
       ELSE /\ drive' = Answer /\ UNCHANGED media
    /\ UNCHANGED <<kind, type, disk_errors, locals, pc, stat, expired, fails, slow>>

Fails ==
    /\ drive.st = "busy" /\ drive.task # "none"
    /\ drive.task = "identify" => kind # "PATA"
    /\ drive' = [Ready EXCEPT !.st = "err"]
    /\ UNCHANGED <<kind, media, type, disk_errors, locals, pc, stat, expired, fails, slow>>

\* 400 ms are over.  A drive that is busy, or has only just answered, is slow;
\* one that is idle has nothing to say.
Tick ==
    /\ pc \in {"busy", "error", "drq", "error2", "late"} /\ ~expired
    /\ expired' = TRUE
    /\ IF drive.st \in {"idle", "err"} THEN UNCHANGED slow
       ELSE slow < MaxSlow /\ slow' = slow + 1
    /\ UNCHANGED <<device, type, disk_errors, locals, pc, stat, fails>>

\* reset_device; it returns before a slow drive has come back.
Reset == \/ drive' = Ready /\ UNCHANGED slow
         \/ slow < MaxSlow /\ slow' = slow + 1 /\ drive' = Working("none", 0, 0)

-----------------------------------------------------------------------------
(* init_disk and determine_dev_type.                                         *)

AfterInit == IF op = NoOp THEN "return" ELSE "command"

ResetToDetect ==
    /\ pc = "detect" /\ pc' = "identify"
    /\ Reset
    /\ UNCHANGED <<kind, media, type, disk_errors, locals, stat, expired, fails>>

Identify ==
    /\ pc = "identify"
    /\ IF Status = "zero" THEN type' = "DISCONNECTED" /\ pc' = AfterInit
                          ELSE UNCHANGED type /\ pc' = "settle"
    /\ drive' = IF drive.st = "busy" THEN drive ELSE Working("identify", 0, 1)
    /\ UNCHANGED <<kind, media, disk_errors, locals, stat, expired, fails, slow>>

\* while (0x80 & inb(dev->dev_ctl)), then the signature.
Settle ==
    /\ pc = "settle" /\ ~BSY(Status)
    /\ IF Signature = "PATA" THEN UNCHANGED type /\ pc' = "identified"
                             ELSE type' = Signature /\ pc' = AfterInit
    /\ UNCHANGED <<device, disk_errors, locals, stat, expired, fails, slow>>

EndOfIdentify == DRQ(Status) \/ ~ERR(Status)

\* while (!DRQ && ERR): the data of the IDENTIFY is left in the drive.
Identified ==
    /\ pc = "identified" /\ EndOfIdentify
    /\ type' = "PATA" /\ pc' = AfterInit
    /\ UNCHANGED <<device, disk_errors, locals, stat, expired, fails, slow>>

-----------------------------------------------------------------------------
(* read_disk and write_disk up to the first wait_disk_ready.                 *)

FirstOp == [write |-> FALSE, lba |-> 0, sectors |-> KernelSectors]

Call(o) ==
    /\ pc = "return" /\ ops < MaxOps
    /\ o = FirstOp \/ ops > 0
    /\ op' = o /\ ops' = ops + 1 /\ pc' = "command" /\ i' = -1 /\ fails' = 0
    /\ buffer' = [k \in 0 .. (o.sectors - 1) |-> IF o.write THEN Written(k) ELSE NoData]
    /\ UNCHANGED <<device, type, disk_errors, stat, expired, slow>>

Command ==
    /\ pc = "command"
    /\ \/ drive.st # "busy"
          /\ drive' = Working(IF op.write THEN "write" ELSE "read", op.lba, op.sectors)
       \/ drive.st \in {"busy", "drq"} /\ UNCHANGED drive
    /\ i' = -1 /\ pc' = "wait"
    /\ UNCHANGED <<kind, media, type, disk_errors, op, ops, buffer, stat, expired, fails, slow>>

-----------------------------------------------------------------------------
(* wait_disk_ready: one step for each time it looks at the drive.            *)

TooMany == disk_errors > 5

Wait ==
    /\ pc = "wait"
    /\ IF TooMany THEN pc' = "halted" /\ UNCHANGED <<stat, expired>>
       ELSE /\ stat' = Status /\ expired' = FALSE
            /\ pc' = IF Status = "float" THEN "detect" ELSE "busy"
    /\ UNCHANGED <<device, type, disk_errors, locals, fails, slow>>

\* A while loop: look again as long as the bits are not there and there is time.
Poll(here, waiting, next) ==
    /\ pc = here
    /\ IF waiting /\ ~expired THEN stat' = Status /\ pc' = pc
                              ELSE pc' = next /\ UNCHANGED stat
    /\ UNCHANGED <<device, type, disk_errors, locals, expired, fails, slow>>

PollBusy == Poll("busy", BSY(stat), "error")
PollData == Poll("drq", ~DRQ(stat), "error2")

\* The caller starts again from the command, by calling itself.
Retry == pc' = "command" /\ fails' = IF fails < MaxFails THEN fails + 1 ELSE fails

NotCounted == disk_errors                       \* mutant: errors do not count
OneMore == disk_errors + 1

CheckError(here, next) ==
    /\ pc = here
    /\ IF ERR(Status) THEN disk_errors' = OneMore /\ Reset /\ Retry
       ELSE pc' = next /\ UNCHANGED <<disk_errors, drive, fails, slow>>
    /\ UNCHANGED <<kind, media, type, locals, stat, expired>>

NeverLate == FALSE                              \* mutant: the time is not checked
Late == expired

CheckLate ==
    /\ pc = "late"
    /\ IF Late THEN Reset /\ Retry /\ UNCHANGED i
       ELSE /\ i' = IF i = -1 THEN 0 ELSE i
            /\ pc' = IF i = -1 THEN "wait" ELSE "transfer"
            /\ UNCHANGED <<drive, fails, slow>>
    /\ UNCHANGED <<kind, media, type, disk_errors, op, ops, buffer, stat, expired>>

-----------------------------------------------------------------------------
(* The 256 words of a sector.                                                *)

Offered == IF drive.task = "read" THEN media[drive.next] ELSE IdentifyData

Taken == IF drive.left = 1 THEN Ready
         ELSE [drive EXCEPT !.st = "busy", !.next = @ + 1, !.left = @ - 1]

Given == IF drive.task = "write" THEN [drive EXCEPT !.st = "busy", !.data = buffer[i]] ELSE drive

Last == i + 1 = op.sectors

Transfer ==
    /\ pc = "transfer"
    /\ buffer' = IF op.write THEN buffer ELSE [buffer EXCEPT ![i] = Offered]
    /\ drive' = IF op.write THEN Given ELSE Taken
    /\ i' = i + 1
    /\ pc' = IF Last THEN "return" ELSE "wait"
    /\ UNCHANGED <<kind, media, type, disk_errors, op, ops, stat, expired, fails, slow>>

-----------------------------------------------------------------------------
Driver == \/ ResetToDetect \/ Identify \/ Settle \/ Identified
          \/ Command \/ Wait \/ PollBusy \/ PollData
          \/ CheckError("error", "drq") \/ CheckError("error2", "late")
          \/ CheckLate \/ Transfer

Next == \/ Driver \/ Answers \/ Fails \/ Tick
        \/ \E o \in Ops \cup {FirstOp} : Call(o)

Init == /\ kind \in Kinds /\ drive = Ready /\ media = [l \in Lbas |-> l]
        /\ type = "UNINITIALIZED" /\ disk_errors = 0
        /\ op = NoOp /\ ops = 0 /\ pc = "detect" /\ i = -1 /\ buffer = <<>>
        /\ stat = "idle" /\ expired = FALSE /\ fails = 0 /\ slow = 0

Spec == Init /\ [][Next]_vars

\* The processor runs the driver, the timer ticks, and a busy drive answers.
FairSpec == Spec /\ WF_vars(Driver) /\ WF_vars(Tick) /\ WF_vars(Answers \/ Fails)

-----------------------------------------------------------------------------
(* Properties.                                                              *)

DriveTypes == {"PATA", "SATA", "PATAPI", "SATAPI", "UNKNOWN_ATAPI"}

TypeOK == /\ kind \in {"PATA", "SATA", "PATAPI", "SATAPI", "faulty", "none", "floating"}
          /\ drive.st \in {"idle", "busy", "drq", "err"}
          /\ drive.task \in {"none", "identify", "read", "write"}
          /\ type \in DriveTypes \cup {"UNINITIALIZED", "DISCONNECTED"}
          /\ disk_errors \in 0 .. 6 /\ ops \in 0 .. MaxOps
          /\ i \in -1 .. op.sectors
          /\ fails \in 0 .. MaxFails /\ slow \in 0 .. MaxSlow

Returned == pc = "return" /\ op # NoOp

\* read_disk returns what is on the drive, whatever failed and was repeated on
\* the way and whatever the drive still offered before.  When write_disk returns
\* every sector but the last, which it does not wait for, is on the drive.
OpRight == Returned =>
    \A k \in 0 .. (op.sectors - 1) :
       (op.write => k < op.sectors - 1) => media[op.lba + k] = buffer[k]

\* init_disk finds out what is there, and later errors do not change it.
TypeRight == TypeOK /\ (type # "UNINITIALIZED" =>
    type = CASE kind = "none" -> "DISCONNECTED" [] kind = "faulty" -> "PATA" [] OTHER -> kind)

\* init_disk comes to an end.  A drive that is too slow only so often is read in
\* the end, or given up.
OpEnds == <>(type # "UNINITIALIZED") /\ (pc = "command" /\ kind = "PATA" ~> pc \in {"return", "halted"})
=============================================================================
