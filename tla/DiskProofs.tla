----------------------------- MODULE DiskProofs -----------------------------
(***************************************************************************)
(* What the driver returns is on the drive, and what it takes the drive for *)
(* is right, for every size of the drive, every sequence of operations and  *)
(* any number of failures and late answers.                                 *)
(***************************************************************************)
EXTENDS Disk, TLAPS

\* The places of init_disk and of an operation.
Detecting == {"detect", "identify", "settle", "identified"}
Looking == {"busy", "error", "drq", "error2", "late"}
InLoop == Looking \cup {"wait", "transfer"}

Statuses == {"idle", "busy", "drq", "err"}
Tasks == {"none", "identify", "read", "write"}
Drives == [st : Statuses, task : Tasks, next : Int, left : Int, data : Int]

Typed ==
    /\ TypeOK
    /\ kind \in Kinds
    /\ drive \in Drives
    /\ media \in [Lbas -> Int]
    /\ stat \in Statuses \cup {"zero", "float"} /\ expired \in BOOLEAN
    /\ pc \in Detecting \cup InLoop \cup {"command", "return", "halted"}

\* The operation is the one that was called last; before it the drive is known.
OpKnown ==
    /\ op = NoOp <=> ops = 0
    /\ op # NoOp =>
          /\ op \in Ops \cup {FirstOp} /\ pc \notin Detecting
          /\ buffer \in [0 .. (op.sectors - 1) -> Int]
          /\ op.write => \A k \in 0 .. (op.sectors - 1) : buffer[k] = Written(k)
    /\ op = NoOp => pc \in Detecting \cup {"return"}
    /\ pc \in InLoop \ {"transfer"} => i < op.sectors

\* What init_disk takes each kind for.
FoundAs == CASE kind = "none" -> "DISCONNECTED" [] kind = "faulty" -> "PATA"
             [] kind = "SATA" -> "UNKNOWN_ATAPI" [] OTHER -> kind

TypeFound ==
    /\ type = "UNINITIALIZED" <=> pc \in Detecting
    /\ type # "UNINITIALIZED" => type = FoundAs /\ kind # "floating"
    /\ pc = "settle" => kind # "none"
    /\ pc = "identified" => kind \in {"PATA", "faulty"}

\* Data that the driver saw is still there, and it transfers only what it saw.
Seen ==
    /\ pc \in Looking => stat # "float" /\ disk_errors <= 5
    /\ pc \in Looking /\ stat = "drq" => drive.st = "drq" /\ kind # "none"
    /\ pc \in {"error2", "late"} /\ ~expired => stat = "drq"
    /\ pc = "transfer" => /\ drive.st = "drq" /\ kind # "none" /\ disk_errors <= 5
                          /\ i \in 0 .. (op.sectors - 1)

-----------------------------------------------------------------------------
\* How far the operation has got, and that it was right so far.
Pos == IF i < 0 THEN 0 ELSE i
Prefix(n) == \A k \in 0 .. (n - 1) : media[op.lba + k] = buffer[k]
At(n) == drive.next = op.lba + n /\ drive.left = op.sectors - n

\* What the drive may be doing, seen from the operation.
Silent == drive.st \in {"idle", "err"}
Waking == drive.st = "busy" /\ drive.task = "none" /\ drive.data = NoData
LastWrite == drive.st = "busy" /\ drive.task = "write" /\ drive.left = 1 /\ drive.data # NoData
Stale == /\ drive.st = "drq" /\ drive.task = "identify" /\ drive.left = 1 /\ drive.data = NoData
         /\ ~op.write /\ op.sectors > 1 /\ i <= 0
Reading == /\ drive.st \in {"busy", "drq"} /\ drive.task = "read" /\ drive.data = NoData
           /\ ~op.write /\ At(Pos) /\ Prefix(Pos)
WriteAsked == /\ drive.st = "busy" /\ drive.task = "write" /\ drive.data = NoData
              /\ op.write /\ At(0) /\ Pos = 0
WriteReady == /\ drive.st = "drq" /\ drive.task = "write" /\ drive.data = NoData
              /\ op.write /\ At(Pos) /\ Prefix(Pos)
Storing == /\ drive.st = "busy" /\ drive.task = "write"
           /\ op.write /\ i \in 1 .. op.sectors /\ drive.data = buffer[i - 1]
           /\ At(i - 1) /\ Prefix(i - 1)

Quiet == Silent \/ Waking \/ LastWrite
InStep == Quiet \/ Stale \/ Reading \/ WriteAsked \/ WriteReady \/ Storing
Unread == drive.st = "drq" /\ drive.task = "identify" /\ drive.left = 1 /\ drive.data = NoData
Done == /\ kind # "none"
        /\ \A k \in 0 .. (op.sectors - 1) :
              (op.write => k < op.sectors - 1) => media[op.lba + k] = buffer[k]
        /\ Silent \/ (op.write /\ LastWrite /\ drive.next = op.lba + op.sectors - 1)

\* After a reset, an IDENTIFY or a finished operation the drive offers nothing, but
\* for the data of the IDENTIFY that nobody has read.
DriveFits ==
    /\ pc \in Detecting => /\ drive.data = NoData /\ drive.task \in {"none", "identify"}
                           /\ drive.st = "drq" => drive.task = "identify"
                           /\ drive.task = "identify" => Silent \/ drive.left = 1
    /\ pc = "identified" => drive.st # "busy"
    /\ pc = "return" /\ op = NoOp /\ kind # "none" => Silent \/ Unread
    /\ pc = "command" /\ kind # "none" => Quiet \/ Stale
    /\ pc \in InLoop /\ kind # "none" => InStep
    /\ pc = "return" /\ op # NoOp => Done

DiskInv == Typed /\ OpKnown /\ TypeFound /\ Seen /\ DriveFits

-----------------------------------------------------------------------------
\* What the proofs of all steps need to know of operations.
LEMMA OpFacts ==
    ASSUME Typed, OpKnown
    PROVE  /\ disk_errors \in 0 .. 6 /\ slow \in 0 .. MaxSlow /\ fails \in 0 .. MaxFails
           /\ i \in Int /\ i >= -1 /\ MaxSlow \in Nat
           /\ op # NoOp => /\ op.write \in BOOLEAN /\ op.lba \in Nat /\ op.sectors \in Nat \ {0}
                           /\ op.lba .. (op.lba + op.sectors - 1) \subseteq Lbas
                           /\ i <= op.sectors
           /\ op = NoOp => op.sectors = 0 /\ ~op.write
<1>1. /\ disk_errors \in 0 .. 6 /\ slow \in 0 .. MaxSlow /\ fails \in 0 .. MaxFails
      /\ i \in -1 .. op.sectors
    BY DEF Typed, TypeOK
<1>2. op = NoOp => op.sectors = 0 /\ ~op.write
    BY DEF NoOp
<1>3. ASSUME op # NoOp
      PROVE  /\ op.write \in BOOLEAN /\ op.lba \in Nat /\ op.sectors \in Nat \ {0}
             /\ op.lba .. (op.lba + op.sectors - 1) \subseteq Lbas
    <2>1. CASE op = FirstOp
        BY <2>1, DiskSizes DEF FirstOp
    <2>2. CASE op \in Ops
        BY <2>2, DiskSizes
    <2> QED
        BY <1>3, <2>1, <2>2 DEF OpKnown
<1>4. MaxSlow \in Nat /\ op.sectors \in Nat
    BY <1>2, <1>3, DiskSizes
<1> QED
    BY <1>1, <1>2, <1>3, <1>4

LEMMA InitDisk == Init => DiskInv
<1> SUFFICES ASSUME Init PROVE DiskInv
    OBVIOUS
<1> USE DEF Init
<1>1. Typed
    <2>1. drive \in Drives
        BY DEF Ready, Drives, Statuses, Tasks, NoData
    <2>2. op.sectors = 0
        BY DEF NoOp
    <2>3. TypeOK
        BY <2>1, <2>2, DiskSizes DEF TypeOK, Ready, Drives, Statuses, Tasks, MaxFails
    <2>4. media \in [Lbas -> Int]
        BY DiskSizes
    <2> QED
        BY <2>1, <2>3, <2>4 DEF Typed, Detecting, Statuses
<1>2. OpKnown
    BY DEF OpKnown, Detecting, InLoop, Looking, NoOp
<1>3. TypeFound
    BY DEF TypeFound, Detecting
<1>4. Seen
    BY DEF Seen, Looking
<1>5. DriveFits
    BY DEF DriveFits, Detecting, InLoop, Looking, Ready
<1> QED
    BY <1>1, <1>2, <1>3, <1>4, <1>5 DEF DiskInv

\* The drive is one of the kinds, and its status one of four.
LEMMA KindFacts ==
    ASSUME Typed
    PROVE  /\ kind \in {"PATA", "SATA", "PATAPI", "SATAPI", "faulty", "none", "floating"}
           /\ drive.st \in {"idle", "busy", "drq", "err"} /\ drive.left \in Int /\ drive.next \in Int
           /\ kind \notin {"none", "floating"} => Status = drive.st
           /\ kind = "none" => Status = "zero"
           /\ kind = "floating" => Status = "float"
BY DEF Typed, TypeOK, Status, Drives, Statuses

\* What the drive does with a sector, field by field.
LEMMA TakenFields ==
    ASSUME drive \in Drives, drive.left # 1
    PROVE  /\ Taken \in Drives /\ Taken.st = "busy" /\ Taken.task = drive.task /\ Taken.data = drive.data
           /\ Taken.next = drive.next + 1 /\ Taken.left = drive.left - 1
<1> DEFINE b == [drive EXCEPT !.st = "busy"]
           c == [b EXCEPT !.next = drive.next + 1]
<1>1. /\ b \in Drives /\ b.st = "busy" /\ b.task = drive.task /\ b.data = drive.data
      /\ drive.next + 1 \in Int /\ drive.left - 1 \in Int
    BY DEF Drives, Statuses
<1> HIDE DEF b
<1>2. c \in Drives /\ c.st = "busy" /\ c.next = drive.next + 1 /\ c.task = drive.task /\ c.data = drive.data
    BY <1>1 DEF Drives
<1>3. Taken = [c EXCEPT !.left = drive.left - 1]
    BY DEF Taken, b
<1> HIDE DEF c
<1> QED
    BY <1>1, <1>2, <1>3 DEF Drives

LEMMA GivenFields ==
    ASSUME drive \in Drives, drive.task = "write", buffer[i] \in Int
    PROVE  /\ Given \in Drives /\ Given.st = "busy" /\ Given.task = "write" /\ Given.data = buffer[i]
           /\ Given.next = drive.next /\ Given.left = drive.left
<1> DEFINE b == [drive EXCEPT !.st = "busy"]
<1>1. b \in Drives /\ b.st = "busy" /\ b.task = "write" /\ b.next = drive.next /\ b.left = drive.left
    BY DEF Drives, Statuses
<1>2. Given = [b EXCEPT !.data = buffer[i]]
    BY DEF Given
<1> HIDE DEF b
<1> QED
    BY <1>1, <1>2 DEF Drives

LEMMA StoredFields ==
    ASSUME drive \in Drives
    PROVE  /\ Stored \in Drives /\ Stored.st = (IF drive.left = 1 THEN "idle" ELSE "drq")
           /\ Stored.task = drive.task /\ Stored.data = NoData
           /\ Stored.next = drive.next + 1 /\ Stored.left = drive.left - 1
<1> DEFINE s == IF drive.left = 1 THEN "idle" ELSE "drq"
           b == [drive EXCEPT !.st = s]
           c == [b EXCEPT !.next = drive.next + 1]
           d == [c EXCEPT !.left = drive.left - 1]
<1>1. /\ b \in Drives /\ b.st = s /\ b.task = drive.task
      /\ drive.next + 1 \in Int /\ drive.left - 1 \in Int
    BY DEF Drives, Statuses
<1> HIDE DEF b
<1>2. c \in Drives /\ c.st = s /\ c.next = drive.next + 1 /\ c.task = drive.task
    BY <1>1 DEF Drives
<1> HIDE DEF c
<1>3. d \in Drives /\ d.st = s /\ d.next = drive.next + 1 /\ d.left = drive.left - 1 /\ d.task = drive.task
    BY <1>1, <1>2 DEF Drives
<1>4. Stored = [d EXCEPT !.data = NoData]
    BY DEF Stored, b, c
<1> HIDE DEF d
<1> QED
    BY <1>3, <1>4 DEF Drives, NoData

\* Most steps of the driver only look: the drive stays as it is.
Looks == UNCHANGED <<device, locals>>

LEMMA LooksSame ==
    ASSUME Looks
    PROVE  /\ Quiet' = Quiet /\ Stale' = Stale /\ InStep' = InStep /\ Unread' = Unread
           /\ Done' = Done /\ Silent' = Silent /\ (op = NoOp)' = (op = NoOp)
           /\ UNCHANGED <<kind, drive>>
BY DEF Looks, device, locals, Quiet, Stale, InStep, Unread, Done, Silent, Waking, LastWrite, Reading,
       WriteAsked, WriteReady, Storing, Pos, Prefix, At

\* A reset, or a drive that is still coming back from one.
LEMMA ResetQuiet ==
    ASSUME Reset
    PROVE  /\ Quiet' /\ drive'.st \in {"idle", "busy"} /\ drive'.task = "none" /\ drive'.data = NoData
           /\ drive' \in Drives
           /\ slow \in 0 .. MaxSlow /\ MaxSlow \in Nat => slow' \in 0 .. MaxSlow
BY DEF Reset, Ready, Working, Quiet, Silent, Waking, Drives, Statuses, Tasks, NoData

LEMMA ResetToDetectStep == DiskInv /\ ResetToDetect => DiskInv'
<1> SUFFICES ASSUME DiskInv, ResetToDetect PROVE DiskInv'
    OBVIOUS
<1> USE OpFacts DEF DiskInv, ResetToDetect, device, locals
<1>1. Typed'
    BY ResetQuiet, DiskSizes DEF Typed, TypeOK, Drives, Statuses, Tasks, Detecting, InLoop, Looking, DriveTypes, NoData, IdentifyData, MaxFails
<1>2. OpKnown'
    BY DEF OpKnown, Detecting, InLoop, Looking
<1>3. TypeFound'
    BY DEF TypeFound, FoundAs, Detecting, InLoop, Looking, OpKnown, Typed
<1>4. Seen'
    BY DEF Seen, Detecting, InLoop, Looking, OpKnown, TypeFound
<1>5. DriveFits'
    BY ResetQuiet DEF DriveFits, Detecting, InLoop, Looking
<1> QED
    BY <1>1, <1>2, <1>3, <1>4, <1>5

LEMMA IdentifyStep == DiskInv /\ Identify => DiskInv'
<1> SUFFICES ASSUME DiskInv, Identify PROVE DiskInv'
    OBVIOUS
<1> USE OpFacts, KindFacts DEF DiskInv
<1>1. op = NoOp /\ type = "UNINITIALIZED" /\ AfterInit = "return"
    BY DEF Identify, OpKnown, TypeFound, Detecting, AfterInit, InLoop, Looking
<1>2. UNCHANGED <<kind, media, disk_errors, locals, stat, expired, fails, slow>>
    BY DEF Identify
<1>3. \/ kind = "none" /\ type' = "DISCONNECTED" /\ pc' = "return"
      \/ kind # "none" /\ type' = type /\ pc' = "settle"
    BY <1>1 DEF Identify
<1>4. drive' = IF drive.st = "busy" THEN drive ELSE Working("identify", 0, 1)
    BY DEF Identify
<1>5. Typed'
    BY <1>2, <1>3, <1>4 DEF Typed, TypeOK, Drives, Statuses, Tasks, Working, NoData, Detecting, locals, DriveTypes
<1>6. OpKnown'
    BY <1>1, <1>2, <1>3 DEF OpKnown, Detecting, InLoop, Looking, locals
<1>7. TypeFound'
    BY <1>1, <1>2, <1>3 DEF TypeFound, FoundAs, Detecting
<1>8. Seen'
    BY <1>3 DEF Seen, Looking
<1>9. DriveFits'
    <2>1. pc = "identify"
        BY DEF Identify
    <2>2. drive.data = NoData /\ drive.task \in {"none", "identify"}
          /\ (drive.st = "busy" /\ drive.task = "identify" => drive.left = 1)
        BY <2>1 DEF DriveFits, Detecting, Silent
    <2>3. drive'.data = NoData /\ drive'.task \in {"none", "identify"} /\ drive'.st = "busy"
          /\ (drive'.task = "identify" => drive'.left = 1)
        BY <1>4, <2>2 DEF Working
    <2> QED
        BY <1>1, <1>2, <1>3, <2>3 DEF DriveFits, Detecting, InLoop, Looking, locals
<1> QED
    BY <1>5, <1>6, <1>7, <1>8, <1>9

LEMMA SettleStep == DiskInv /\ Settle => DiskInv'
<1> SUFFICES ASSUME DiskInv, Settle PROVE DiskInv'
    OBVIOUS
<1> USE OpFacts DEF DiskInv, Settle, Status, Signature, AfterInit, BSY, device, locals
<1>1. Typed'
    BY DiskSizes DEF Typed, TypeOK, Drives, Statuses, Tasks, Detecting, InLoop, Looking, DriveTypes, NoData, IdentifyData, MaxFails
<1>2. OpKnown'
    BY DEF OpKnown, Detecting, InLoop, Looking
<1>3. TypeFound'
    BY KindFacts DEF TypeFound, FoundAs, Detecting, InLoop, Looking, OpKnown
<1>4. Seen'
    BY DEF Seen, Detecting, InLoop, Looking, OpKnown, TypeFound
<1>5. DriveFits'
    BY KindFacts DEF DriveFits, Detecting, InLoop, Looking, OpKnown, TypeFound, Silent, Unread
<1> QED
    BY <1>1, <1>2, <1>3, <1>4, <1>5

LEMMA IdentifiedStep == DiskInv /\ Identified => DiskInv'
<1> SUFFICES ASSUME DiskInv, Identified PROVE DiskInv'
    OBVIOUS
<1> USE OpFacts DEF DiskInv, Identified, Status, EndOfIdentify, DRQ, ERR, AfterInit, device, locals
<1>1. Typed'
    BY DiskSizes DEF Typed, TypeOK, Drives, Statuses, Tasks, Detecting, InLoop, Looking, DriveTypes, NoData, IdentifyData, MaxFails
<1>2. OpKnown'
    BY DEF OpKnown, Detecting, InLoop, Looking
<1>3. TypeFound'
    BY KindFacts DEF TypeFound, FoundAs, Detecting, InLoop, Looking, OpKnown
<1>4. Seen'
    BY DEF Seen, Detecting, InLoop, Looking, OpKnown, TypeFound
<1>5. DriveFits'
    BY KindFacts DEF DriveFits, Detecting, InLoop, Looking, OpKnown, TypeFound, Silent, Unread
<1> QED
    BY <1>1, <1>2, <1>3, <1>4, <1>5

LEMMA CommandStep == DiskInv /\ Command => DiskInv'
<1> SUFFICES ASSUME DiskInv, Command PROVE DiskInv'
    OBVIOUS
<1> USE OpFacts DEF DiskInv
<1>1. /\ pc = "command" /\ i' = -1 /\ pc' = "wait"
      /\ UNCHANGED <<kind, media, type, disk_errors, op, ops, buffer, stat, expired, fails, slow>>
    BY DEF Command
<1>2. op # NoOp /\ op.write \in BOOLEAN /\ op.lba \in Nat /\ op.sectors \in Nat \ {0}
    BY <1>1 DEF OpKnown, Detecting
<1>3. \/ drive' = Working(IF op.write THEN "write" ELSE "read", op.lba, op.sectors)
      \/ drive.st \in {"busy", "drq"} /\ drive' = drive
    BY DEF Command
<1>4. drive' \in Drives
    BY <1>2, <1>3 DEF Working, Typed, Drives, Statuses, Tasks, NoData
<1>5. Typed'
    BY <1>1, <1>2, <1>4 DEF Typed, TypeOK, Drives, Statuses, Tasks, InLoop
<1>6. OpKnown'
    BY <1>1, <1>2 DEF OpKnown, Detecting, InLoop, Looking
<1>7. TypeFound' /\ Seen'
    BY <1>1 DEF TypeFound, FoundAs, Seen, Detecting, Looking
<1>8. DriveFits'
    <2>1. Pos' = 0 /\ Prefix(0)'
        BY <1>1 DEF Pos, Prefix
    <2>2. CASE drive' = Working(IF op.write THEN "write" ELSE "read", op.lba, op.sectors)
        <3>1. At(0)' /\ drive'.st = "busy" /\ drive'.data = NoData
            BY <1>1, <1>2, <2>2 DEF At, Working
        <3>2. drive'.task = IF op.write THEN "write" ELSE "read"
            BY <2>2 DEF Working
        <3>3. Reading' \/ WriteAsked'
            BY <1>1, <1>2, <2>1, <3>1, <3>2 DEF Reading, WriteAsked
        <3> QED
            BY <1>1, <3>3 DEF DriveFits, Detecting, InLoop, InStep
    <2>3. CASE drive' = drive
        BY <1>1, <2>3 DEF DriveFits, Detecting, InLoop, InStep, Quiet, Silent, Waking, LastWrite, Stale
    <2> QED
        BY <1>3, <2>2, <2>3
<1> QED
    BY <1>5, <1>6, <1>7, <1>8

LEMMA WaitStep == DiskInv /\ Wait => DiskInv'
<1> SUFFICES ASSUME DiskInv, Wait PROVE DiskInv'
    OBVIOUS
<1> USE OpFacts, KindFacts DEF DiskInv
<1>1. pc = "wait" /\ Looks /\ UNCHANGED <<type, disk_errors, fails, slow>>
    BY DEF Wait, Looks
<1>2. kind # "floating"
    BY <1>1 DEF TypeFound, Detecting
<1>3. \/ pc' = "halted" /\ UNCHANGED <<stat, expired>>
      \/ pc' = "busy" /\ stat' = Status /\ expired' = FALSE /\ disk_errors <= 5
    BY <1>2 DEF Wait, TooMany
<1>4. Typed'
    <2>1. stat' \in Statuses \cup {"zero", "float"} /\ expired' \in BOOLEAN /\ pc' \in {"halted", "busy"}
        BY <1>3 DEF Typed, Drives, Statuses
    <2> QED
        BY <1>1, <2>1 DEF Typed, TypeOK, Looks, device, locals, InLoop, Looking
<1>5. OpKnown'
    BY <1>1, <1>3 DEF OpKnown, Looks, device, locals, InLoop, Looking, Detecting
<1>6. TypeFound'
    BY <1>1, <1>3, LooksSame DEF TypeFound, FoundAs, Detecting
<1>7. Seen'
    BY <1>1, <1>2, <1>3, LooksSame DEF Seen, Looking
<1>8. DriveFits'
    BY <1>1, <1>3, LooksSame DEF DriveFits, Detecting, InLoop, Looking
<1> QED
    BY <1>4, <1>5, <1>6, <1>7, <1>8

LEMMA PollBusyStep == DiskInv /\ PollBusy => DiskInv'
<1> SUFFICES ASSUME DiskInv, PollBusy PROVE DiskInv'
    OBVIOUS
<1> USE OpFacts DEF DiskInv, PollBusy, Poll, Status, BSY, device, locals
<1>1. Typed'
    BY DiskSizes DEF Typed, TypeOK, Drives, Statuses, Tasks, Detecting, InLoop, Looking, DriveTypes, NoData, IdentifyData, MaxFails
<1>2. OpKnown'
    BY DEF OpKnown, Detecting, InLoop, Looking
<1>3. TypeFound'
    BY DEF TypeFound, FoundAs, Detecting, InLoop, Looking, OpKnown, Typed
<1>4. Seen'
    BY DEF Seen, Detecting, InLoop, Looking, OpKnown, TypeFound, Typed, Drives, Statuses
<1>5. DriveFits'
    BY LooksSame DEF Looks, DriveFits, Detecting, InLoop, Looking, OpKnown, TypeFound
<1> QED
    BY <1>1, <1>2, <1>3, <1>4, <1>5

LEMMA PollDataStep == DiskInv /\ PollData => DiskInv'
<1> SUFFICES ASSUME DiskInv, PollData PROVE DiskInv'
    OBVIOUS
<1> USE OpFacts DEF DiskInv, PollData, Poll, Status, DRQ, device, locals
<1>1. Typed'
    BY DiskSizes DEF Typed, TypeOK, Drives, Statuses, Tasks, Detecting, InLoop, Looking, DriveTypes, NoData, IdentifyData, MaxFails
<1>2. OpKnown'
    BY DEF OpKnown, Detecting, InLoop, Looking
<1>3. TypeFound'
    BY DEF TypeFound, FoundAs, Detecting, InLoop, Looking, OpKnown, Typed
<1>4. Seen'
    BY DEF Seen, Detecting, InLoop, Looking, OpKnown, TypeFound, Typed, Drives, Statuses
<1>5. DriveFits'
    BY LooksSame DEF Looks, DriveFits, Detecting, InLoop, Looking, OpKnown, TypeFound
<1> QED
    BY <1>1, <1>2, <1>3, <1>4, <1>5

LEMMA CheckErrorBeforeStep == DiskInv /\ CheckError("error", "drq") => DiskInv'
<1> SUFFICES ASSUME DiskInv, CheckError("error", "drq") PROVE DiskInv'
    OBVIOUS
<1>1. CASE ERR(Status)
    <2>1. Reset /\ Retry /\ disk_errors' = disk_errors + 1 /\ UNCHANGED <<kind, media, type, locals, stat, expired>>
        BY <1>1 DEF CheckError, OneMore
    <2>2. Typed'
        BY <2>1, OpFacts, ResetQuiet, DiskSizes DEF DiskInv, CheckError, Typed, TypeOK, Seen, Looking, Retry, MaxFails, locals
    <2>3. OpKnown'
        BY <2>1 DEF DiskInv, CheckError, OpKnown, Detecting, InLoop, Looking, Retry, locals
    <2>4. TypeFound'
        BY <2>1 DEF DiskInv, CheckError, TypeFound, FoundAs, Detecting, Retry
    <2>5. Seen'
        BY <2>1 DEF Seen, Looking, Retry
    <2>6. DriveFits'
        BY <2>1, ResetQuiet DEF DriveFits, Detecting, InLoop, Looking, Retry
    <2> QED
        BY <2>2, <2>3, <2>4, <2>5, <2>6 DEF DiskInv
<1>2. CASE ~ERR(Status)
    <2>1. Looks /\ pc' = "drq" /\ UNCHANGED <<type, disk_errors, stat, expired, fails, slow>>
        BY <1>2 DEF CheckError, Looks, device, locals
    <2>2. Typed' /\ OpKnown'
        BY <2>1, LooksSame DEF DiskInv, CheckError, Typed, TypeOK, OpKnown, Looks, device, locals, Looking, InLoop, Detecting
    <2>3. TypeFound'
        BY <2>1, LooksSame DEF DiskInv, CheckError, TypeFound, FoundAs, Detecting
    <2>4. Seen'
        BY <2>1, LooksSame DEF DiskInv, CheckError, Seen, Looking
    <2>5. DriveFits'
        BY <2>1, LooksSame DEF DiskInv, CheckError, DriveFits, Detecting, InLoop, Looking
    <2> QED
        BY <2>2, <2>3, <2>4, <2>5 DEF DiskInv
<1> QED
    BY <1>1, <1>2

LEMMA CheckErrorAfterStep == DiskInv /\ CheckError("error2", "late") => DiskInv'
<1> SUFFICES ASSUME DiskInv, CheckError("error2", "late") PROVE DiskInv'
    OBVIOUS
<1>1. CASE ERR(Status)
    <2>1. Reset /\ Retry /\ disk_errors' = disk_errors + 1 /\ UNCHANGED <<kind, media, type, locals, stat, expired>>
        BY <1>1 DEF CheckError, OneMore
    <2>2. Typed'
        BY <2>1, OpFacts, ResetQuiet, DiskSizes DEF DiskInv, CheckError, Typed, TypeOK, Seen, Looking, Retry, MaxFails, locals
    <2>3. OpKnown'
        BY <2>1 DEF DiskInv, CheckError, OpKnown, Detecting, InLoop, Looking, Retry, locals
    <2>4. TypeFound'
        BY <2>1 DEF DiskInv, CheckError, TypeFound, FoundAs, Detecting, Retry
    <2>5. Seen'
        BY <2>1 DEF Seen, Looking, Retry
    <2>6. DriveFits'
        BY <2>1, ResetQuiet DEF DriveFits, Detecting, InLoop, Looking, Retry
    <2> QED
        BY <2>2, <2>3, <2>4, <2>5, <2>6 DEF DiskInv
<1>2. CASE ~ERR(Status)
    <2>1. Looks /\ pc' = "late" /\ UNCHANGED <<type, disk_errors, stat, expired, fails, slow>>
        BY <1>2 DEF CheckError, Looks, device, locals
    <2>2. Typed' /\ OpKnown'
        BY <2>1, LooksSame DEF DiskInv, CheckError, Typed, TypeOK, OpKnown, Looks, device, locals, Looking, InLoop, Detecting
    <2>3. TypeFound'
        BY <2>1, LooksSame DEF DiskInv, CheckError, TypeFound, FoundAs, Detecting
    <2>4. Seen'
        BY <2>1, LooksSame DEF DiskInv, CheckError, Seen, Looking
    <2>5. DriveFits'
        BY <2>1, LooksSame DEF DiskInv, CheckError, DriveFits, Detecting, InLoop, Looking
    <2> QED
        BY <2>2, <2>3, <2>4, <2>5 DEF DiskInv
<1> QED
    BY <1>1, <1>2

LEMMA CheckLateStep == DiskInv /\ CheckLate => DiskInv'
<1> SUFFICES ASSUME DiskInv, CheckLate PROVE DiskInv'
    OBVIOUS
<1> USE OpFacts, KindFacts DEF DiskInv
<1>1. pc = "late" /\ UNCHANGED <<kind, media, type, disk_errors, op, ops, buffer, stat, expired>>
    BY DEF CheckLate
<1>2. op # NoOp /\ i < op.sectors
    BY <1>1 DEF OpKnown, Detecting, InLoop, Looking
<1>3. CASE expired
    <2>1. Reset /\ Retry /\ i' = i
        BY <1>3 DEF CheckLate, Late
    <2>2. Typed'
        BY <1>1, <2>1, ResetQuiet DEF Typed, TypeOK, Retry, MaxFails
    <2>3. OpKnown'
        BY <1>1, <2>1 DEF OpKnown, Retry, Detecting, InLoop, Looking
    <2>4. TypeFound'
        BY <1>1, <2>1 DEF TypeFound, FoundAs, Retry, Detecting
    <2>5. Seen'
        BY <2>1 DEF Seen, Looking, Retry
    <2>6. DriveFits'
        BY <2>1, ResetQuiet DEF DriveFits, Detecting, InLoop, Looking, Retry
    <2> QED
        BY <2>2, <2>3, <2>4, <2>5, <2>6
<1>4. CASE ~expired
    <2>1. UNCHANGED <<drive, fails, slow>>
          /\ \/ i = -1 /\ i' = 0 /\ pc' = "wait"
             \/ i >= 0 /\ i' = i /\ pc' = "transfer"
        BY <1>4 DEF CheckLate, Late
    <2>2. drive.st = "drq" /\ kind # "none"
        BY <1>1, <1>4 DEF Seen, Looking
    <2>3. Typed'
        BY <1>1, <1>2, <2>1 DEF Typed, TypeOK, InLoop
    <2>4. OpKnown'
        BY <1>1, <1>2, <2>1 DEF OpKnown, InLoop, Looking, Detecting
    <2>5. TypeFound'
        BY <1>1, <2>1 DEF TypeFound, FoundAs, Detecting
    <2>6. Seen'
        BY <1>1, <1>2, <2>1, <2>2 DEF Seen, Looking
    <2>7. InStep
        BY <1>1, <2>2 DEF DriveFits, InLoop, Looking
    <2>8. Stale \/ Reading \/ WriteReady
        BY <2>2, <2>7 DEF InStep, Quiet, Silent, Waking, LastWrite, WriteAsked, Storing
    <2>9. InStep'
        <3>1. Pos' = Pos
            BY <2>1 DEF Pos
        <3>2. CASE Stale
            BY <1>1, <2>1, <3>2 DEF InStep, Stale
        <3>3. CASE Reading
            BY <1>1, <2>1, <3>1, <3>3 DEF InStep, Reading, At, Prefix
        <3>4. CASE WriteReady
            BY <1>1, <2>1, <3>1, <3>4 DEF InStep, WriteReady, At, Prefix
        <3> QED
            BY <2>8, <3>2, <3>3, <3>4
    <2>10. DriveFits'
        BY <2>1, <2>9 DEF DriveFits, Detecting, InLoop, Looking
    <2> QED
        BY <2>3, <2>4, <2>5, <2>6, <2>10
<1> QED
    BY <1>3, <1>4 DEF Typed

LEMMA TransferStep == DiskInv /\ Transfer => DiskInv'
<1> SUFFICES ASSUME DiskInv, Transfer PROVE DiskInv'
    OBVIOUS
<1> USE OpFacts, KindFacts DEF DiskInv
<1> DEFINE Fits == /\ DriveFits' /\ drive' \in Drives /\ buffer' \in [0 .. (op.sectors - 1) -> Int]
                   /\ op.write => buffer' = buffer
<1>1. /\ pc = "transfer" /\ i' = i + 1
      /\ UNCHANGED <<kind, media, type, disk_errors, op, ops, stat, expired, fails, slow>>
    BY DEF Transfer
<1>2. op # NoOp /\ drive.st = "drq" /\ kind # "none" /\ i \in 0 .. (op.sectors - 1) /\ Pos = i
    BY <1>1 DEF OpKnown, Seen, Detecting, Pos
<1>3. pc' = IF i' = op.sectors THEN "return" ELSE "wait"
    BY <1>1, <1>2 DEF Transfer, Last
<1>4. Stale \/ Reading \/ WriteReady
    BY <1>1, <1>2 DEF DriveFits, InLoop, InStep, Quiet, Silent, Waking, LastWrite, WriteAsked, Storing
<1>5. op.lba + i \in Lbas
    BY <1>2
<1>6. buffer \in [0 .. (op.sectors - 1) -> Int]
      /\ (op.write => \A k \in 0 .. (op.sectors - 1) : buffer[k] = Written(k))
    BY <1>2 DEF OpKnown
<1>7. drive \in Drives /\ media \in [Lbas -> Int]
    BY DEF Typed
<1>8. ASSUME Stale PROVE Fits
    <2>1. ~op.write /\ i = 0 /\ op.sectors > 1 /\ drive.left = 1 /\ drive.task = "identify"
        BY <1>2, <1>8 DEF Stale
    <2>2. drive' = Ready /\ pc' = "wait" /\ buffer' = [buffer EXCEPT ![i] = IdentifyData]
        BY <1>1, <1>3, <2>1 DEF Transfer, Taken, Offered
    <2>3. Quiet' /\ drive' \in Drives
        BY <2>2 DEF Quiet, Silent, Ready, Drives, Statuses, Tasks, NoData
    <2>4. buffer' \in [0 .. (op.sectors - 1) -> Int]
        BY <1>2, <1>6, <2>2 DEF IdentifyData
    <2>5. /\ pc' = "wait" /\ DriveFits'
        BY <2>2, <2>3 DEF DriveFits, Detecting, InLoop, Looking, InStep
    <2> QED
        BY <2>1, <2>3, <2>4, <2>5
<1>9. ASSUME Reading PROVE Fits
    <2>1. ~op.write /\ drive.task = "read" /\ drive.data = NoData /\ drive.next = op.lba + i
          /\ drive.left = op.sectors - i /\ Prefix(i)
        BY <1>2, <1>9 DEF Reading, At
    <2>2. drive' = Taken /\ buffer' = [buffer EXCEPT ![i] = media[op.lba + i]]
        BY <2>1 DEF Transfer, Offered
    <2>3. buffer' \in [0 .. (op.sectors - 1) -> Int] /\ Prefix(i)'
        <3>1. buffer' \in [0 .. (op.sectors - 1) -> Int]
            BY <1>2, <1>5, <1>6, <1>7, <2>2
        <3>2. \A k \in 0 .. i : media[op.lba + k] = buffer'[k]
            BY <1>2, <1>6, <2>1, <2>2 DEF Prefix
        <3>3. 0 .. (i' - 1) = 0 .. i /\ UNCHANGED <<media, op>>
            BY <1>1, <1>2
        <3> QED
            BY <3>1, <3>2, <3>3 DEF Prefix
    <2>4. CASE i + 1 = op.sectors
        <3>1. drive' = Ready
            BY <2>1, <2>2, <2>4 DEF Taken
        <3>2. Done'
            BY <1>1, <1>2, <2>1, <2>3, <2>4, <3>1 DEF Done, Prefix, Silent, Ready
        <3>3. DriveFits'
            BY <1>1, <1>2, <1>3, <2>4, <3>2 DEF DriveFits, Detecting, InLoop, Looking
        <3>4. drive' \in Drives
            BY <3>1 DEF Ready, Drives, Statuses, Tasks, NoData
        <3> QED
            BY <2>1, <2>3, <3>3, <3>4
    <2>5. CASE i + 1 # op.sectors
        <3>2. /\ drive' \in Drives /\ drive'.st = "busy" /\ drive'.task = "read" /\ drive'.data = NoData
              /\ drive'.next = op.lba + (i + 1) /\ drive'.left = op.sectors - (i + 1)
            <4>1. drive.left # 1
                BY <1>2, <2>1, <2>5
            <4> QED
                BY <1>2, <1>7, <2>1, <2>2, <4>1, TakenFields
        <3>3. Reading'
            <4>1. Pos' = i + 1 /\ Pos' = i' /\ op' = op
                BY <1>1, <1>2 DEF Pos
            <4>2. Prefix(Pos)'
                BY <2>3, <4>1 DEF Prefix
            <4> QED
                BY <2>1, <3>2, <4>1, <4>2 DEF Reading, At
        <3> QED
            BY <1>1, <1>3, <2>1, <2>3, <2>5, <3>2, <3>3 DEF DriveFits, Detecting, InLoop, Looking, InStep
    <2> QED
        BY <2>1, <2>3, <2>4, <2>5
<1>10. ASSUME WriteReady PROVE Fits
    <2>1. op.write /\ drive.task = "write" /\ drive.next = op.lba + i /\ drive.left = op.sectors - i /\ Prefix(i)
        BY <1>2, <1>10 DEF WriteReady, At
    <2>2. drive' = Given /\ buffer' = buffer
        BY <2>1 DEF Transfer
    <2>3. buffer[i] \in Int /\ buffer[i] # NoData
        BY <1>2, <1>6, <2>1 DEF Written, NoData
    <2>4. /\ drive' \in Drives /\ drive'.st = "busy" /\ drive'.data = buffer[i]
          /\ drive'.task = "write" /\ drive'.next = op.lba + i /\ drive'.left = op.sectors - i
        BY <1>7, <2>1, <2>2, <2>3, GivenFields
    <2>5. Storing'
        <3>1. i' - 1 = i /\ i' \in 1 .. op.sectors /\ op' = op /\ media' = media
            BY <1>1, <1>2
        <3> QED
            BY <1>2, <2>1, <2>2, <2>4, <3>1 DEF Storing, At, Prefix
    <2>6. CASE i + 1 = op.sectors
        <3>1. LastWrite' /\ drive'.next = op.lba + op.sectors - 1
            BY <1>2, <2>3, <2>4, <2>6 DEF LastWrite
        <3>2. Done'
            BY <1>1, <1>2, <2>1, <2>2, <2>6, <3>1 DEF Done, Prefix
        <3>3. DriveFits'
            BY <1>1, <1>2, <1>3, <2>6, <3>2 DEF DriveFits, Detecting, InLoop, Looking
        <3> QED
            BY <1>6, <2>2, <2>4, <3>3
    <2>7. CASE i + 1 # op.sectors
        BY <1>1, <1>3, <2>2, <2>4, <2>5, <2>7, <1>6 DEF DriveFits, Detecting, InLoop, Looking, InStep
    <2> QED
        BY <1>6, <2>2, <2>4, <2>6, <2>7
<1>11. Fits
    BY <1>4, <1>8, <1>9, <1>10
<1>12. Typed'
    <2>1. drive' \in Drives /\ drive'.st \in Statuses /\ drive'.task \in Tasks
        BY <1>11 DEF Drives
    <2>2. i' \in -1 .. op'.sectors
        BY <1>1, <1>2
    <2>3. TypeOK'
        BY <1>1, <2>1, <2>2 DEF Typed, TypeOK, Statuses, Tasks
    <2> QED
        BY <1>1, <1>2, <1>3, <2>1, <2>3 DEF Typed, InLoop
<1>13. OpKnown'
    BY <1>1, <1>2, <1>3, <1>6, <1>11 DEF OpKnown, InLoop, Looking, Detecting
<1>14. TypeFound' /\ Seen'
    BY <1>1, <1>3 DEF TypeFound, FoundAs, Seen, Detecting, Looking
<1> QED
    BY <1>11, <1>12, <1>13, <1>14

LEMMA AnswersStep == DiskInv /\ Answers => DiskInv'
<1> SUFFICES ASSUME DiskInv, Answers PROVE DiskInv'
    OBVIOUS
<1> USE OpFacts, KindFacts DEF DiskInv
<1>1. drive.st = "busy" /\ UNCHANGED <<kind, type, disk_errors, locals, pc, stat, expired, fails, slow>>
    BY DEF Answers
<1>2. drive \in Drives /\ media \in [Lbas -> Int]
    BY DEF Typed
<1>3. /\ drive' \in Drives /\ drive'.task = drive.task /\ drive'.data = NoData
      /\ \/ /\ drive.data # NoData /\ media' = [media EXCEPT ![drive.next] = drive.data]
            /\ drive'.st = (IF drive.left = 1 THEN "idle" ELSE "drq")
            /\ drive'.next = drive.next + 1 /\ drive'.left = drive.left - 1
         \/ /\ drive.data = NoData /\ media' = media
            /\ drive'.st = (IF drive.task = "none" THEN "idle" ELSE "drq")
            /\ drive'.next = drive.next /\ drive'.left = drive.left
    <2>1. CASE drive.data # NoData
        <3>1. drive' = Stored /\ media' = [media EXCEPT ![drive.next] = drive.data]
            BY <2>1 DEF Answers
        <3> QED
            BY <1>2, <2>1, <3>1, StoredFields
    <2>2. CASE drive.data = NoData
        <3>1. drive' = [drive EXCEPT !.st = IF drive.task = "none" THEN "idle" ELSE "drq"] /\ media' = media
            BY <2>2 DEF Answers, Answer
        <3> QED
            BY <1>2, <2>2, <3>1 DEF Drives, Statuses
    <2> QED
        BY <2>1, <2>2
<1>4. Typed'
    <2>1. media' \in [Lbas -> Int]
        BY <1>2, <1>3 DEF Drives
    <2> QED
        BY <1>1, <1>3, <2>1 DEF Typed, TypeOK, Drives, Statuses, Tasks, locals
<1>5. OpKnown' /\ TypeFound'
    BY <1>1 DEF OpKnown, TypeFound, FoundAs, locals
<1>6. Seen'
    BY <1>1 DEF Seen, locals
<1>7. DriveFits'
    <2>1. pc \in Detecting => /\ drive'.data = NoData /\ drive'.task \in {"none", "identify"}
                              /\ drive'.st = "drq" => drive'.task = "identify"
                              /\ drive'.task = "identify" => Silent' \/ drive'.left = 1
        BY <1>1, <1>2, <1>3 DEF DriveFits, Silent
    <2>2. Quiet => Quiet'
        BY <1>1, <1>2, <1>3 DEF Quiet, Silent, Waking, LastWrite
    <2>3. pc # "return" \/ op # NoOp \/ kind = "none"
        BY <1>1 DEF DriveFits, Silent, Unread
    <2>4. ~Stale /\ ~WriteReady
        BY <1>1 DEF Stale, WriteReady
    <2>5. Reading => Reading'
        BY <1>1, <1>2, <1>3 DEF Reading, At, Prefix, Pos, locals
    <2>6. WriteAsked => WriteReady'
        BY <1>1, <1>2, <1>3 DEF WriteAsked, WriteReady, At, Prefix, Pos, locals
    <2>7. ASSUME Storing, op # NoOp
          PROVE  InStep'
        <3>1. i \in 1 .. op.sectors /\ drive.data = buffer[i - 1] /\ drive.data # NoData /\ op.write
              /\ drive.next = op.lba + (i - 1) /\ drive.left = op.sectors - (i - 1) /\ Prefix(i - 1)
            BY <2>7 DEF Storing, At, OpKnown, Written, NoData
        <3>2. op.lba + (i - 1) \in Lbas /\ drive.task = "write"
            BY <2>7, <3>1 DEF Storing
        <3>3. media' = [media EXCEPT ![op.lba + (i - 1)] = buffer[i - 1]]
            BY <1>3, <3>1
        <3>4. Prefix(i)'
            BY <1>1, <1>2, <3>1, <3>2, <3>3 DEF Prefix, locals
        <3>5. CASE drive.left = 1
            BY <1>2, <1>3, <3>1, <3>5 DEF InStep, Quiet, Silent
        <3>6. CASE drive.left # 1
            <4>1. drive'.st = "drq" /\ drive'.task = "write" /\ drive'.data = NoData
                  /\ drive'.next = op.lba + i /\ drive'.left = op.sectors - i
                BY <1>2, <1>3, <3>1, <3>2, <3>6
            <4> QED
                BY <1>1, <3>1, <3>4, <4>1 DEF InStep, WriteReady, At, Pos, locals
        <3> QED
            BY <3>5, <3>6
    <2>8. ASSUME Done, pc = "return", op # NoOp
          PROVE  Done'
        <3>1. op.write /\ LastWrite /\ drive.next = op.lba + op.sectors - 1
            BY <1>1, <2>8 DEF Done, Silent
        <3>2. media' = [media EXCEPT ![op.lba + op.sectors - 1] = drive.data] /\ Silent'
            BY <1>2, <1>3, <3>1 DEF LastWrite, Silent
        <3>3. \A k \in 0 .. (op.sectors - 1) : k < op.sectors - 1 => media'[op.lba + k] = media[op.lba + k]
            BY <1>2, <2>8, <3>2
        <3> QED
            BY <1>1, <2>8, <3>1, <3>2, <3>3 DEF Done, locals
    <2>9. pc = "command" /\ kind # "none" => Quiet'
        BY <2>2, <2>4 DEF DriveFits
    <2>10. pc \in InLoop /\ kind # "none" => InStep'
        <3>1. pc \in InLoop => op # NoOp
            BY DEF OpKnown, InLoop, Looking, Detecting
        <3> QED
            BY <2>2, <2>4, <2>5, <2>6, <2>7, <3>1 DEF DriveFits, InStep
    <2>11. pc = "return" /\ op # NoOp => Done'
        BY <2>8 DEF DriveFits
    <2>12. UNCHANGED <<pc, kind, op>>
        BY <1>1 DEF locals
    <2> QED
        BY <1>1, <2>1, <2>3, <2>9, <2>10, <2>11, <2>12 DEF DriveFits
<1> QED
    BY <1>4, <1>5, <1>6, <1>7

LEMMA FailsStep == DiskInv /\ Fails => DiskInv'
<1> SUFFICES ASSUME DiskInv, Fails PROVE DiskInv'
    OBVIOUS
<1> USE OpFacts, KindFacts DEF DiskInv
<1>1. drive.st = "busy" /\ UNCHANGED <<kind, media, type, disk_errors, locals, pc, stat, expired, fails, slow>>
    BY DEF Fails
<1>2. drive' = [Ready EXCEPT !.st = "err"]
    BY DEF Fails
<1>3. /\ drive' \in Drives
      /\ Silent' /\ drive'.data = NoData /\ drive'.task = "none" /\ drive'.st = "err"
    BY <1>2 DEF Ready, Drives, Statuses, Tasks, NoData, Silent
<1>4. Typed'
    BY <1>1, <1>3 DEF Typed, TypeOK, Drives, Statuses, Tasks, locals
<1>5. OpKnown' /\ TypeFound'
    BY <1>1 DEF OpKnown, TypeFound, FoundAs, locals
<1>6. Seen'
    BY <1>1 DEF Seen, locals
<1>7. Quiet' /\ InStep'
    BY <1>3 DEF Quiet, InStep
<1>8. Done => Done'
    BY <1>1, <1>3 DEF Done, locals
<1>9. DriveFits'
    BY <1>1, <1>3, <1>7, <1>8 DEF DriveFits, locals
<1> QED
    BY <1>4, <1>5, <1>6, <1>9

LEMMA TickStep == DiskInv /\ Tick => DiskInv'
<1> SUFFICES ASSUME DiskInv, Tick PROVE DiskInv'
    OBVIOUS
<1> USE OpFacts DEF DiskInv, Tick, device, locals
<1>1. Typed'
    BY DiskSizes DEF Typed, TypeOK, Drives, Statuses, Tasks, Detecting, InLoop, Looking, DriveTypes, NoData, IdentifyData, MaxFails
<1>2. OpKnown'
    BY DEF OpKnown, Detecting, InLoop, Looking
<1>3. TypeFound'
    BY DEF TypeFound, FoundAs, Detecting, InLoop, Looking, OpKnown, Typed
<1>4. Seen'
    BY DEF Seen, Detecting, InLoop, Looking, OpKnown, TypeFound
<1>5. DriveFits'
    BY LooksSame DEF Looks, DriveFits, Detecting, InLoop, Looking, OpKnown, TypeFound
<1> QED
    BY <1>1, <1>2, <1>3, <1>4, <1>5

\* A call finds the drive silent, or with the data of the IDENTIFY and more than
\* one sector to read.
LEMMA CallStep ==
    ASSUME NEW o \in Ops \cup {FirstOp}
    PROVE  DiskInv /\ Call(o) => DiskInv'
<1> SUFFICES ASSUME DiskInv, Call(o) PROVE DiskInv'
    OBVIOUS
<1> USE OpFacts DEF DiskInv
<1>1. /\ pc = "return" /\ pc' = "command" /\ op' = o /\ ops' = ops + 1 /\ ops < MaxOps
      /\ i' = -1 /\ fails' = 0
      /\ buffer' = [k \in 0 .. (o.sectors - 1) |-> IF o.write THEN Written(k) ELSE NoData]
      /\ UNCHANGED <<device, type, disk_errors, stat, expired, slow>>
    BY DEF Call
<1>2. o.write \in BOOLEAN /\ o.sectors \in Nat \ {0} /\ o # NoOp
    <2>1. CASE o \in Ops
        BY <2>1, DiskSizes DEF NoOp
    <2>2. CASE o = FirstOp
        BY <2>2, DiskSizes DEF FirstOp, NoOp
    <2> QED
        BY <2>1, <2>2
<1>3. ops \in 0 .. MaxOps /\ MaxOps \in Nat
    BY DiskSizes DEF Typed, TypeOK
<1>4. ops = 0 => ~o.write /\ o.sectors > 1
    <2>1. ops = 0 => o = FirstOp
        BY <1>3 DEF Call
    <2> QED
        BY <2>1, DiskSizes DEF FirstOp
<1>5. Typed'
    <2>1. i' \in -1 .. op'.sectors /\ fails' \in 0 .. MaxFails /\ ops' \in 0 .. MaxOps
        BY <1>1, <1>2, <1>3 DEF MaxFails
    <2>2. UNCHANGED <<kind, drive, media, type, disk_errors, stat, expired, slow>>
        BY <1>1 DEF device
    <2>3. TypeOK'
        BY <2>1, <2>2 DEF Typed, TypeOK
    <2> QED
        BY <1>1, <2>2, <2>3 DEF Typed
<1>6. OpKnown'
    <2>1. buffer' \in [0 .. (op'.sectors - 1) -> Int]
        BY <1>1 DEF Written, NoData
    <2>2. op'.write => \A k \in 0 .. (op'.sectors - 1) : buffer'[k] = Written(k)
        BY <1>1
    <2>3. (op' = NoOp <=> ops' = 0) /\ op' # NoOp
        BY <1>1, <1>2, <1>3
    <2> QED
        BY <1>1, <2>1, <2>2, <2>3 DEF OpKnown, Detecting, InLoop, Looking
<1>7. TypeFound' /\ Seen'
    BY <1>1 DEF TypeFound, FoundAs, Seen, Detecting, Looking, device
<1>8. kind # "none" => Quiet' \/ Stale'
    <2>1. CASE op = NoOp /\ kind # "none"
        <3>1. Silent \/ Unread
            BY <1>1, <2>1 DEF DriveFits
        <3>2. ops = 0
            BY <2>1 DEF OpKnown
        <3> QED
            BY <1>1, <1>4, <3>1, <3>2 DEF Quiet, Silent, Unread, Stale, device
    <2>2. CASE op # NoOp
        <3>1. Silent \/ LastWrite
            BY <1>1, <2>2 DEF DriveFits, Done
        <3> QED
            BY <1>1, <3>1 DEF Quiet, Silent, LastWrite, device
    <2> QED
        BY <2>1, <2>2
<1>9. DriveFits'
    BY <1>1, <1>8 DEF DriveFits, Detecting, InLoop, Looking, device
<1> QED
    BY <1>5, <1>6, <1>7, <1>9

LEMMA StutterStep == DiskInv /\ UNCHANGED vars => DiskInv'
<1> SUFFICES ASSUME DiskInv, UNCHANGED vars PROVE DiskInv'
    OBVIOUS
<1>1. UNCHANGED <<kind, drive, media, type, disk_errors, op, ops, pc, i, buffer, stat, expired, fails, slow>>
    BY DEF vars, device, locals
<1>2. Typed' /\ OpKnown'
    BY <1>1 DEF DiskInv, Typed, TypeOK, OpKnown
<1>3. TypeFound' /\ Seen'
    BY <1>1 DEF DiskInv, TypeFound, FoundAs, Seen
<1>4. DriveFits'
    BY <1>1, LooksSame DEF DiskInv, DriveFits, Looks, device, locals
<1> QED
    BY <1>2, <1>3, <1>4 DEF DiskInv

LEMMA DiskAlways == Spec => []DiskInv
<1>1. DiskInv /\ [Next]_vars => DiskInv'
    BY ResetToDetectStep, IdentifyStep, SettleStep, IdentifiedStep, CommandStep, WaitStep, PollBusyStep,
       PollDataStep, CheckErrorBeforeStep, CheckErrorAfterStep, CheckLateStep, TransferStep, AnswersStep,
       FailsStep, TickStep, CallStep, StutterStep DEF Next, Driver
<1> QED
    BY InitDisk, <1>1, PTL DEF Spec

-----------------------------------------------------------------------------
\* What read_disk returns is what the drive holds, and when write_disk returns the
\* drive holds all but the last sector of it: for a drive and for operations of
\* any size, and after any failures, resets and late answers.
THEOREM OperationsAreRight == Spec => []OpRight
<1>1. DiskInv => OpRight
    BY DEF DiskInv, DriveFits, Done, OpRight, Returned
<1> QED
    BY DiskAlways, <1>1, PTL

\* init_disk takes every drive but a SATA one for what it is, and nothing is
\* there when it says so.
THEOREM TypesAreRight == ASSUME "SATA" \notin Kinds PROVE Spec => []TypeRight
<1>1. DiskInv => TypeRight
    BY DEF DiskInv, Typed, TypeFound, FoundAs, TypeRight
<1> QED
    BY DiskAlways, <1>1, PTL
=============================================================================
