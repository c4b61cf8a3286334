-------------------------------- MODULE Boot --------------------------------
(***************************************************************************)
(* From the master boot record to main(): mbr.asm and boot.asm load sectors *)
(* of the image with the BIOS, extended_boot.asm asks it for the memory     *)
(* map, opens the A20 gate and enters long mode.  The BIOS, the disk and    *)
(* the keyboard controller answer as they like.                            *)
(***************************************************************************)
EXTENDS Integers, FiniteSetsExt

CONSTANTS
    KernelSize,     \* sectors of kernel.bin in the archive
    MaxRegions,     \* bound: how many entries the memory map has before its last
    MaxKeys,        \* bound: keys pressed while the controller sets the gate
    GatePolls       \* 65535, the last looks at the gate

ASSUME BootSizes == {KernelSize, MaxRegions, MaxKeys} \subseteq Nat /\ GatePolls \in Nat \ {0}

VARIABLES
    place, said,        \* where the processor is; the message it stopped with, by its label
    reads,              \* [lba, at, n]: n sectors of the image, read to address `at`
    sectors,            \* file_size of boot.asm, kernel_sectors of extended_boot.asm
    entries, regions,   \* entries that the BIOS stored; memory_region_count
    gate,               \* A20: "off", "coming", "on"
    input, output, keyboard,    \* the controller's buffers; whether it takes keys
    value, polls, keys  \* al for the output port; bx; keys pressed so far

disk == <<reads, sectors>>
map == <<entries, regions>>
controller == <<input, output, keyboard, value, keys>>
boot == <<place, said, disk, map, gate, controller, polls>>

Goto(p) == place' = p /\ UNCHANGED said
Stop(m) == place' = "stopped" /\ said' = m

-----------------------------------------------------------------------------
(* mbr.asm and boot.asm.                                                     *)

\* The image: mbr.bin, boot.bin, and the archive with one file.
BootLba == 1
HeaderLba == 2
KernelLba == 3

PartitionTable == <<[active |-> TRUE, lba |-> BootLba], [active |-> FALSE, lba |-> 0],
                    [active |-> FALSE, lba |-> 0], [active |-> FALSE, lba |-> 0]>>
Found == PartitionTable[Min({k \in 1 .. 4 : PartitionTable[k].active})]

\* Cylinder, head and sector as boot.asm computes them, and what the drive,
\* which has more sectors on a track and more heads, finds there.
Chs(lba) == [c |-> (lba \div 18) \div 2, h |-> (lba \div 18) % 2, s |-> (lba % 18) + 1]
Lba(chs) == (chs.c * 16 + chs.h) * 63 + chs.s - 1

Loaded(chs, at, n) == reads' = reads \cup {[lba |-> Lba(chs), at |-> at, n |-> n]}

\* int 0x13.  A read error stops the machine.
Read(chs, at, n, next, error) ==
    /\ \/ Stop(error) /\ UNCHANGED reads
       \/ Goto(next) /\ Loaded(chs, at, n)
    /\ UNCHANGED <<map, gate, controller, polls>>

ReadVbr == /\ place = "mbr" /\ UNCHANGED sectors
           /\ Read([c |-> 0, h |-> 0, s |-> (Found.lba + 1) % 256], 31744, 1, "tar", "error")

ReadTar == /\ place = "tar" /\ UNCHANGED sectors
           /\ Read([c |-> 0, h |-> 0, s |-> 3], 24576, 1, "parse", "disk_error")

\* convert_to_int: mul overwrites the digit in dx, so every size reads the same.
Digits[k \in 0 .. 11] ==
    IF k = 0 THEN 0
    ELSE LET prev == Digits[k - 1]
         IN  (prev * 8 + (prev * 8) \div 65536 - 48) % 65536
Converted == Digits[11]
Size == ((Converted + 511) \div 512 + 1) % 256

\* jle compares with -128, which no size is below: whatever Size is,
FirstPart == 128

ParseTar == /\ place = "parse"
            /\ \/ Stop("silent") /\ UNCHANGED disk        \* another name: jmp $
               \/ /\ sectors' = Size
                  /\ Read(Chs(KernelLba), 32768, FirstPart, "e820", "disk_error")
            /\ UNCHANGED <<map, gate, controller, polls>>

-----------------------------------------------------------------------------
(* extended_boot.asm: the memory map.                                       *)

\* One int 0x15.  The end is an entry with ebx = 0, or no entry and ebx = 0.
detect_memory ==
    /\ place = "e820"
    /\ \E last, stored \in BOOLEAN :
         /\ last \/ (stored /\ entries < MaxRegions)
         /\ entries' = entries + (IF stored THEN 1 ELSE 0)
         /\ regions' = IF last THEN regions ELSE (regions + 1) % 256
         /\ Goto(IF last THEN "a20" ELSE "e820")
    /\ UNCHANGED <<disk, gate, controller, polls>>

-----------------------------------------------------------------------------
(* extended_boot.asm: the A20 gate.  A20check leaves enableA20 when memory no *)
(* longer wraps at one megabyte.                                              *)

Otherwise == [a20 |-> "bios", activated |-> "kbc", after_kbc |-> "fast"]

\* Writes at 0x500 and 0x100500 and compares.
check_a20 == gate = "on"

A20check ==
    /\ place \in DOMAIN Otherwise
    /\ Goto(IF check_a20 THEN "pm" ELSE Otherwise[place])
    /\ UNCHANGED <<disk, map, gate, controller, polls>>

a20_bios_func ==
    /\ place = "bios"
    /\ \/ Stop("a20_ns") /\ UNCHANGED gate
       \/ Stop("a20_off") /\ UNCHANGED gate
       \/ gate = "on" /\ Goto("pm") /\ UNCHANGED gate
       \/ gate # "on" /\ Goto("activated") /\ gate' \in {gate, "coming"}
    /\ UNCHANGED <<disk, map, controller, polls>>

\* a20wait: the input buffer is empty.
Send(c, from, to) == place = from /\ input = "none" /\ input' = c /\ Goto(to)

a20_kbc ==
    /\ \/ /\ \/ Send("AD", "kbc", "kbc_ask") \/ Send("D0", "kbc_ask", "kbc_read")
             \/ Send("D1", "kbc_write", "kbc_port") \/ Send(value, "kbc_port", "kbc_enable")
             \/ Send("AE", "kbc_enable", "kbc_end")
          /\ UNCHANGED <<output, value>>
       \/ /\ place = "kbc_read" /\ output # "none"          \* a20wait2
          /\ value' = output /\ output' = "none" /\ Goto("kbc_write") /\ UNCHANGED input
       \/ /\ place = "kbc_end" /\ input = "none"
          /\ Goto("after_kbc") /\ UNCHANGED <<input, output, value>>
    /\ UNCHANGED <<disk, map, gate, keyboard, keys, polls>>

fastA20 ==
    /\ place = "fast" /\ Goto("poll") /\ polls' = GatePolls
    /\ gate' \in {gate, IF gate = "off" THEN "coming" ELSE gate}
    /\ UNCHANGED <<disk, map, controller>>

chk_loop ==
    /\ place = "poll"
    /\ polls' = polls - 1
    /\ IF check_a20 THEN Goto("pm")
       ELSE IF polls > 1 THEN Goto("poll")
       ELSE Stop("a20_off")
    /\ UNCHANGED <<disk, map, gate, controller>>

GateOpens == /\ gate = "coming" /\ gate' = "on"
             /\ UNCHANGED <<place, said, disk, map, controller, polls>>

\* The controller takes a byte.  A scan code in place of the value of the output
\* port has any bits: with bit 0 clear it resets the machine.
Take ==
    /\ input # "none" /\ input' = "none"
    /\ keyboard' = (input # "AD" /\ (keyboard \/ input = "AE"))
    /\ output' = IF input = "D0" THEN "port" ELSE output
    /\ gate' \in IF input \in {"port", "scan"} /\ gate = "off" THEN {"off", "coming"} ELSE {gate}
    /\ UNCHANGED <<place, said, disk, map, value, keys, polls>>

Reset ==
    /\ input = "scan"
    /\ Goto("mbr") /\ reads' = {} /\ sectors' = 0 /\ entries' = 0 /\ regions' = 0 /\ polls' = 0
    /\ input' = "none" /\ output' = "none" /\ keyboard' = TRUE /\ value' = "none"
    /\ gate' \in {"off", "on"} /\ UNCHANGED keys

Key == /\ place \in {"kbc", "kbc_ask", "kbc_read"} /\ keyboard /\ output = "none" /\ keys < MaxKeys
       /\ output' = "scan" /\ keys' = keys + 1
       /\ UNCHANGED <<place, said, disk, map, gate, input, keyboard, value, polls>>

-----------------------------------------------------------------------------
(* extended_boot.asm: protected mode and long mode.                          *)

\* What setup_identity_paging writes into its seven tables: <<table, index>> to
\* the table or page.  The rest is assumed to be zero.
BootTables ==
    [e \in {<<0, 0>>, <<1, 0>>} \cup ({2} \X (0 .. 3)) \cup ((3 .. 6) \X (0 .. 511)) |->
        IF e[1] < 2 THEN e[1] + 1 ELSE IF e[1] = 2 THEN 3 + e[2] ELSE (e[1] - 3) * 512 + e[2]]

enter_long_mode ==
    /\ place = "pm"
    /\ Goto("vga") \/ Stop("nocpuid") \/ Stop("nolmode")
    /\ UNCHANGED <<disk, map, gate, controller, polls>>

BootInit ==
    /\ place = "mbr" /\ said = "" /\ reads = {} /\ sectors = 0 /\ entries = 0 /\ regions = 0
    /\ input = "none" /\ output = "none" /\ keyboard = TRUE /\ value = "none"
    /\ gate \in {"off", "coming", "on"} /\ keys = 0 /\ polls = 0

BootCode == \/ ReadVbr \/ ReadTar \/ ParseTar \/ detect_memory \/ A20check \/ a20_bios_func
            \/ a20_kbc \/ fastA20 \/ chk_loop \/ enter_long_mode
BootDevices == GateOpens \/ Take \/ Reset \/ Key
=============================================================================
