--------------------------- MODULE StartUpProofs ---------------------------
(***************************************************************************)
(* What start-up promises for any memory map, any firmware, any number of   *)
(* polls and any keys: no interrupt comes without a gate or is left in      *)
(* service, ACPI is reported enabled only when it is, and main() finds the  *)
(* kernel, the memory map, the A20 gate and the page tables in place.       *)
(***************************************************************************)
EXTENDS StartUp, TLAPS

\* The places before interrupts are enabled, in the order of the code.
BootPlaces == {"mbr", "tar", "parse", "e820", "a20", "bios", "activated", "kbc", "kbc_ask",
               "kbc_read", "kbc_write", "kbc_port", "kbc_enable", "kbc_end", "after_kbc",
               "fast", "poll", "pm", "vga"}
BeforeSti == BootPlaces \cup {"remap", "mask", "sti"}
BeforeAcpi == BeforeSti \cup {"gate", "unmask", "rest", "init_acpi"}

\* The controller resets the machine only while a20_kbc waits for it.
ResetEarly == input = "scan" => place = "kbc_enable"

\* When interrupts are enabled, each line that is not masked has a gate.
GatesReady ==
    /\ iflag \in BOOLEAN
    /\ place \in BeforeSti => ~iflag
    /\ place \in {"remap", "mask", "sti"} => gates = InitialGates
    /\ place \in {"mask", "sti"} => base = 32
    /\ place = "sti" => "timer" \in masked
    /\ place = "unmask" => 32 \in gates
    /\ iflag => base = 32 /\ InitialGates \subseteq gates /\ ("timer" \in masked \/ 32 \in gates)

\* Both control blocks that exist.
Blocks == {"pm1a"} \cup (IF fw.pm1b THEN {"pm1b"} ELSE {})

\* What the shared counter says of the loops that are over.
PollsRight ==
    /\ count \in Nat
    /\ sci = {} \/ sci \subseteq Blocks
    /\ place \in BeforeAcpi => ~asked /\ sci = {} /\ report # "enabled"
    /\ place \in {"pm1b", "sleep_pm1b", "wait_pm1b"} /\ count < EnablePolls => "pm1a" \in sci
    /\ place = "verdict" /\ count < EnablePolls => Blocks \subseteq sci
    /\ report = "enabled" => Blocks \subseteq sci
    /\ caller \in {"running", "announce"}

StartInv == ResetEarly /\ AllHandled /\ GatesReady /\ PollsRight
-----------------------------------------------------------------------------
(* The boot code and the devices it talks to.                                *)

LEMMA BootCodeStays ==
    ASSUME ResetEarly, BootCode
    PROVE  /\ place \in BootPlaces /\ place' \in BootPlaces \cup {"stopped"}
           /\ ResetEarly'
<1> USE DEF Goto, Stop, BootPlaces, ResetEarly
<1>1. CASE ReadVbr
    <2>1. place = "mbr" /\ (place' = "stopped" \/ place' = "tar")
        BY <1>1 DEF ReadVbr, Read, Goto, Stop
    <2>2. UNCHANGED controller
        BY <1>1 DEF ReadVbr, Read
    <2> QED
        BY <2>1, <2>2 DEF controller
<1>2. CASE ReadTar
    <2>1. place = "tar" /\ (place' = "stopped" \/ place' = "parse")
        BY <1>2 DEF ReadTar, Read, Goto, Stop
    <2>2. UNCHANGED controller
        BY <1>2 DEF ReadTar, Read
    <2> QED
        BY <2>1, <2>2 DEF controller
<1>3. CASE ParseTar
    <2>1. place = "parse" /\ (place' = "stopped" \/ place' = "e820")
        BY <1>3 DEF ParseTar, Read, Goto, Stop
    <2>2. UNCHANGED controller
        BY <1>3 DEF ParseTar, Read
    <2> QED
        BY <2>1, <2>2 DEF controller
<1>4. CASE detect_memory
    BY <1>4 DEF detect_memory, controller
<1>5. CASE A20check
    BY <1>5 DEF A20check, Otherwise, controller
<1>6. CASE a20_bios_func
    BY <1>6 DEF a20_bios_func, controller
<1>7. CASE a20_kbc
    BY <1>7 DEF a20_kbc, Send
<1>8. CASE fastA20
    BY <1>8 DEF fastA20, controller
<1>9. CASE chk_loop
    BY <1>9 DEF chk_loop, controller
<1>10. CASE enter_long_mode
    BY <1>10 DEF enter_long_mode, controller
<1> QED
    BY <1>1, <1>2, <1>3, <1>4, <1>5, <1>6, <1>7, <1>8, <1>9, <1>10 DEF BootCode

LEMMA BootDevicesStay ==
    ASSUME ResetEarly, BootDevices
    PROVE  /\ place' = place \/ (place \in BootPlaces /\ place' = "mbr")
           /\ ResetEarly'
<1>1. CASE GateOpens
    BY <1>1 DEF GateOpens, ResetEarly, controller
<1>2. CASE Take
    BY <1>2 DEF Take, ResetEarly
<1>3. CASE Reset
    BY <1>3 DEF Reset, Goto, ResetEarly, BootPlaces
<1>4. CASE Key
    BY <1>4 DEF Key, ResetEarly
<1> QED
    BY <1>1, <1>2, <1>3, <1>4 DEF BootDevices

\* Before main, nothing of the kernel's has changed.
LEMMA EarlyKeepsInv ==
    ASSUME StartInv, UNCHANGED <<interrupts, acpi>>, ResetEarly',
           place' = place \/ (place \in BootPlaces /\ place' \in BootPlaces \cup {"stopped"})
    PROVE  StartInv'
<1>1. UNCHANGED <<iflag, gates, base, masked, serviced, unhandled>>
    BY DEF interrupts, setup, lines
<1>2. UNCHANGED <<fw, sci, asked, count, report, caller>>
    BY DEF acpi
<1>3. AllHandled' /\ GatesReady'
    BY <1>1 DEF StartInv, AllHandled, GatesReady, BootPlaces, BeforeSti
<1>4. PollsRight'
    BY <1>2 DEF StartInv, PollsRight, Blocks, BootPlaces, BeforeSti, BeforeAcpi
<1> QED
    BY <1>3, <1>4 DEF StartInv

-----------------------------------------------------------------------------
(* main: init_idt and init_timer, in their order.                            *)

LEMMA SetUpKeepsInv ==
    ASSUME StartInv, SetUp
    PROVE  StartInv'
<1> USE DEF Set, Goto, StartInv
<1>1. /\ place \in {"vga", "remap", "mask", "sti", "gate", "unmask"}
      /\ place' \in {"remap", "mask", "sti", "gate", "unmask", "rest"}
      /\ serviced' \subseteq serviced /\ unhandled' = unhandled
    BY DEF SetUp, fill_idt, pic_remap, mask_lines, OnlyKeyboard, sti, register_timer,
           unmask_timer, lines, setup, AllHandled
<1>2. UNCHANGED <<input, fw, sci, asked, count, report, caller>>
    BY DEF SetUp, controller, acpi
<1>3. ResetEarly' /\ PollsRight'
    BY <1>1, <1>2 DEF ResetEarly, PollsRight, Blocks, BeforeAcpi, BeforeSti, BootPlaces
<1>4. GatesReady'
    <2> USE DEF GatesReady, BeforeSti, BootPlaces, InitialGates
    <2>1. CASE Set("vga", "remap", fill_idt)
        BY <2>1 DEF fill_idt
    <2>2. CASE Set("remap", "mask", pic_remap)
        BY <2>2 DEF pic_remap
    <2>3. CASE Set("mask", "sti", mask_lines)
        BY <2>3 DEF mask_lines, OnlyKeyboard
    <2>4. CASE Set("sti", "gate", sti)
        BY <2>4 DEF sti, setup
    <2>5. CASE Set("gate", "unmask", register_timer)
        BY <2>5 DEF register_timer
    <2>6. CASE Set("unmask", "rest", unmask_timer)
        BY <2>6 DEF unmask_timer
    <2> QED
        BY <2>1, <2>2, <2>3, <2>4, <2>5, <2>6 DEF SetUp
<1> QED
    BY <1>1, <1>3, <1>4 DEF AllHandled

-----------------------------------------------------------------------------
(* The interrupts.                                                           *)

LEMMA NumberOfLine ==
    ASSUME NEW l \in Lines
    PROVE  \/ l = "timer" /\ Number[l] = 0
           \/ l = "keyboard" /\ Number[l] = 1
           \/ l = "mouse" /\ Number[l] = 12
BY DEF Lines, Number

\* A handler ends with the interrupt out of service.
LEMMA OneInService == ASSUME NEW l \in Lines PROVE Eoi({l}) = {}
<1>1. Number[l] \in Int
    BY NumberOfLine
<1>2. ~(Number[l] < Number[l])
    BY <1>1
<1> QED
    BY <1>2 DEF Eoi

LEMMA InterruptKeepsInv ==
    ASSUME StartInv, NEW l \in Lines, Interrupt(l), UNCHANGED <<boot, acpi>>
    PROVE  StartInv'
<1>1. base + Number[l] \in gates
    <2>1. iflag /\ l \notin masked
        BY DEF Interrupt, Taken
    <2>2. /\ base = 32 /\ {33, 44} \subseteq gates
          /\ "timer" \in masked \/ 32 \in gates
        BY <2>1 DEF StartInv, GatesReady, InitialGates
    <2> QED
        BY <2>1, <2>2, NumberOfLine
<1>2. serviced' = {} /\ unhandled' = FALSE /\ iflag' = iflag
    BY <1>1, OneInService DEF Interrupt, StartInv, AllHandled
<1>3. UNCHANGED <<gates, base, masked>>
    BY DEF Interrupt, setup
<1>4. UNCHANGED <<place, input, fw, sci, asked, count, report, caller>>
    BY DEF boot, controller, acpi
<1> QED
    BY <1>2, <1>3, <1>4 DEF StartInv, ResetEarly, AllHandled, GatesReady, PollsRight, Blocks

LEMMA RequestKeepsInv ==
    ASSUME StartInv, NEW l, Request(l), UNCHANGED <<boot, acpi>>
    PROVE  StartInv'
<1>1. UNCHANGED <<iflag, gates, base, masked, serviced, unhandled>>
    BY DEF Request, setup
<1>2. UNCHANGED <<place, input, fw, sci, asked, count, report, caller>>
    BY DEF boot, controller, acpi
<1> QED
    BY <1>1, <1>2 DEF StartInv, ResetEarly, AllHandled, GatesReady, PollsRight, Blocks

-----------------------------------------------------------------------------
(* The rest of the kernel, and ACPI.                                         *)

\* What the steps after the set-up leave of the interrupts.
Calm == /\ iflag' = iflag \/ iflag' = FALSE
        /\ UNCHANGED <<gates, base, masked, serviced, unhandled>>

LEMMA CalmSteps ==
    /\ UNCHANGED interrupts => Calm
    /\ cli => Calm
    /\ Store => Calm
    /\ \A ms : Argument(ms) => Calm
<1>1. UNCHANGED interrupts => Calm
    BY DEF interrupts, setup, lines, Calm
<1>2. cli => Calm
    BY DEF cli, setup, lines, Calm
<1>3. Store => Calm
    BY DEF Store, setup, lines, Calm
<1>4. ASSUME NEW ms, Argument(ms) PROVE Calm
    BY <1>4 DEF Argument, setup, lines, Calm
<1> QED
    BY <1>1, <1>2, <1>3, <1>4

\* Once main has set up, the interrupts stay as they are.
LEMMA CalmKeepsGates ==
    ASSUME StartInv, Calm, input' = input, place \notin BeforeSti, place' \notin BeforeSti,
           place' # "unmask", place # "kbc_enable"
    PROVE  ResetEarly' /\ AllHandled' /\ GatesReady'
<1>1. ResetEarly' /\ AllHandled'
    BY DEF StartInv, Calm, ResetEarly, AllHandled
<1>2. iflag \in BOOLEAN
    BY DEF StartInv, GatesReady
<1>3. iflag' \in BOOLEAN /\ (iflag' => iflag)
    <2>1. CASE iflag' = iflag
        BY <1>2, <2>1
    <2>2. CASE iflag' = FALSE
        BY <2>2
    <2> QED
        BY <2>1, <2>2 DEF Calm
<1>4. place' \notin {"remap", "mask", "sti", "unmask"}
    BY DEF BeforeSti
<1>5. UNCHANGED <<gates, base, masked>>
    BY DEF Calm
<1>6. iflag => base = 32 /\ InitialGates \subseteq gates /\ ("timer" \in masked \/ 32 \in gates)
    BY DEF StartInv, GatesReady
<1>7. InitialGates' = InitialGates
    BY DEF InitialGates, Exceptions
<1> QED
    BY <1>1, <1>3, <1>4, <1>5, <1>6, <1>7 DEF GatesReady

LEMMA ReadRestKeepsInv ==
    ASSUME StartInv, ReadRest
    PROVE  StartInv'
<1>1. Calm
    BY CalmSteps DEF ReadRest, Halt
<1>2. /\ place = "rest" /\ place' \in {"stopped", "init_acpi"} /\ input' = input
      /\ UNCHANGED <<fw, sci, asked, count, report, caller>>
    BY DEF ReadRest, Halt, Stop, Goto, controller, acpi
<1>3. ResetEarly' /\ AllHandled' /\ GatesReady'
    BY <1>1, <1>2, CalmKeepsGates DEF BeforeSti, BootPlaces
<1>4. PollsRight'
    BY <1>2 DEF StartInv, PollsRight, Blocks, BeforeAcpi
<1> QED
    BY <1>3, <1>4 DEF StartInv

AcpiPlaces == {"init_acpi", "enable", "pm1a", "pm1b", "sleep_pm1a", "sleep_pm1b", "wait_pm1a",
               "wait_pm1b", "verdict", "announce", "sleep_off", "wait_off", "send_a", "send_b"}
AfterAcpi == (AcpiPlaces \ {"init_acpi"}) \cup {"running", "off", "stopped"}

\* Every step of acpi.cpp is one of main, and goes on in acpi.cpp or ends there.
LEMMA AcpiStays ==
    ASSUME caller \in {"running", "announce"}, AcpiCode
    PROVE  place \in AcpiPlaces /\ place' \in AfterAcpi /\ Calm /\ input' = input
<1> USE DEF Halt, Goto, Stop, AcpiPlaces, AfterAcpi, Rest, controller
<1>1. CASE init_acpi
    BY <1>1, CalmSteps DEF init_acpi
<1>2. CASE enable_acpi
    BY <1>2, CalmSteps DEF enable_acpi
<1>3. CASE Poll("pm1a")
    BY <1>3, CalmSteps DEF Poll, After
<1>4. CASE Poll("pm1b")
    BY <1>4, CalmSteps DEF Poll, After
<1>5. CASE Verdict
    BY <1>5, CalmSteps DEF Verdict
<1>6. CASE Announce
    BY <1>6, CalmSteps DEF Announce
<1>7. CASE SendTypA
    BY <1>7, CalmSteps DEF SendTypA, Write
<1>8. CASE Write("pm1b", "send_b", "off")
    BY <1>8, CalmSteps DEF Write
<1>9. CASE sleep
    BY <1>9, CalmSteps DEF sleep, SleepPlaces, AfterSleep
<1> QED
    BY <1>1, <1>2, <1>3, <1>4, <1>5, <1>6, <1>7, <1>8, <1>9 DEF AcpiCode

\* None of them changes what the boot code left.
LEMMA AcpiLeavesBoot ==
    ASSUME AcpiCode
    PROVE  UNCHANGED <<disk, map, gate>>
<1> USE DEF Rest, Halt
<1>1. CASE init_acpi
    BY <1>1 DEF init_acpi
<1>2. CASE enable_acpi
    BY <1>2 DEF enable_acpi
<1>3. CASE Poll("pm1a")
    BY <1>3 DEF Poll
<1>4. CASE Poll("pm1b")
    BY <1>4 DEF Poll
<1>5. CASE Verdict
    BY <1>5 DEF Verdict
<1>6. CASE Announce
    BY <1>6 DEF Announce
<1>7. CASE SendTypA
    BY <1>7 DEF SendTypA, Write
<1>8. CASE Write("pm1b", "send_b", "off")
    BY <1>8 DEF Write
<1>9. CASE sleep
    BY <1>9 DEF sleep
<1> QED
    BY <1>1, <1>2, <1>3, <1>4, <1>5, <1>6, <1>7, <1>8, <1>9 DEF AcpiCode

\* The loops of enable_acpi count on, and what is over stays over.
LEMMA AcpiKeepsPolls ==
    ASSUME PollsRight, AcpiCode, place \in AcpiPlaces, place' \in AfterAcpi
    PROVE  PollsRight'
<1> USE DEF PollsRight, Blocks, AfterAcpi, AcpiPlaces, BeforeAcpi, BeforeSti, BootPlaces,
            Halt, Goto, Stop, Rest
<1> USE AcpiTimes
<1>1. CASE init_acpi
    BY <1>1 DEF init_acpi
<1>2. CASE enable_acpi
    BY <1>2 DEF enable_acpi
<1>3. CASE Poll("pm1a")
    BY <1>3 DEF Poll, After
<1>4. CASE Poll("pm1b")
    BY <1>4 DEF Poll, After
<1>5. CASE Verdict
    BY <1>5 DEF Verdict, BothInTime
<1>6. CASE Announce
    BY <1>6 DEF Announce
<1>7. CASE SendTypA
    BY <1>7 DEF SendTypA, Write
<1>8. CASE Write("pm1b", "send_b", "off")
    BY <1>8 DEF Write
<1>9. CASE sleep
    BY <1>9 DEF sleep, SleepPlaces, AfterSleep, acpi
<1> QED
    BY <1>1, <1>2, <1>3, <1>4, <1>5, <1>6, <1>7, <1>8, <1>9 DEF AcpiCode

LEMMA AcpiKeepsInv ==
    ASSUME StartInv, AcpiCode
    PROVE  StartInv'
<1>1. caller \in {"running", "announce"} /\ PollsRight
    BY DEF StartInv, PollsRight
<1>2. place \in AcpiPlaces /\ place' \in AfterAcpi /\ Calm /\ input' = input
    BY <1>1, AcpiStays
<1>3. PollsRight'
    BY <1>1, <1>2, AcpiKeepsPolls
<1>4. /\ place \notin BeforeSti /\ place' \notin BeforeSti
      /\ place' # "unmask" /\ place # "kbc_enable"
    BY <1>2 DEF AcpiPlaces, AfterAcpi, BeforeSti, BootPlaces
<1>5. ResetEarly' /\ AllHandled' /\ GatesReady'
    BY <1>2, <1>4, CalmKeepsGates
<1> QED
    BY <1>3, <1>5 DEF StartInv

LEMMA ShutdownKeepsInv ==
    ASSUME StartInv, shutdown
    PROVE  StartInv'
<1>1. /\ place = "running" /\ place' = "enable" /\ input' = input /\ caller' = "announce"
      /\ UNCHANGED <<fw, sci, count, report>>
    BY DEF shutdown, Goto, Rest, controller
<1>2. Calm
    BY CalmSteps DEF shutdown
<1>3. ResetEarly' /\ AllHandled' /\ GatesReady'
    BY <1>1, <1>2, CalmKeepsGates DEF BeforeSti, BootPlaces
<1>4. PollsRight'
    BY <1>1 DEF StartInv, PollsRight, Blocks, BeforeAcpi, BeforeSti, BootPlaces
<1> QED
    BY <1>3, <1>4 DEF StartInv

LEMMA SciKeepsInv ==
    ASSUME StartInv, SciEnabled
    PROVE  StartInv'
<1>1. UNCHANGED <<place, input, iflag, gates, base, masked, serviced, unhandled>>
    BY DEF SciEnabled, boot, controller, interrupts, setup, lines
<1>2. ResetEarly' /\ AllHandled' /\ GatesReady'
    BY <1>1 DEF StartInv, ResetEarly, AllHandled, GatesReady
<1>3. PollsRight'
    BY <1>1 DEF SciEnabled, StartInv, PollsRight, Blocks
<1> QED
    BY <1>2, <1>3 DEF StartInv

-----------------------------------------------------------------------------
(* What mbr.asm, boot.asm and extended_boot.asm hand to main.                *)

\* What has been read once the boot code is past each of its reads.
Vbr == [lba |-> BootLba, at |-> 31744, n |-> 1]
Header == [lba |-> HeaderLba, at |-> 24576, n |-> 1]
First == [lba |-> KernelLba, at |-> 32768, n |-> 128]
Rest15 == [lba |-> RestLba, at |-> 98304, n |-> 15]

ImageRead ==
    /\ place \notin {"mbr", "stopped"} => Vbr \in reads
    /\ place \notin {"mbr", "tar", "stopped"} => Header \in reads
    /\ place \notin {"mbr", "tar", "parse", "stopped"} => First \in reads /\ sectors = 15
    /\ place = "init_acpi" => Rest15 \in reads

\* The count of regions follows the entries until the last of them.
RegionsFollow ==
    /\ entries \in Nat /\ regions \in Nat
    /\ place \in {"mbr", "tar", "parse"} => entries = 0 /\ regions = 0
    /\ place = "e820" => regions = entries /\ entries <= MaxRegions
    /\ place \in BootPlaces \ {"mbr", "tar", "parse", "e820"} => RegionsCounted

\* No way leads on to protected mode before the gate is open.
GateOpen == place \in {"pm", "vga"} => gate = "on"

HandOver == ImageRead /\ RegionsFollow /\ GateOpen

\* The lba that the BIOS finds at the cylinder, head and sector of each read.
LEMMA ReadsAreRight ==
    /\ Lba([c |-> 0, h |-> 0, s |-> (Found.lba + 1) % 256]) = BootLba
    /\ Lba([c |-> 0, h |-> 0, s |-> 3]) = HeaderLba
    /\ Lba(Chs(KernelLba)) = KernelLba
<1>1. Found.lba = 1
    <2>1. {k \in 1 .. 4 : PartitionTable[k].active} = {1}
        BY DEF PartitionTable
    <2>2. Min({1}) = 1
        BY DEF Min
    <2> QED
        BY <2>1, <2>2 DEF Found, PartitionTable, BootLba
<1>2. (Found.lba + 1) % 256 = 2
    BY <1>1
<1>3. Chs(KernelLba) = [c |-> 0, h |-> 0, s |-> 4]
    BY DEF Chs, KernelLba
<1> QED
    BY <1>2, <1>3 DEF Lba, BootLba, HeaderLba, KernelLba

\* convert_to_int makes the same of every size: where the next digit was, mul has
\* left the high word of its product.
NextDigit(prev) == (prev * 8 + (prev * 8) \div 65536 - 48) % 65536

LEMMA DigitsFollow ==
    /\ Digits[0] = 0
    /\ \A k \in 1 .. 11 : Digits[k] = NextDigit(Digits[k - 1])
<1> DEFINE Along(f) == f = [k \in 0 .. 11 |-> IF k = 0 THEN 0 ELSE NextDigit(f[k - 1])]
<1>1. Digits = CHOOSE f : Along(f)
    BY DEF Digits, NextDigit
<1> HIDE DEF NextDigit
<1>2. \E f : Along(f)
    <2> DEFINE v1 == NextDigit(0)
               v2 == NextDigit(v1)
               v3 == NextDigit(v2)
               v4 == NextDigit(v3)
               v5 == NextDigit(v4)
               v6 == NextDigit(v5)
               v7 == NextDigit(v6)
               v8 == NextDigit(v7)
               v9 == NextDigit(v8)
               v10 == NextDigit(v9)
               v11 == NextDigit(v10)
               t == <<v1, v2, v3, v4, v5, v6, v7, v8, v9, v10, v11>>
               g == [k \in 0 .. 11 |-> IF k = 0 THEN 0 ELSE t[k]]
    <2>1. \A k \in 0 .. 11 : g[k] = IF k = 0 THEN 0 ELSE NextDigit(g[k - 1])
        <3>1. /\ t[1] = NextDigit(0) /\ t[2] = NextDigit(t[1]) /\ t[3] = NextDigit(t[2]) /\ t[4] = NextDigit(t[3])
              /\ t[5] = NextDigit(t[4]) /\ t[6] = NextDigit(t[5]) /\ t[7] = NextDigit(t[6]) /\ t[8] = NextDigit(t[7])
              /\ t[9] = NextDigit(t[8]) /\ t[10] = NextDigit(t[9]) /\ t[11] = NextDigit(t[10])
            OBVIOUS
        <3> HIDE DEF t
        <3>2. /\ g[0] = 0
              /\ \A k \in 1 .. 11 : g[k] = t[k]
            OBVIOUS
        <3> HIDE DEF g
        <3> SUFFICES ASSUME NEW k \in 0 .. 11, k # 0 PROVE g[k] = NextDigit(g[k - 1])
            BY <3>2
        <3>3. k \in 1 .. 11
            OBVIOUS
        <3>4. CASE k = 1
            BY <3>1, <3>2, <3>4
        <3>5. CASE k # 1
            <4>1. k - 1 \in 1 .. 11 /\ g[k - 1] = t[k - 1] /\ g[k] = t[k]
                BY <3>2, <3>3, <3>5
            <4>2. t[k] = NextDigit(t[k - 1])
                BY <3>1, <3>3, <3>5
            <4> QED
                BY <4>1, <4>2
        <3> QED
            BY <3>4, <3>5
    <2>2. g = [k \in 0 .. 11 |-> g[k]]
        OBVIOUS
    <2> HIDE DEF g
    <2>3. Along(g)
        BY <2>1, <2>2
    <2> QED
        BY <2>3
<1> HIDE DEF Along
<1>3. Along(Digits)
    BY <1>1, <1>2
<1>4. PICK d : d = Digits
    OBVIOUS
<1>5. d = [k \in 0 .. 11 |-> IF k = 0 THEN 0 ELSE NextDigit(d[k - 1])]
    BY <1>3, <1>4 DEF Along
<1>6. \A k \in 0 .. 11 : d[k] = IF k = 0 THEN 0 ELSE NextDigit(d[k - 1])
    BY <1>5
<1> QED
    BY <1>4, <1>6

\* So 15 sectors follow the first 128, whatever the archive says.
LEMMA SizeIsFixed == Size = 15
<1> DEFINE D(k) == Digits[k]
<1>1. D(0) = 0
    BY DigitsFollow
<1>2. D(1) = 65488 /\ D(2) = 65111 /\ D(3) = 62095
    <2>1. D(1) = NextDigit(D(0)) /\ D(2) = NextDigit(D(1)) /\ D(3) = NextDigit(D(2))
        BY DigitsFollow
    <2> HIDE DEF D
    <2>2. NextDigit(0) = 65488
        <3>1. PICK z : z = 0 * 8 + (0 * 8) \div 65536 - 48
            OBVIOUS
        <3>2. z \in Int /\ z + 48 = 0
            BY <3>1
        <3>3. z % 65536 = 65488
            BY <3>2
        <3>4. NextDigit(0) = z % 65536
            BY <3>1 DEF NextDigit
        <3> QED
            BY <3>3, <3>4
    <2>3. NextDigit(65488) = 65111 /\ NextDigit(65111) = 62095
        BY DEF NextDigit
    <2> QED
        BY <1>1, <2>1, <2>2, <2>3
<1>3. D(4) = 37967 /\ D(5) = 41548 /\ D(6) = 4661 /\ D(7) = 37240
    <2>1. D(4) = NextDigit(D(3)) /\ D(5) = NextDigit(D(4)) /\ D(6) = NextDigit(D(5)) /\ D(7) = NextDigit(D(6))
        BY DigitsFollow
    <2> HIDE DEF D
    <2>2. /\ NextDigit(62095) = 37967 /\ NextDigit(37967) = 41548
          /\ NextDigit(41548) = 4661 /\ NextDigit(4661) = 37240
        BY DEF NextDigit
    <2> QED
        BY <1>2, <2>1, <2>2
<1>4. D(8) = 35732 /\ D(9) = 23668 /\ D(10) = 58226 /\ D(11) = 7015
    <2>1. D(8) = NextDigit(D(7)) /\ D(9) = NextDigit(D(8)) /\ D(10) = NextDigit(D(9)) /\ D(11) = NextDigit(D(10))
        BY DigitsFollow
    <2> HIDE DEF D
    <2>2. /\ NextDigit(37240) = 35732 /\ NextDigit(35732) = 23668
          /\ NextDigit(23668) = 58226 /\ NextDigit(58226) = 7015
        BY DEF NextDigit
    <2> QED
        BY <1>3, <2>1, <2>2
<1>5. Converted = 7015
    BY <1>4 DEF Converted
<1>6. (7015 + 511) \div 512 = 14
    OBVIOUS
<1> QED
    BY <1>5, <1>6 DEF Size

\* The tables of setup_identity_paging map each of the first 2048 pages to itself.
LEMMA BootPagesMapped ==
    /\ \A p \in 0 .. 2047 : PageAt(p \div 512, p % 512) = p
    /\ BootTables[<<BootTables[<<0, 0>>], 0>>] = 2
<1> DEFINE E == {<<0, 0>>, <<1, 0>>} \cup ({2} \X (0 .. 3)) \cup ((3 .. 6) \X (0 .. 511))
<1>1. \A e \in E : BootTables[e] = IF e[1] < 2 THEN e[1] + 1 ELSE IF e[1] = 2 THEN 3 + e[2]
                                   ELSE (e[1] - 3) * 512 + e[2]
    BY DEF BootTables
<1>2. BootTables[<<0, 0>>] = 1 /\ BootTables[<<1, 0>>] = 2
    <2>1. <<0, 0>> \in E /\ <<1, 0>> \in E
        OBVIOUS
    <2> HIDE DEF E
    <2> QED
        BY <1>1, <2>1
<1>3. ASSUME NEW q \in 0 .. 3, NEW i \in 0 .. 511
      PROVE  PageAt(q, i) = q * 512 + i
    <2>1. <<2, q>> \in E
        OBVIOUS
    <2>2. 3 + q \in 3 .. 6 /\ (3 + q) - 3 = q
        OBVIOUS
    <2>3. <<3 + q, i>> \in E
        BY <2>2
    <2> HIDE DEF E
    <2>4. BootTables[<<2, q>>] = 3 + q
        BY <1>1, <2>1
    <2>5. BootTables[<<3 + q, i>>] = ((3 + q) - 3) * 512 + i
        BY <1>1, <2>3
    <2> QED
        BY <2>2, <2>4, <2>5 DEF PageAt
<1>4. ASSUME NEW p \in 0 .. 2047 PROVE PageAt(p \div 512, p % 512) = p
    <2>1. PICK q, i : q = p \div 512 /\ i = p % 512
        OBVIOUS
    <2>2. q \in 0 .. 3 /\ i \in 0 .. 511 /\ q * 512 + i = p
        BY <2>1, SMTT(60)
    <2>3. PageAt(q, i) = p
        BY <1>3, <2>2, SMTT(60)
    <2> QED
        BY <2>1, <2>3
<1> QED
    BY <1>2, <1>4

\* Every step but the boot code's and the reset goes on with what is in place.
LEMMA FrameKeepsHandOver ==
    ASSUME HandOver, reads \subseteq reads', UNCHANGED <<sectors, entries, regions>>,
           gate = "on" => gate' = "on",
           \/ place' \in {place, "stopped"}
           \/ /\ place \notin {"mbr", "tar", "parse", "stopped"}
              /\ place' \notin BootPlaces
              /\ place' = "init_acpi" => Rest15 \in reads'
    PROVE  HandOver'
<1>1. UNCHANGED <<Vbr, Header, First, Rest15>>
    BY DEF Vbr, Header, First, Rest15
<1>2. ImageRead'
    BY <1>1 DEF HandOver, ImageRead, BootPlaces
<1>3. RegionsFollow'
    BY DEF HandOver, RegionsFollow, RegionsCounted, BootPlaces
<1>4. GateOpen'
    BY DEF HandOver, GateOpen, BootPlaces
<1> QED
    BY <1>2, <1>3, <1>4 DEF HandOver

\* The three programs that read: each puts the next where it looks for it.
LEMMA ReadsKeepHandOver ==
    ASSUME HandOver, ReadVbr \/ ReadTar \/ ParseTar
    PROVE  HandOver'
<1>1. UNCHANGED <<entries, regions, gate>>
    BY DEF ReadVbr, ReadTar, ParseTar, Read, map
<1>2. CASE place' = "stopped"
    <2>1. RegionsFollow' /\ GateOpen' /\ ImageRead'
        BY <1>1, <1>2 DEF HandOver, RegionsFollow, GateOpen, ImageRead, BootPlaces
    <2> QED
        BY <2>1 DEF HandOver
<1>3. CASE place' # "stopped"
    <2>1. CASE ReadVbr
        <3>1. place = "mbr" /\ place' = "tar" /\ UNCHANGED sectors
            BY <1>3, <2>1 DEF ReadVbr, Read, Goto, Stop
        <3>2. Loaded([c |-> 0, h |-> 0, s |-> (Found.lba + 1) % 256], 31744, 1)
            BY <1>3, <2>1 DEF ReadVbr, Read, Stop
        <3>3. Vbr \in reads'
            BY <3>2, ReadsAreRight DEF Loaded, Vbr
        <3>4. Vbr' = Vbr
            BY DEF Vbr
        <3>5. ImageRead'
            BY <3>1, <3>3, <3>4 DEF ImageRead
        <3>6. RegionsFollow' /\ GateOpen'
            BY <1>1, <3>1 DEF HandOver, RegionsFollow, GateOpen, BootPlaces
        <3> QED
            BY <3>5, <3>6 DEF HandOver
    <2>2. CASE ReadTar
        <3>1. place = "tar" /\ place' = "parse" /\ UNCHANGED sectors
            BY <1>3, <2>2 DEF ReadTar, Read, Goto, Stop
        <3>2. Loaded([c |-> 0, h |-> 0, s |-> 3], 24576, 1)
            BY <1>3, <2>2 DEF ReadTar, Read, Stop
        <3>3. Header \in reads' /\ reads \subseteq reads'
            BY <3>2, ReadsAreRight DEF Loaded, Header
        <3>4. UNCHANGED <<Vbr, Header>>
            BY DEF Vbr, Header
        <3>5. ImageRead'
            BY <3>1, <3>3, <3>4 DEF HandOver, ImageRead
        <3>6. RegionsFollow' /\ GateOpen'
            BY <1>1, <3>1 DEF HandOver, RegionsFollow, GateOpen, BootPlaces
        <3> QED
            BY <3>5, <3>6 DEF HandOver
    <2>3. CASE ParseTar
        <3>1. place = "parse" /\ place' = "e820" /\ sectors' = 15
            BY <1>3, <2>3, SizeIsFixed DEF ParseTar, Read, Goto, Stop
        <3>2. Loaded(Chs(KernelLba), 32768, FirstPart)
            BY <1>3, <2>3 DEF ParseTar, Read, Stop
        <3>3. First \in reads' /\ reads \subseteq reads'
            BY <3>2, ReadsAreRight DEF Loaded, First, FirstPart
        <3>4. UNCHANGED <<Vbr, Header, First>>
            BY DEF Vbr, Header, First
        <3>5. ImageRead'
            BY <3>1, <3>3, <3>4 DEF HandOver, ImageRead
        <3>6. RegionsFollow' /\ GateOpen'
            BY <1>1, <3>1, BootSizes DEF HandOver, RegionsFollow, GateOpen, BootPlaces
        <3> QED
            BY <3>5, <3>6 DEF HandOver
    <2> QED
        BY <2>1, <2>2, <2>3
<1> QED
    BY <1>2, <1>3

\* The memory map: the count is a byte, which MaxRegions fits.
LEMMA MapKeepsHandOver ==
    ASSUME HandOver, detect_memory, MaxRegions <= 255
    PROVE  HandOver'
<1>1. place = "e820" /\ place' \in {"a20", "e820"} /\ UNCHANGED <<reads, sectors, gate>>
    BY DEF detect_memory, Goto, disk
<1>2. ImageRead' /\ GateOpen'
    <2>1. UNCHANGED <<Vbr, Header, First>>
        BY DEF Vbr, Header, First
    <2> QED
        BY <1>1, <2>1 DEF HandOver, ImageRead, GateOpen
<1>3. entries \in Nat /\ regions = entries /\ entries <= MaxRegions /\ MaxRegions \in Nat
    BY <1>1, BootSizes DEF HandOver, RegionsFollow
<1>4. RegionsFollow'
    <2>1. PICK last \in BOOLEAN, stored \in BOOLEAN :
             /\ last \/ (stored /\ entries < MaxRegions)
             /\ entries' = entries + (IF stored THEN 1 ELSE 0)
             /\ regions' = IF last THEN regions ELSE (regions + 1) % 256
             /\ place' = IF last THEN "a20" ELSE "e820"
        BY DEF detect_memory, Goto
    <2>2. CASE last
        <3>1. place' = "a20" /\ regions' = regions /\ entries' \in {entries, entries + 1}
            BY <1>3, <2>1, <2>2
        <3> QED
            BY <1>3, <3>1 DEF RegionsFollow, RegionsCounted
    <2>3. CASE ~last
        <3>1. place' = "e820" /\ entries' = entries + 1 /\ entries < MaxRegions
            BY <2>1, <2>3
        <3>2. entries + 1 \in 0 .. 255
            BY <1>3, <3>1
        <3>3. (entries + 1) % 256 = entries + 1
            BY <3>2
        <3>4. regions' = entries + 1
            BY <1>3, <2>1, <2>3, <3>3
        <3> QED
            BY <1>3, <3>1, <3>2, <3>4 DEF RegionsFollow
    <2> QED
        BY <2>2, <2>3
<1> QED
    BY <1>2, <1>4 DEF HandOver

\* From the map to main: each test of the gate that leads on saw it open.
GatePlaces == BootPlaces \ {"mbr", "tar", "parse", "e820"}

LEMMA GateCodeKeepsHandOver ==
    ASSUME HandOver, place \in GatePlaces, place' \in GatePlaces \cup {"stopped"},
           UNCHANGED <<disk, map>>, GateOpen'
    PROVE  HandOver'
<1>1. UNCHANGED <<reads, sectors, entries, regions, Vbr, Header, First>>
    BY DEF disk, map, Vbr, Header, First
<1>2. ImageRead'
    BY <1>1 DEF HandOver, ImageRead, GatePlaces, BootPlaces
<1>3. RegionsFollow'
    BY <1>1 DEF HandOver, RegionsFollow, RegionsCounted, GatePlaces, BootPlaces
<1> QED
    BY <1>2, <1>3 DEF HandOver

LEMMA BootKeepsHandOver ==
    ASSUME HandOver, BootCode, MaxRegions <= 255
    PROVE  HandOver'
<1> USE DEF Goto, Stop, GatePlaces, BootPlaces, GateOpen
<1>1. CASE ReadVbr \/ ReadTar \/ ParseTar
    BY <1>1, ReadsKeepHandOver
<1>2. CASE detect_memory
    BY <1>2, MapKeepsHandOver
<1>3. CASE A20check
    BY <1>3, GateCodeKeepsHandOver DEF A20check, Otherwise, check_a20
<1>4. CASE a20_bios_func
    BY <1>4, GateCodeKeepsHandOver DEF a20_bios_func
<1>5. CASE a20_kbc
    BY <1>5, GateCodeKeepsHandOver DEF a20_kbc, Send
<1>6. CASE fastA20
    BY <1>6, GateCodeKeepsHandOver DEF fastA20
<1>7. CASE chk_loop
    BY <1>7, GateCodeKeepsHandOver DEF chk_loop, check_a20
<1>8. CASE enter_long_mode
    BY <1>8, GateCodeKeepsHandOver DEF enter_long_mode, HandOver
<1> QED
    BY <1>1, <1>2, <1>3, <1>4, <1>5, <1>6, <1>7, <1>8 DEF BootCode

\* The devices open the gate and never close it, unless the machine is reset.
LEMMA DevicesKeepHandOver ==
    ASSUME HandOver, BootDevices
    PROVE  HandOver'
<1>1. CASE GateOpens
    BY <1>1, FrameKeepsHandOver DEF GateOpens, disk, map
<1>2. CASE Take
    BY <1>2, FrameKeepsHandOver DEF Take, disk, map
<1>3. CASE Reset
    BY <1>3 DEF Reset, Goto, HandOver, ImageRead, RegionsFollow, GateOpen, BootPlaces
<1>4. CASE Key
    BY <1>4, FrameKeepsHandOver DEF Key, disk, map
<1> QED
    BY <1>1, <1>2, <1>3, <1>4 DEF BootDevices

\* main reads the rest to where the first part ends.
LEMMA ReadRestKeepsHandOver ==
    ASSUME HandOver, ReadRest
    PROVE  HandOver'
<1>1. place = "rest" /\ place' \in {"stopped", "init_acpi"} /\ UNCHANGED <<sectors, map, gate>>
    BY DEF ReadRest, Halt, Stop, Goto
<1>2. sectors = 15
    BY <1>1 DEF HandOver, ImageRead
<1>3. reads \subseteq reads' /\ (place' = "init_acpi" => Rest15 \in reads')
    BY <1>2 DEF ReadRest, Halt, Stop, Rest15
<1> QED
    BY <1>1, <1>3, FrameKeepsHandOver DEF map, BootPlaces

LEMMA NextHandOver ==
    ASSUME StartInv, HandOver, [Next]_vars, MaxRegions <= 255
    PROVE  HandOver'
<1>1. CASE BootCode /\ UNCHANGED <<interrupts, acpi>>
    BY <1>1, BootKeepsHandOver
<1>2. CASE SetUp
    <2>1. /\ place \in {"vga", "remap", "mask", "sti", "gate", "unmask"}
          /\ place' \in {"remap", "mask", "sti", "gate", "unmask", "rest"}
          /\ UNCHANGED <<disk, map, gate>>
        BY <1>2 DEF SetUp, Set, Goto
    <2> QED
        BY <2>1, FrameKeepsHandOver DEF disk, map, BootPlaces
<1>3. CASE ReadRest
    BY <1>3, ReadRestKeepsHandOver
<1>4. CASE AcpiCode
    <2>1. place \in AcpiPlaces /\ place' \in AfterAcpi
        BY <1>4, AcpiStays DEF StartInv, PollsRight
    <2>2. UNCHANGED <<disk, map, gate>>
        BY <1>4, AcpiLeavesBoot
    <2> QED
        BY <2>1, <2>2, FrameKeepsHandOver DEF disk, map, BootPlaces, AcpiPlaces, AfterAcpi
<1>5. CASE shutdown
    <2>1. place = "running" /\ place' = "enable" /\ UNCHANGED <<disk, map, gate>>
        BY <1>5 DEF shutdown, Goto, Rest
    <2> QED
        BY <2>1, FrameKeepsHandOver DEF disk, map, BootPlaces
<1>6. CASE BootHardware
    BY <1>6, DevicesKeepHandOver DEF BootHardware
<1>7. CASE SciEnabled \/ Handlers \/ Ticks \/ Presses \/ UNCHANGED vars
    <2>1. UNCHANGED boot
        BY <1>7 DEF SciEnabled, Handlers, Ticks, Presses, Device, vars
    <2> QED
        BY <2>1, FrameKeepsHandOver DEF boot, disk, map
<1> QED
    BY <1>1, <1>2, <1>3, <1>4, <1>5, <1>6, <1>7 DEF Next, Code

\* The two parts of the kernel meet: 128 sectors at 0x8000, 15 where they end.
LEMMA PartsMeet ==
    ASSUME HandOver, place = "init_acpi", KernelSize <= 143
    PROVE  KernelInPlace
<1>1. {Vbr, Header, First, Rest15} \subseteq reads
    BY DEF HandOver, ImageRead
<1>2. ASSUME NEW s \in 0 .. KernelSize - 1
      PROVE  \E r \in reads : LET k == s - (r.at - 32768) \div 512
                              IN  k \in 0 .. r.n - 1 /\ r.lba + k = KernelLba + s
    <2>1. s \in 0 .. 142
        BY BootSizes
    <2>2. CASE s < 128
        <3>1. (First.at - 32768) \div 512 = 0 /\ First.n = 128 /\ First.lba = KernelLba
            BY DEF First
        <3>2. s - 0 = s /\ s \in 0 .. First.n - 1
            BY <2>1, <2>2, <3>1
        <3> QED
            BY <1>1, <3>1, <3>2
    <2>3. CASE s >= 128
        <3>1. (Rest15.at - 32768) \div 512 = 128 /\ Rest15.n = 15 /\ Rest15.lba = 131
            BY DEF Rest15, RestLba
        <3>2. s - 128 \in 0 .. Rest15.n - 1 /\ 131 + (s - 128) = KernelLba + s
            BY <2>1, <2>3, <3>1 DEF KernelLba
        <3> QED
            BY <1>1, <3>1, <3>2
    <2> QED
        BY <2>1, <2>2, <2>3
<1> QED
    BY <1>1, <1>2 DEF KernelInPlace, Vbr, Header

-----------------------------------------------------------------------------
(* The theorems.                                                             *)

LEMMA InitInv == Init => StartInv
<1> SUFFICES ASSUME Init PROVE StartInv
    OBVIOUS
<1> USE DEF Init, BootInit, InterruptsInit, AcpiInit
<1>1. ResetEarly /\ AllHandled
    BY DEF ResetEarly, AllHandled
<1>2. GatesReady
    BY DEF GatesReady
<1>3. PollsRight
    BY DEF PollsRight
<1> QED
    BY <1>1, <1>2, <1>3 DEF StartInv

LEMMA NextInv == StartInv /\ [Next]_vars => StartInv'
<1> SUFFICES ASSUME StartInv, [Next]_vars PROVE StartInv'
    OBVIOUS
<1>0. ResetEarly
    BY DEF StartInv
<1>1. CASE BootCode /\ UNCHANGED <<interrupts, acpi>>
    BY <1>0, <1>1, BootCodeStays, EarlyKeepsInv
<1>2. CASE SetUp
    BY <1>2, SetUpKeepsInv
<1>3. CASE ReadRest
    BY <1>3, ReadRestKeepsInv
<1>4. CASE AcpiCode
    BY <1>4, AcpiKeepsInv
<1>5. CASE shutdown
    BY <1>5, ShutdownKeepsInv
<1>6. CASE BootHardware
    <2>1. ResetEarly' /\ (place' = place \/ (place \in BootPlaces /\ place' \in BootPlaces \cup {"stopped"}))
        BY <1>0, <1>6, BootDevicesStay DEF BootHardware, BootPlaces
    <2>2. UNCHANGED <<interrupts, acpi>>
        BY <1>6 DEF BootHardware
    <2> QED
        BY <2>1, <2>2, EarlyKeepsInv
<1>7. CASE SciEnabled
    BY <1>7, SciKeepsInv
<1>8. CASE Handlers
    <2>1. PICK l \in Lines : Interrupt(l)
        BY <1>8 DEF Handlers, Device
    <2>2. UNCHANGED <<boot, acpi>>
        BY <1>8 DEF Handlers, Device
    <2> QED
        BY <2>1, <2>2, InterruptKeepsInv
<1>9. CASE Ticks
    <2>1. Request("timer") /\ UNCHANGED <<boot, acpi>>
        BY <1>9 DEF Ticks, Device
    <2> QED
        BY <2>1, RequestKeepsInv
<1>10. CASE Presses
    <2>1. Request("keyboard") /\ UNCHANGED <<boot, acpi>>
        BY <1>10 DEF Presses, Device
    <2> QED
        BY <2>1, RequestKeepsInv
<1>11. CASE UNCHANGED vars
    <2>1. UNCHANGED <<place, input, iflag, gates, base, masked, serviced, unhandled,
                      fw, sci, asked, count, report, caller>>
        BY <1>11 DEF vars, boot, controller, interrupts, setup, lines, acpi
    <2> QED
        BY <2>1 DEF StartInv, ResetEarly, AllHandled, GatesReady, PollsRight, Blocks
<1> QED
    BY <1>1, <1>2, <1>3, <1>4, <1>5, <1>6, <1>7, <1>8, <1>9, <1>10, <1>11 DEF Next, Code

LEMMA StartInvHolds == Spec => []StartInv
<1> QED
    BY InitInv, NextInv, PTL DEF Spec

\* In whatever order the BIOS, the timer and the keyboard act while main sets up,
\* no interrupt comes for which init_idt and init_timer have no gate yet, and every
\* handler finishes the interrupt it serves.
THEOREM InterruptsHandled == Spec => []AllHandled
<1>1. StartInv => AllHandled
    BY DEF StartInv
<1> QED
    BY <1>1, StartInvHolds, PTL

\* For any number of polls and any firmware, also when it sets the bits late or one
\* after the other: enable_acpi, whose two loops share one counter, reports success
\* only when both control blocks are the kernel's.
THEOREM AcpiEnabled == Spec => []AcpiReported
<1>1. StartInv => AcpiReported
    BY DEF StartInv, PollsRight, Blocks, AcpiReported
<1> QED
    BY <1>1, StartInvHolds, PTL

\* For any memory map of at most 256 entries and any kernel of at most 143 sectors,
\* which are all that mbr.asm, boot.asm and main read: main is entered with the
\* regions counted, A20 open and the tables of long mode complete, and calls
\* init_acpi with every sector of itself where the linker put it, whatever the BIOS,
\* the keyboard controller and the user do, also when the controller resets.
THEOREM ReadyWhenCalled ==
    ASSUME MaxRegions <= 255, KernelSize <= 143
    PROVE  Spec => []ReadyForMain
<1> DEFINE Inv == StartInv /\ HandOver
<1>1. Init => Inv
    <2>1. ASSUME Init PROVE HandOver
        <3>1. place = "mbr" /\ entries = 0 /\ regions = 0
            BY <2>1 DEF Init, BootInit
        <3> QED
            BY <3>1 DEF HandOver, ImageRead, RegionsFollow, GateOpen, BootPlaces
    <2> QED
        BY <2>1, InitInv
<1>2. Inv /\ [Next]_vars => Inv'
    BY NextInv, NextHandOver
<1>3. Inv => ReadyForMain
    <2> SUFFICES ASSUME HandOver PROVE ReadyForMain
        OBVIOUS
    <2>1. ASSUME place = "vga" PROVE RegionsCounted /\ LongModeReady
        <3>1. RegionsCounted
            BY <2>1 DEF HandOver, RegionsFollow, BootPlaces
        <3>2. gate = "on"
            BY <2>1 DEF HandOver, GateOpen
        <3> QED
            BY <3>1, <3>2, BootPagesMapped DEF LongModeReady
    <2>2. ASSUME place = "init_acpi" PROVE KernelInPlace
        BY <2>2, PartsMeet
    <2> QED
        BY <2>1, <2>2 DEF ReadyForMain
<1> HIDE DEF Inv
<1> QED
    BY <1>1, <1>2, <1>3, PTL DEF Spec
=============================================================================
