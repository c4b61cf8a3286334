------------------------------ MODULE StartUp ------------------------------
(***************************************************************************)
(* The machine from power-on: Boot, then main() of kernel.cpp as far as it *)
(* sets up Interrupts, reads the rest of itself and calls ACPI, and a call  *)
(* of ACPI::shutdown after it.  What main does in between is in modules of  *)
(* its own.                                                                 *)
(***************************************************************************)
EXTENDS Acpi

AfterFirst == 130                                                 \* mutant
RestLba == 131

\* main, one statement after the other.
Set(from, to, statement) == place = from /\ Goto(to) /\ statement

SetUp == /\ \/ Set("vga", "remap", fill_idt)
            \/ Set("remap", "mask", pic_remap)
            \/ Set("mask", "sti", mask_lines)
            \/ Set("sti", "gate", sti)
            \/ Set("gate", "unmask", register_timer)
            \/ Set("unmask", "rest", unmask_timer)
         /\ UNCHANGED <<disk, map, gate, controller, polls, acpi>>

\* read_disk repeats until it has read; its sixth error halts.
ReadRest ==
    /\ place = "rest"
    /\ \/ Halt("disk_errors") /\ UNCHANGED reads
       \/ /\ reads' = reads \cup {[lba |-> RestLba, at |-> 98304, n |-> sectors]}
          /\ Goto("init_acpi") /\ UNCHANGED interrupts
    /\ UNCHANGED <<sectors, map, gate, controller, polls, acpi>>

\* The interrupts of the kernel; before init_idt the BIOS has them.
Device(step) == gates # {} /\ step /\ UNCHANGED <<boot, acpi>>
Handlers == Device(\E l \in Lines : Interrupt(l))
Ticks == Device(Request("timer"))
Presses == Device(Request("keyboard"))

Code == \/ BootCode /\ UNCHANGED <<interrupts, acpi>>
        \/ SetUp \/ ReadRest \/ AcpiCode
BootHardware == BootDevices /\ UNCHANGED <<interrupts, acpi>>

Next == Code \/ shutdown \/ BootHardware \/ SciEnabled \/ Handlers \/ Ticks \/ Presses

Init == BootInit /\ InterruptsInit /\ AcpiInit

\* The processor runs and takes the interrupts it may take, the timer ticks, and
\* the keyboard controller answers.  Nothing else has to happen.
Spec == /\ Init /\ [][Next]_vars
        /\ WF_vars(Code) /\ WF_vars(Ticks) /\ WF_vars(Device(Interrupt("timer")))
        /\ WF_vars((Take \/ Reset) /\ UNCHANGED <<interrupts, acpi>>)

-----------------------------------------------------------------------------
(* Properties.                                                               *)

Ended == {"stopped", "running", "off"}

\* What boot.asm loaded and what main reads join without gap or overlap: every
\* sector of the kernel is where the linker put it, and boot.asm and the header of
\* the archive came from where the build puts them.
KernelInPlace ==
    /\ \A s \in 0 .. KernelSize - 1 : \E r \in reads :
         LET k == s - (r.at - 32768) \div 512
         IN  k \in 0 .. r.n - 1 /\ r.lba + k = KernelLba + s
    /\ {[lba |-> BootLba, at |-> 31744, n |-> 1], [lba |-> HeaderLba, at |-> 24576, n |-> 1]} \subseteq reads

\* No region is counted that the BIOS did not store, and none but the last is missed.
RegionsCounted == regions <= entries /\ entries <= regions + 1

\* Long mode was entered with memory above one megabyte in place, and with page
\* tables whose 2048 pages, found over all four levels, map to themselves.
PageAt(q, i) == BootTables[<<BootTables[<<2, q>>], i>>]
LongModeReady ==
    /\ gate = "on"
    /\ \A p \in 0 .. 2047 : PageAt(p \div 512, p % 512) = p
    /\ BootTables[<<BootTables[<<0, 0>>], 0>>] = 2

\* What three programs that know nothing of each other hand to main.
ReadyForMain == /\ place = "vga" => RegionsCounted /\ LongModeReady
                /\ place = "init_acpi" => KernelInPlace

\* Whatever is requested while main sets up, no interrupt comes for which there
\* is no gate yet, and none stays in service.
AllHandled == ~unhandled /\ serviced = {}

\* enable_acpi says so only if both control blocks are the kernel's.
AcpiReported == report = "enabled" => sci = {"pm1a"} \cup (IF fw.pm1b THEN {"pm1b"} ELSE {})

\* Every start ends: main runs or the machine stops with a message; and so does
\* every shutdown.  Each sleep in them needs the timer's gate, mask and EOI.
StartEnds == /\ <>(place \in Ended)
             /\ [](caller = "announce" => <>(place \in {"stopped", "off"}))

\* "Powering off in 5 seconds...": the sleep lasts as long as shutdown asked.
SleepsAsAsked == [][(place = "sleep_off" /\ place' = "wait_off") => left' = 5 * Second]_vars
=============================================================================
