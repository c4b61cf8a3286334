-------------------------------- MODULE Acpi --------------------------------
(***************************************************************************)
(* acpi.cpp: init_acpi finds the tables of the firmware, enable_acpi asks   *)
(* the firmware to hand over and polls for it, shutdown powers off.         *)
(***************************************************************************)
EXTENDS Boot, Interrupts, SequencesExt

CONSTANTS
    Firmware,       \* what the machine may have, records as in `fw`
    Second,         \* 1000: ticks (scaled down, in the order 10 < Cut < 5 * Second)
    EnablePolls     \* 300

ASSUME AcpiTimes == {Second, EnablePolls} \subseteq Nat

VARIABLES
    fw,         \* rsdp: the signatures found; extended: it is of revision 2
                \* sdt, tables: [sig, valid, region]; smi: command and port are not 0
                \* pm1b: it exists; floating: pm1a reads as all ones; s5
    sci,        \* the control blocks whose SCI_EN is set
    asked,      \* the firmware was asked to set them
    count,      \* i of enable_acpi
    report,     \* what enable_acpi printed last
    caller,     \* who called enable_acpi
    slp         \* the control blocks to which SLP_EN was written

acpi == <<fw, sci, asked, count, report, caller, slp>>
vars == <<boot, interrupts, acpi>>

\* cli; for (;;);
Halt(m) == Stop(m) /\ cli

-----------------------------------------------------------------------------
(* Finding tables.                                                           *)

\* get_rsdp takes the last signature it meets; check_rsdp adds up nothing.
get_rsdp(f) == IF f.rsdp = <<>> THEN "none" ELSE Last(f.rsdp)

\* The page of a table is mapped if init_paging saw its region.
Mapped(t) == t.region <= regions

\* The RSDT's page is mapped before it is validated, the XSDT's is not.  Where a
\* stale signature points there is no table.
root_table(f) ==
    CASE get_rsdp(f) = "none" -> "no_rsdp"
      [] get_rsdp(f) # "none" /\ f.extended /\ ~Mapped(f.sdt) -> "page_fault"
      [] get_rsdp(f) = "genuine" /\ f.sdt.valid /\ (f.extended => Mapped(f.sdt)) -> "found"
      [] OTHER -> "invalid_sdt"

init_acpi ==
    /\ place = "init_acpi"
    /\ fw' \in Firmware
    /\ IF root_table(fw') = "found" THEN Goto("enable") /\ UNCHANGED interrupts
                                   ELSE Halt(root_table(fw'))
    /\ UNCHANGED <<disk, map, gate, controller, polls, sci, asked, count, report, caller, slp>>

\* get_table reads every signature, and keeps the last that fits.
get_table(sig) ==
    LET fits == {k \in DOMAIN fw.tables : fw.tables[k].sig = sig}
    IN  CASE \E k \in DOMAIN fw.tables : ~Mapped(fw.tables[k]) -> "page_fault"
          [] fits = {} -> "no_table"
          [] ~fw.tables[Max(fits)].valid -> "invalid_sdt"
          [] OTHER -> "found"

-----------------------------------------------------------------------------
(* enable_acpi.                                                              *)

Rest == <<disk, map, gate, controller, polls, fw>>

enable_acpi ==
    /\ place = "enable"
    /\ LET facp == get_table("FACP")
       IN  \/ facp # "found" /\ Halt(facp) /\ UNCHANGED <<asked, report>>
           \/ /\ facp = "found" /\ fw.floating
              /\ Goto(caller) /\ report' = "already" /\ UNCHANGED <<interrupts, asked>>
           \/ /\ facp = "found" /\ ~fw.floating /\ ~fw.smi
              /\ Halt("cannot_enable") /\ UNCHANGED <<asked, report>>
           \/ /\ facp = "found" /\ ~fw.floating /\ fw.smi
              /\ Goto("pm1a") /\ asked' = TRUE /\ UNCHANGED <<interrupts, report>>
    /\ count' = 0
    /\ UNCHANGED <<Rest, sci, caller, slp>>

After(pm) == IF pm = "pm1a" /\ fw.pm1b THEN "pm1b" ELSE "verdict"

\* while (the bit is clear && i < 300): PIT::sleep(10), which is 1 here.
Poll(pm) ==
    /\ place = pm
    /\ IF pm \in sci \/ count = EnablePolls
       THEN Goto(After(pm)) /\ UNCHANGED <<interrupts, count>>
       ELSE Goto(IF pm = "pm1a" THEN "sleep_pm1a" ELSE "sleep_pm1b") /\ Argument(1) /\ count' = count + 1
    /\ UNCHANGED <<Rest, sci, asked, report, caller, slp>>

\* mutant: each loop has its own counter, and only the first is looked at
SomeEnabled == "pm1a" \in sci
BothInTime == count < EnablePolls

Verdict ==
    /\ place = "verdict"
    /\ IF BothInTime THEN Goto(caller) /\ report' = "enabled" /\ UNCHANGED interrupts
                     ELSE Halt("not_enabled") /\ UNCHANGED report
    /\ UNCHANGED <<Rest, sci, asked, count, caller, slp>>

SciEnabled == \E pm \in {"pm1a", "pm1b"} :
    /\ asked /\ pm \notin sci /\ (pm = "pm1b" => fw.pm1b) /\ sci' = sci \cup {pm}
    /\ UNCHANGED <<boot, interrupts, fw, asked, count, report, caller, slp>>

-----------------------------------------------------------------------------
(* shutdown, and the sleeps of both.                                         *)

shutdown ==
    /\ place = "running" /\ Goto("enable") /\ caller' = "announce"
    /\ UNCHANGED <<Rest, interrupts, sci, asked, count, report, slp>>

\* "Powering off in 5 seconds"
Announce ==
    /\ place = "announce"
    /\ Goto("sleep_off") /\ Argument(5 * Second)
    /\ UNCHANGED <<Rest, sci, asked, count, report, caller, slp>>

\* get_s5 and what is read around it, and the write of the type with SLP_EN.
Write(pm, from, next) ==
    /\ place = from
    /\ IF fw.s5 = "good" THEN Goto(next) /\ slp' = slp \cup {pm} /\ UNCHANGED interrupts
                         ELSE Halt(fw.s5) /\ UNCHANGED slp
    /\ UNCHANGED <<Rest, sci, asked, count, report, caller>>

SendTypA == Write("pm1a", "send_a", IF fw.pm1b THEN "send_b" ELSE "off")

SleepPlaces == [sleep_pm1a |-> "wait_pm1a", sleep_pm1b |-> "wait_pm1b", sleep_off |-> "wait_off"]
AfterSleep == [wait_pm1a |-> "pm1a", wait_pm1b |-> "pm1b", wait_off |-> "send_a"]

sleep ==
    /\ \/ place \in DOMAIN SleepPlaces /\ Store /\ Goto(SleepPlaces[place])
       \/ place \in DOMAIN AfterSleep /\ left = 0 /\ Goto(AfterSleep[place]) /\ UNCHANGED interrupts
    /\ UNCHANGED <<Rest, acpi>>

AcpiInit == /\ fw = [tables |-> <<>>] /\ sci = {} /\ asked = FALSE /\ count = 0
            /\ report = "" /\ caller = "running" /\ slp = {}

AcpiCode == \/ init_acpi \/ enable_acpi \/ Poll("pm1a") \/ Poll("pm1b") \/ Verdict
            \/ Announce \/ SendTypA \/ Write("pm1b", "send_b", "off") \/ sleep
=============================================================================
