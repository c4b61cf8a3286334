----------------------------- MODULE Interrupts -----------------------------
(***************************************************************************)
(* The interrupt controllers and the interrupts of the timer and the       *)
(* keyboard: idt.cpp sets them up, the stubs isr1 and timer of idt.asm call *)
(* the handlers, timer.cpp counts and sleeps.  The handlers run with        *)
(* interrupts off, so an interrupt is one step, between any two of the code. *)
(***************************************************************************)
EXTENDS Integers

CONSTANT
    Cut             \* 160: what a stub leaves in rdi, as milliseconds

ASSUME CutIsTime == Cut \in Nat

VARIABLES
    iflag,              \* the processor takes interrupts
    gates, base,        \* vectors with a gate in the IDT; the vector of line 0
    masked,             \* lines that the controllers do not pass on
    asserted, serviced, \* lines requested, and in service until EOI
    unhandled,          \* an interrupt came for which there is no gate
    edi,                \* the register of a first argument
    left                \* how long PIT::sleep still waits

setup == <<gates, base, masked>>
lines == <<asserted, serviced>>
interrupts == <<iflag, setup, lines, unhandled, edi, left>>

Number == [timer |-> 0, keyboard |-> 1, mouse |-> 12]
Lines == DOMAIN Number

-----------------------------------------------------------------------------
(* Setting up: init_idt, in its order, and init_timer.                       *)

Exceptions == {8, 12, 13, 14}

\* register_interrupt for the gates of init_idt; the timer's comes later.
InitialGates == Exceptions \cup {33, 44}

fill_idt == gates' = InitialGates /\ UNCHANGED <<iflag, base, masked, lines, unhandled, edi, left>>

\* ICW1 forgets what was requested or in service; the old masks come back.
pic_remap == /\ base' = 32 /\ asserted' = {} /\ serviced' = {}
             /\ UNCHANGED <<iflag, gates, masked, unhandled, edi, left>>

OpenAll == masked' = {"mouse"}                                  \* mutant
OnlyKeyboard == masked' = {"timer", "mouse"}
mask_lines == OnlyKeyboard /\ UNCHANGED <<iflag, gates, base, lines, unhandled, edi, left>>

sti == iflag' = TRUE /\ UNCHANGED <<setup, lines, unhandled, edi, left>>

register_timer == gates' = gates \cup {32} /\ UNCHANGED <<iflag, base, masked, lines, unhandled, edi, left>>
unmask_timer == /\ masked' = masked \ {"timer"}
                /\ UNCHANGED <<iflag, gates, base, lines, unhandled, edi, left>>

-----------------------------------------------------------------------------
(* The lines and the handlers.                                               *)

Request(l) == asserted' = asserted \cup {l} /\ UNCHANGED <<iflag, setup, serviced, unhandled, edi, left>>

\* Nothing of the same or a higher priority is in service.
Taken(l) == /\ iflag /\ l \in asserted \ masked
            /\ \A s \in serviced : Number[l] < Number[s]

NoEoi(in) == in                                                 \* mutant
\* outb(0x20, 0x20): what is in service with the highest priority is finished.
Eoi(in) == {s \in in : \E t \in in : Number[t] < Number[s]}

\* timer_handler or isr1_handler, from the interrupt to iretq.  The stubs save
\* neither rdi nor rsi, and the handlers end with outb(0xa0, 0x20).
Interrupt(l) ==
    /\ Taken(l)
    /\ asserted' = asserted \ {l}
    /\ IF base + Number[l] \in gates
       THEN /\ serviced' = Eoi(serviced \cup {l})
            /\ left' = IF l = "timer" /\ left > 0 THEN left - 1 ELSE left
            /\ edi' = Cut
            /\ UNCHANGED <<iflag, unhandled>>
       ELSE /\ unhandled' = TRUE /\ serviced' = serviced \cup {l} /\ iflag' = FALSE
            /\ UNCHANGED <<edi, left>>
    /\ UNCHANGED setup

-----------------------------------------------------------------------------
(* PIT::sleep: the caller loads edi, sleep stores it, and waits.             *)

Argument(ms) == edi' = ms /\ UNCHANGED <<iflag, setup, lines, unhandled, left>>
Store == left' = edi /\ UNCHANGED <<iflag, setup, lines, unhandled, edi>>
cli == iflag' = FALSE /\ UNCHANGED <<setup, lines, unhandled, edi, left>>

InterruptsInit ==
    /\ iflag = FALSE /\ gates = {} /\ base = 8 /\ masked = {}
    /\ asserted = {} /\ serviced = {} /\ unhandled = FALSE /\ edi = 0 /\ left = 0
=============================================================================
