------------------------------ MODULE Scheduler ------------------------------
(* What the task switching of kernel/task.cpp promises the tasks: exactly    *)
(* one of them runs, a task that was killed does not come back, and a task   *)
(* that is ready gets its turn.                                              *)
EXTENDS FiniteSets

CONSTANTS Procs, Main

VARIABLES
    running,        \* the task on the processor
    ready,          \* the tasks waiting for their turn
    stopped         \* the machine has been stopped

schedVars == <<running, ready, stopped>>

SchedInit == running = Main /\ ready = {} /\ stopped = FALSE

Create(p) == /\ ~stopped
             /\ p \notin ready \cup {running}
             /\ ready' = ready \cup {p}
             /\ UNCHANGED <<running, stopped>>

\* The running task gives way to p and waits for its next turn.
GiveWay(p) == /\ ~stopped
              /\ p \in ready
              /\ ready' = (ready \ {p}) \cup {running}
              /\ running' = p
              /\ UNCHANGED stopped

\* The running task is killed; p is next.
Kill(p) == /\ ~stopped
           /\ p \in ready /\ running # Main
           /\ ready' = ready \ {p}
           /\ running' = p
           /\ UNCHANGED stopped

Stop == /\ ~stopped
        /\ stopped' = TRUE
        /\ UNCHANGED <<running, ready>>

SchedNext == \/ \E p \in Procs : Create(p) \/ GiveWay(p) \/ Kill(p)
             \/ Stop

\* A ready task gets the processor unless the machine stops first.
SchedSpec == /\ SchedInit /\ [][SchedNext]_schedVars
             /\ \A p \in Procs : WF_schedVars(GiveWay(p) \/ Kill(p))

=============================================================================
