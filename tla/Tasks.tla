-------------------------------- MODULE Tasks --------------------------------
(***************************************************************************)
(* The tasks of kernel/task.cpp and the fault handlers of idt.cpp that     *)
(* kill them.  Switching is cooperative: another task runs only after a    *)
(* call of yield, or after the fault handler has made the current one      *)
(* quit.  What a task computes is left open; pc says which of the          *)
(* functions modelled here it is in.  fork is cut at the points where it   *)
(* may yield, or be killed by a page fault while the page tables of the    *)
(* new stack are written.                                                  *)
(***************************************************************************)
EXTENDS Integers, FiniteSets

CONSTANTS
    Tasks,          \* the proc_t that fork may obtain from the heap
    Main            \* main_proc

ASSUME MainIsNoTask == Main \notin Tasks /\ IsFiniteSet(Tasks)

Procs == Tasks \cup {Main}

VARIABLES
    state,          \* "none" before fork, then "idle", "running", "exit"
    next,           \* proc_t.next; of a task that is not linked yet: itself
    current,
    in_kernel,
    creating,       \* task_creation_in_progress
    nested_errors,
    pc,             \* "code", "wait" and "create" in _create_task, "stack_error"
    child,          \* the task that fork is creating for this one
    allocated,      \* the proc_t that malloc has handed out
    interrupts,     \* the interrupt flag of the processor
    flags,          \* the flag in the RFLAGS on the stack of a task that is not running
    killed,         \* history: the tasks that have called quit
    halted          \* "no", or why cli and for (;;): "fault", "double" (a double
                    \* fault), "frames" (request_page found none)

procVars == <<state, next, current, in_kernel>>
forkVars == <<creating, pc, child, allocated>>
cpuVars == <<nested_errors, interrupts, flags, killed, halted>>
vars == <<procVars, forkVars, cpuVars>>

\* init_task, after init_idt has enabled interrupts.
Init == /\ state = [p \in Procs |-> IF p = Main THEN "running" ELSE "none"]
        /\ next = [p \in Procs |-> p]
        /\ current = Main
        /\ in_kernel = TRUE
        /\ creating = FALSE
        /\ nested_errors = 0
        /\ pc = [p \in Procs |-> "code"]
        /\ child = [p \in Procs |-> p]
        /\ allocated = {}
        /\ interrupts = TRUE
        /\ flags = [p \in Procs |-> TRUE]
        /\ killed = {}
        /\ halted = "no"

-----------------------------------------------------------------------------
(* switch_task.                                                              *)

\* The tasks in the order in which the loop of switch_task visits them.
\* mutant: it starts at main_proc, not after the current task
WalkFromMain == LET w[k \in 1 .. Cardinality(Procs)] ==
                        IF k = 1 THEN Main ELSE next[w[k - 1]]
                IN  w

Walk == LET w[k \in 1 .. Cardinality(Procs)] ==
                IF k = 1 THEN next[current] ELSE next[w[k - 1]]
        IN  w

Runnable(st, p) == st[p] \in {"idle", "running"}

\* The loop stops at p.
StopsAt(st, p) == LET w == Walk IN
    \E k \in DOMAIN w : /\ w[k] = p /\ Runnable(st, p)
                        /\ \A j \in 1 .. (k - 1) : ~Runnable(st, w[j])

\* mutants: the task that leaves becomes idle even if it quit; it stays running
LeaveIdle(st, p) == "idle"
LeaveRunning(st, p) == st[p]
Leave(st, p) == IF st[p] = "exit" THEN "exit" ELSE "idle"

\* mutant: _task_switch does not restore RFLAGS
KeepInterrupts(p, enabled) == enabled
Resume(p, enabled) == flags[p]

\* The states are st and the interrupt flag is enabled when switch_task is
\* called.  _task_switch saves the flags of the old task on its stack and takes
\* those of the new one; nothing is switched when only the caller can run.
SwitchTask(st, enabled) == \E p \in Procs :
    /\ StopsAt(st, p)
    /\ current' = p
    /\ in_kernel' = (p = Main)
    /\ IF st[p] = "running"
       THEN state' = st /\ interrupts' = enabled /\ flags' = flags
       ELSE /\ state' = [st EXCEPT ![current] = Leave(st, current), ![p] = "running"]
            /\ flags' = [flags EXCEPT ![current] = enabled]
            /\ interrupts' = Resume(p, enabled)

-----------------------------------------------------------------------------
(* What the current task does.                                               *)

Running == halted = "no"

\* yield(), called by the task or by the loop of _stack_error.
Yield ==
    /\ Running /\ pc[current] \in {"code", "stack_error"}
    /\ SwitchTask(state, interrupts)
    /\ UNCHANGED <<next, forkVars, nested_errors, killed, halted>>

\* The entry function of a task returns into _stack_error.
Return ==
    /\ Running /\ pc[current] = "code" /\ current # Main
    /\ pc' = [pc EXCEPT ![current] = "stack_error"]
    /\ UNCHANGED <<procVars, creating, child, allocated, cpuVars>>

\* fork(): malloc, then _create_task.
Fork(c) ==
    /\ Running /\ pc[current] = "code"
    /\ c \notin allocated
    /\ allocated' = allocated \cup {c}
    /\ child' = [child EXCEPT ![current] = c]
    /\ pc' = [pc EXCEPT ![current] = "wait"]
    /\ UNCHANGED <<procVars, creating, cpuVars>>

\* while (task_creation_in_progress) yield();
WaitForCreation ==
    /\ Running /\ pc[current] = "wait" /\ creating
    /\ SwitchTask(state, interrupts)
    /\ UNCHANGED <<next, forkVars, nested_errors, killed, halted>>

BeginCreate ==
    /\ Running /\ pc[current] = "wait" /\ ~creating
    /\ creating' = TRUE
    /\ next' = [next EXCEPT ![child[current]] = next[Main]]
    /\ pc' = [pc EXCEPT ![current] = "create"]
    /\ UNCHANGED <<state, current, in_kernel, child, allocated, cpuVars>>

\* mutants: the new task is not linked; the flag is not cleared
EndCreateNoLink ==
    /\ Running /\ pc[current] = "create"
    /\ flags' = [flags EXCEPT ![child[current]] = interrupts]
    /\ creating' = FALSE
    /\ state' = [state EXCEPT ![child[current]] = "idle"]
    /\ pc' = [pc EXCEPT ![current] = "code"]
    /\ UNCHANGED <<next, current, in_kernel, child, allocated, nested_errors,
                   interrupts, killed, halted>>

EndCreateKeepsFlag ==
    /\ Running /\ pc[current] = "create"
    /\ flags' = [flags EXCEPT ![child[current]] = interrupts]
    /\ next' = [next EXCEPT ![Main] = child[current]]
    /\ state' = [state EXCEPT ![child[current]] = "idle"]
    /\ pc' = [pc EXCEPT ![current] = "code"]
    /\ UNCHANGED <<current, in_kernel, creating, child, allocated, nested_errors,
                   interrupts, killed, halted>>

\* The stack is built, with the flags of the creator, and the task linked.
EndCreate ==
    /\ Running /\ pc[current] = "create"
    /\ flags' = [flags EXCEPT ![child[current]] = interrupts]
    /\ next' = [next EXCEPT ![Main] = child[current]]
    /\ creating' = FALSE
    /\ state' = [state EXCEPT ![child[current]] = "idle"]
    /\ pc' = [pc EXCEPT ![current] = "code"]
    /\ UNCHANGED <<current, in_kernel, child, allocated, nested_errors,
                   interrupts, killed, halted>>

\* request_page finds no frame for the stack and stops the machine.
NoFrame ==
    /\ Running /\ pc[current] = "create"
    /\ halted' = "frames"
    /\ interrupts' = FALSE
    /\ UNCHANGED <<procVars, forkVars, nested_errors, flags, killed>>

-----------------------------------------------------------------------------
(* Faults.                                                                   *)

\* mutants: nested_errors is not counted down before quit(); it is not counted up
ErrorsStay(n) == n + 1
ErrorsUncounted(n) == n - 1
ErrorsAfterQuit(n) == (n + 1) - 1

\* A fault, entered through an interrupt gate: if a task is running it quits.
KillTask ==
    /\ Running /\ nested_errors = 0 /\ ~in_kernel
    /\ nested_errors' = ErrorsAfterQuit(nested_errors)
    /\ killed' = killed \cup {current}
    /\ SwitchTask([state EXCEPT ![current] = "exit"], FALSE)
    /\ UNCHANGED <<next, forkVars, halted>>

\* The kernel's own fault, or a second fault in the handler.
StopMachine ==
    /\ Running
    /\ in_kernel \/ nested_errors # 0
    /\ nested_errors' = IF nested_errors = 0 THEN 1 ELSE nested_errors
    /\ interrupts' = FALSE
    /\ halted' = "fault"
    /\ UNCHANGED <<procVars, forkVars, flags, killed>>

\* An exception that has no gate, a division by zero for one, or a fault in the
\* delivery of a fault: doublef_handler does not ask who runs.
DoubleFault ==
    /\ Running
    /\ interrupts' = FALSE
    /\ halted' = "double"
    /\ UNCHANGED <<procVars, forkVars, nested_errors, flags, killed>>

Next == \/ Yield \/ Return \/ WaitForCreation
        \/ \E c \in Tasks : Fork(c)
        \/ BeginCreate \/ EndCreate \/ NoFrame
        \/ KillTask \/ StopMachine \/ DoubleFault

Spec == Init /\ [][Next]_vars

\* Cooperation: the code of a task goes on to its next yield, and what the
\* modelled functions have begun they continue.
FairSpec == Spec /\ WF_vars(Yield) /\ WF_vars(WaitForCreation)
                 /\ WF_vars(BeginCreate) /\ WF_vars(EndCreate)

-----------------------------------------------------------------------------
(* Properties.                                                              *)

TypeOK == /\ state \in [Procs -> {"none", "idle", "running", "exit"}]
          /\ next \in [Procs -> Procs]
          /\ current \in Procs
          /\ in_kernel \in BOOLEAN
          /\ creating \in BOOLEAN
          /\ nested_errors \in {0, 1}
          /\ pc \in [Procs -> {"code", "wait", "create", "stack_error"}]
          /\ child \in [Procs -> Procs]
          /\ allocated \subseteq Tasks
          /\ interrupts \in BOOLEAN
          /\ flags \in [Procs -> BOOLEAN]
          /\ killed \subseteq Tasks
          /\ halted \in {"no", "fault", "double", "frames"}

\* Exactly the current task is proc_running, whoever yielded, was created or
\* was killed: switch_task tells "nothing to switch to" from that state.
OneRunning == {p \in Procs : state[p] = "running"} = {current}

\* The loop of switch_task ends, also when the current task has just quit.
SwitchEnds ==
    LET quitting == IF current = Main THEN state ELSE [state EXCEPT ![current] = "exit"]
    IN  \A st \in {state, quitting} : \E p \in Procs : StopsAt(st, p)

\* The tasks that fork has finished creating, and what follows main_proc.
Members == {p \in Procs : state[p] # "none"}
Ring[k \in 0 .. Cardinality(Procs)] == IF k = 0 THEN Main ELSE next[Ring[k - 1]]

\* The next pointers form one ring through main_proc and every task that fork
\* has finished creating, killed ones included: no insertion loses another, and
\* the search of switch_task ends.
RingOK == /\ SwitchEnds
          /\ Ring[Cardinality(Members)] = Main
          /\ {Ring[k] : k \in 0 .. (Cardinality(Members) - 1)} = Members

\* A task that was killed never runs again, although it stays in the ring.
ExitIsFinal == [][\A p \in killed : current' # p]_vars

\* A page, protection or stack fault stops the machine only when main_proc runs:
\* in_kernel is right and nested_errors is back to 0 after any number of tasks was
\* killed.  A double fault (idt.cpp:91) stops it whoever runs.
FaultsContained == [][halted' = "fault" /\ halted # "fault" => current = Main]_vars

\* Task code runs with interrupts enabled, even when it gets the processor out
\* of a fault handler; PIT::sleep would never see a tick otherwise.
InterruptsOn == halted = "no" => interrupts

\* The creator was killed between line 43 and line 62 of task.cpp.
Orphaned == creating /\ \E q \in Procs : state[q] = "exit" /\ pc[q] = "create"

\* fork returns, unless a task was killed while it was creating another: then
\* task_creation_in_progress stays set and every later fork yields for ever.
ForkReturns == \A p \in Procs :
    pc[p] = "wait" ~> (pc[p] = "code" \/ state[p] = "exit" \/ halted # "no" \/ Orphaned)

\* The tasks are scheduled as Scheduler promises, each in its turn.
S == INSTANCE Scheduler WITH running <- current,
                             ready <- {p \in Procs : state[p] = "idle"},
                             stopped <- halted # "no"

ImplementsScheduler == S!SchedSpec

=============================================================================
