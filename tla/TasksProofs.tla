----------------------------- MODULE TasksProofs -----------------------------
(* Whatever tasks there are and whatever they do, one task runs at a time,   *)
(* killed tasks stay dead, a task's page, protection or stack fault stops the *)
(* task alone, interrupts come back, and each step of the tasks is a step of  *)
(* the Scheduler.                                                             *)
EXTENDS Tasks, FiniteSetTheorems, WellFoundedInduction, TLAPS

-----------------------------------------------------------------------------
(* The invariant.                                                            *)

Creating(p) == pc[p] \in {"wait", "create"}

\* in_kernel and nested_errors are right; main_proc never quits.
KernelOK == /\ in_kernel <=> current = Main
            /\ halted # "fault" => nested_errors = 0
            /\ state[Main] \in {"idle", "running"}

\* Every task that may be resumed has interrupts enabled in its saved flags.
FlagsOK == /\ halted = "no" => interrupts
           /\ \A p \in Procs : state[p] = "idle" => flags[p]

\* A task that is being created has never run, and has one creator.
ChildOK ==
    /\ \A p \in Procs : p \notin allocated => p = Main \/ state[p] = "none"
    /\ \A p \in Procs : Creating(p) => /\ child[p] \in allocated
                                       /\ state[child[p]] = "none"
    /\ \A p, q \in Procs : Creating(p) /\ Creating(q) /\ p # q => child[p] # child[q]

KilledOK == \A p \in killed : state[p] = "exit"

TaskInv == TypeOK /\ OneRunning /\ KernelOK /\ FlagsOK /\ ChildOK /\ KilledOK

-----------------------------------------------------------------------------
(* switch_task.                                                              *)

\* The loop stops at a task that is idle or runs.
LEMMA StopsAtRunnable ==
  ASSUME NEW st, NEW p, StopsAt(st, p) PROVE Runnable(st, p)
BY DEF StopsAt

\* What the callers of switch_task rely on: st is the state they call it in,
\* the current task runs or has just quit.
Switched(st, p) ==
    /\ p \in Procs /\ st[p] \in {"idle", "running"}
    /\ current' = p /\ in_kernel' = (p = Main)
    /\ state' \in [Procs -> {"none", "idle", "running", "exit"}]
    /\ {q \in Procs : state'[q] = "running"} = {p}
    /\ \A q \in Procs : state'[q] = "idle" => st[q] \in {"idle", "running"}
    /\ \A q \in Procs : st[q] = "none" <=> state'[q] = "none"
    /\ \A q \in Procs : st[q] = "exit" <=> state'[q] = "exit"
    /\ p = current => state' = st /\ st[p] = "running"
    /\ p # current => st[p] = "idle"
    /\ \A q \in Procs : q \notin {p, current} => state'[q] = st[q]

LEMMA SwitchStates ==
  ASSUME TypeOK, NEW st \in [Procs -> {"none", "idle", "running", "exit"}],
         NEW enabled \in BOOLEAN,
         \A q \in Procs : st[q] = "running" => q = current,
         st[current] \in {"running", "exit"},
         SwitchTask(st, enabled)
  PROVE  /\ \E p \in Procs : Switched(st, p)
         /\ flags' \in [Procs -> BOOLEAN] /\ interrupts' \in BOOLEAN
<1> PICK p \in Procs :
           /\ StopsAt(st, p) /\ current' = p /\ in_kernel' = (p = Main)
           /\ IF st[p] = "running"
              THEN state' = st /\ interrupts' = enabled /\ flags' = flags
              ELSE /\ state' = [st EXCEPT ![current] = Leave(st, current), ![p] = "running"]
                   /\ flags' = [flags EXCEPT ![current] = enabled]
                   /\ interrupts' = Resume(p, enabled)
  BY DEF SwitchTask
<1>1. st[p] \in {"idle", "running"}
  BY StopsAtRunnable DEF Runnable
<1>2. current \in Procs /\ flags \in [Procs -> BOOLEAN]
  BY DEF TypeOK
<1>3. CASE st[p] = "running"
  <2>1. p = current /\ state' = st /\ interrupts' = enabled /\ flags' = flags
    BY <1>3
  <2>2. Switched(st, p)
    BY <1>1, <1>2, <1>3, <2>1 DEF Switched
  <2> QED
    BY <1>2, <2>1, <2>2
<1>4. CASE st[p] # "running"
  <2>1. p # current
    BY <1>1, <1>4
  <2>2. Leave(st, current) \in {"idle", "exit"} /\ (Leave(st, current) = "exit" <=> st[current] = "exit")
    BY DEF Leave
  <2>3. /\ state' \in [Procs -> {"none", "idle", "running", "exit"}]
        /\ state'[p] = "running" /\ state'[current] = Leave(st, current)
        /\ \A q \in Procs : q \notin {p, current} => state'[q] = st[q]
    BY <1>2, <1>4, <2>1, <2>2
  <2>4. Switched(st, p)
    BY <1>1, <1>2, <1>4, <2>1, <2>2, <2>3 DEF Switched
  <2>5. flags' \in [Procs -> BOOLEAN] /\ interrupts' \in BOOLEAN
    BY <1>2, <1>4 DEF Resume
  <2> QED
    BY <2>4, <2>5
<1> QED
  BY <1>3, <1>4

\* After a switch every idle task, and the one that runs, has interrupts on.
LEMMA SwitchFlags ==
  ASSUME TypeOK, NEW st \in [Procs -> {"none", "idle", "running", "exit"}],
         NEW enabled \in BOOLEAN,
         \A q \in Procs : st[q] = "running" => q = current,
         \A q \in Procs : st[q] = "idle" => flags[q],
         (st[current] = "running" /\ enabled) \/ st[current] = "exit",
         SwitchTask(st, enabled)
  PROVE  interrupts' /\ \A q \in Procs : state'[q] = "idle" => flags'[q]
<1> PICK p \in Procs :
           /\ StopsAt(st, p)
           /\ IF st[p] = "running"
              THEN state' = st /\ interrupts' = enabled /\ flags' = flags
              ELSE /\ state' = [st EXCEPT ![current] = Leave(st, current), ![p] = "running"]
                   /\ flags' = [flags EXCEPT ![current] = enabled]
                   /\ interrupts' = Resume(p, enabled)
  BY DEF SwitchTask
<1>1. st[p] \in {"idle", "running"}
  BY StopsAtRunnable DEF Runnable
<1>2. current \in Procs /\ flags \in [Procs -> BOOLEAN]
  BY DEF TypeOK
<1>3. CASE st[p] = "running"
  BY <1>2, <1>3
<1>4. CASE st[p] # "running"
  <2>1. interrupts'
    BY <1>1, <1>4 DEF Resume
  <2>2. ASSUME NEW q \in Procs, state'[q] = "idle" PROVE flags'[q]
    <3>1. CASE q = current
      <4>1. p # current /\ st[current] # "exit"
        BY <1>1, <1>2, <1>4, <2>2, <3>1 DEF Leave
      <4> QED
        BY <1>2, <1>4, <3>1, <4>1
    <3>2. CASE q # current
      <4>1. st[q] = "idle" /\ flags'[q] = flags[q]
        BY <1>2, <1>4, <2>2, <3>2
      <4> QED
        BY <4>1
    <3> QED
      BY <3>1, <3>2
  <2> QED
    BY <2>1, <2>2
<1> QED
  BY <1>3, <1>4

LEMMA InitTasks == Init => TaskInv
<1> SUFFICES ASSUME Init PROVE TaskInv
  OBVIOUS
<1>1. Main \in Procs
  BY DEF Procs
<1>2. TypeOK
  BY <1>1 DEF Init, TypeOK
<1>3. OneRunning
  BY <1>1 DEF Init, OneRunning
<1>4. KernelOK
  BY <1>1 DEF Init, KernelOK
<1>5. FlagsOK
  BY DEF Init, FlagsOK
<1>6. ChildOK
  BY DEF Init, ChildOK, Creating
<1>7. KilledOK
  BY DEF Init, KilledOK
<1> QED
  BY <1>2, <1>3, <1>4, <1>5, <1>6, <1>7 DEF TaskInv

\* A switch from a running task (yield, the wait loop of fork).
LEMMA GiveWayKeeps ==
  ASSUME TaskInv, Running, SwitchTask(state, interrupts),
         UNCHANGED <<next, forkVars, nested_errors, killed, halted>>
  PROVE  TaskInv' /\ \E p \in Procs : Switched(state, p)
<1>1. /\ TypeOK /\ OneRunning /\ KernelOK /\ FlagsOK /\ ChildOK
      /\ state \in [Procs -> {"none", "idle", "running", "exit"}] /\ current \in Procs
      /\ interrupts \in BOOLEAN /\ interrupts
      /\ state[current] = "running"
      /\ \A q \in Procs : state[q] = "running" => q = current
      /\ \A q \in Procs : state[q] = "idle" => flags[q]
      /\ Main \in Procs
  BY DEF TaskInv, TypeOK, OneRunning, FlagsOK, Running, Procs
<1>2. /\ \E p \in Procs : Switched(state, p)
      /\ flags' \in [Procs -> BOOLEAN] /\ interrupts' \in BOOLEAN
  BY <1>1, SwitchStates
<1>3. interrupts' /\ \A q \in Procs : state'[q] = "idle" => flags'[q]
  BY <1>1, SwitchFlags
<1>4. PICK p \in Procs : Switched(state, p)
  BY <1>2
<1>5. TypeOK'
  BY <1>1, <1>2, <1>4 DEF TypeOK, Switched, forkVars
<1>6. OneRunning'
  BY <1>4 DEF OneRunning, Switched
<1>7. KernelOK'
  <2>1. state'[Main] \in {"idle", "running"}
    <3>1. state[Main] \notin {"none", "exit"}
      BY <1>1 DEF KernelOK
    <3> QED
      BY <1>1, <1>4, <3>1 DEF Switched
  <2> QED
    BY <1>1, <1>4, <2>1 DEF KernelOK, Switched
<1>8. FlagsOK'
  BY <1>3 DEF FlagsOK
<1>9. ChildOK'
  <2>1. \A q \in Procs : state[q] = "none" <=> state'[q] = "none"
    BY <1>4 DEF Switched
  <2>2. pc' = pc /\ child' = child /\ allocated' = allocated /\ child \in [Procs -> Procs]
    BY <1>1 DEF forkVars, TypeOK
  <2> QED
    BY <1>1, <2>1, <2>2 DEF ChildOK, Creating
<1>10. KilledOK'
  <2>1. \A q \in Procs : state[q] = "exit" <=> state'[q] = "exit"
    BY <1>4 DEF Switched
  <2> QED
    BY <1>1, <2>1 DEF KilledOK, TaskInv, TypeOK, Procs
<1> QED
  BY <1>2, <1>5, <1>6, <1>7, <1>8, <1>9, <1>10 DEF TaskInv

\* A switch from a task that the fault handler has made quit.
LEMMA KillKeeps ==
  ASSUME TaskInv, KillTask
  PROVE  /\ TaskInv' /\ current # Main
         /\ \E p \in Procs : Switched([state EXCEPT ![current] = "exit"], p)
<1> DEFINE st == [state EXCEPT ![current] = "exit"]
<1>1. /\ TypeOK /\ OneRunning /\ KernelOK /\ FlagsOK /\ ChildOK
      /\ state \in [Procs -> {"none", "idle", "running", "exit"}] /\ current \in Procs
      /\ state[current] = "running"
      /\ \A q \in Procs : state[q] = "running" => q = current
      /\ \A q \in Procs : state[q] = "idle" => flags[q]
      /\ Main \in Procs
  BY DEF TaskInv, TypeOK, OneRunning, FlagsOK, Procs
<1>2. /\ SwitchTask(st, FALSE) /\ current # Main /\ halted # "fault"
      /\ nested_errors' = nested_errors /\ UNCHANGED <<next, forkVars, halted>>
  <2>1. SwitchTask(st, FALSE) /\ UNCHANGED <<next, forkVars, halted>>
    BY DEF KillTask
  <2>2. nested_errors = 0 /\ nested_errors' = ErrorsAfterQuit(nested_errors)
    BY DEF KillTask
  <2>3. nested_errors' = nested_errors
    BY <2>2 DEF ErrorsAfterQuit
  <2>4. current # Main /\ halted = "no"
    BY <1>1, Zenon DEF KillTask, KernelOK, Running
  <2> QED
    BY <2>1, <2>3, <2>4
<1>3. /\ st \in [Procs -> {"none", "idle", "running", "exit"}]
      /\ st[current] = "exit"
      /\ \A q \in Procs : q # current => st[q] = state[q]
      /\ \A q \in Procs : st[q] = "running" => q = current
      /\ \A q \in Procs : st[q] = "idle" => flags[q]
      /\ \A q \in Procs : st[q] = "none" <=> state[q] = "none"
  BY <1>1
<1> HIDE DEF st
<1>4. /\ \E p \in Procs : Switched(st, p)
      /\ flags' \in [Procs -> BOOLEAN] /\ interrupts' \in BOOLEAN
  BY <1>1, <1>2, <1>3, SwitchStates
<1>5. interrupts' /\ \A q \in Procs : state'[q] = "idle" => flags'[q]
  BY <1>1, <1>2, <1>3, SwitchFlags
<1>6. PICK p \in Procs : Switched(st, p)
  BY <1>4
<1>7. TypeOK'
  <2>1. killed' \subseteq Tasks
    BY <1>1, <1>2 DEF KillTask, TypeOK, Procs
  <2> QED
    BY <1>1, <1>2, <1>4, <1>6, <2>1 DEF TypeOK, Switched, forkVars
<1>8. OneRunning'
  BY <1>6 DEF OneRunning, Switched
<1>9. KernelOK'
  <2>1. st[Main] \notin {"none", "exit"}
    BY <1>1, <1>2, <1>3 DEF KernelOK
  <2>2. state'[Main] \in {"idle", "running"}
    BY <1>1, <1>6, <2>1 DEF Switched
  <2> QED
    BY <1>1, <1>2, <1>6, <2>2 DEF KernelOK, Switched
<1>12. KilledOK'
  <2>1. \A q \in Procs : st[q] = "exit" <=> state'[q] = "exit"
    BY <1>6 DEF Switched
  <2>2. killed' = killed \cup {current} /\ killed \subseteq Procs
    BY <1>1 DEF KillTask, TypeOK, Procs
  <2> QED
    BY <1>1, <1>3, <2>1, <2>2 DEF KilledOK, TaskInv
<1>10. FlagsOK'
  BY <1>5 DEF FlagsOK
<1>11. ChildOK'
  <2>1. \A q \in Procs : state[q] = "none" <=> state'[q] = "none"
    BY <1>3, <1>6 DEF Switched
  <2>2. pc' = pc /\ child' = child /\ allocated' = allocated /\ child \in [Procs -> Procs]
    BY <1>1, <1>2 DEF forkVars, TypeOK
  <2> QED
    BY <1>1, <2>1, <2>2 DEF ChildOK, Creating
<1> QED
  BY <1>2, <1>4, <1>7, <1>8, <1>9, <1>10, <1>11, <1>12 DEF TaskInv, st

\* fork reserves a proc_t that has never been a task.
LEMMA ForkKeeps == ASSUME TaskInv, NEW c \in Tasks, Fork(c) PROVE TaskInv'
<1> USE DEF TaskInv, Fork
<1>1. /\ Main \in Procs /\ c \in Procs /\ c # Main /\ current \in Procs
      /\ pc \in [Procs -> {"code", "wait", "create", "stack_error"}]
      /\ child \in [Procs -> Procs] /\ allocated \subseteq Tasks
  BY MainIsNoTask DEF TypeOK, Procs
<1>2. /\ pc' = [pc EXCEPT ![current] = "wait"] /\ child' = [child EXCEPT ![current] = c]
      /\ allocated' = allocated \cup {c} /\ state' = state
      /\ current' = current /\ flags' = flags /\ halted' = halted /\ interrupts' = interrupts
      /\ in_kernel' = in_kernel /\ nested_errors' = nested_errors
      /\ next' = next /\ creating' = creating /\ killed' = killed
  BY DEF procVars, cpuVars
<1>3. TypeOK'
  BY <1>1, <1>2 DEF TypeOK
<1>4. OneRunning' /\ KernelOK' /\ FlagsOK' /\ KilledOK'
  BY <1>2 DEF OneRunning, KernelOK, FlagsOK, KilledOK
<1>5. ChildOK'
  <2>1. state[c] = "none"
    BY <1>1 DEF ChildOK
  <2>2. \A p \in Procs : Creating(p) => child[p] # c
    BY DEF ChildOK
  <2>3. \A p \in Procs : p # current => /\ Creating(p)' <=> Creating(p)
                                        /\ child'[p] = child[p]
    BY <1>1, <1>2 DEF Creating
  <2>4. Creating(current)' /\ child'[current] = c
    BY <1>1, <1>2 DEF Creating
  <2>5. \A p \in Procs : p \notin allocated' => p = Main \/ state'[p] = "none"
    BY <1>2 DEF ChildOK
  <2>6. \A p \in Procs : Creating(p)' => child'[p] \in allocated' /\ state'[child'[p]] = "none"
    <3> SUFFICES ASSUME NEW p \in Procs, Creating(p)'
                 PROVE  child'[p] \in allocated' /\ state'[child'[p]] = "none"
      OBVIOUS
    <3>1. CASE p = current
      BY <1>2, <2>1, <2>4, <3>1
    <3>2. CASE p # current
      BY <1>2, <2>3, <3>2 DEF ChildOK
    <3> QED
      BY <3>1, <3>2
  <2>7. \A p, q \in Procs : Creating(p)' /\ Creating(q)' /\ p # q => child'[p] # child'[q]
    <3> SUFFICES ASSUME NEW p \in Procs, NEW q \in Procs, Creating(p)', Creating(q)', p # q
                 PROVE  child'[p] # child'[q]
      OBVIOUS
    <3>1. CASE p = current
      BY <2>2, <2>3, <2>4, <3>1
    <3>2. CASE q = current
      BY <2>2, <2>3, <2>4, <3>2
    <3>3. CASE p # current /\ q # current
      BY <2>3, <3>3 DEF ChildOK
    <3> QED
      BY <3>1, <3>2, <3>3
  <2> QED
    BY <2>5, <2>6, <2>7 DEF ChildOK, Creating
<1> QED
  BY <1>3, <1>4, <1>5

LEMMA BeginCreateKeeps == ASSUME TaskInv, BeginCreate PROVE TaskInv'
<1> USE DEF TaskInv, BeginCreate
<1>1. /\ Main \in Procs /\ current \in Procs /\ next \in [Procs -> Procs]
      /\ pc \in [Procs -> {"code", "wait", "create", "stack_error"}]
      /\ child \in [Procs -> Procs] /\ pc[current] = "wait"
  BY DEF TypeOK, Procs
<1>2. /\ pc' = [pc EXCEPT ![current] = "create"] /\ child' = child
      /\ next' = [next EXCEPT ![child[current]] = next[Main]]
      /\ allocated' = allocated /\ state' = state /\ creating' = TRUE /\ killed' = killed
      /\ current' = current /\ flags' = flags /\ halted' = halted /\ interrupts' = interrupts
      /\ in_kernel' = in_kernel /\ nested_errors' = nested_errors
  BY DEF cpuVars
<1>3. TypeOK'
  BY <1>1, <1>2 DEF TypeOK
<1>4. OneRunning' /\ KernelOK' /\ FlagsOK' /\ KilledOK'
  BY <1>2 DEF OneRunning, KernelOK, FlagsOK, KilledOK
<1>5. ChildOK'
  <2>1. \A p \in Procs : Creating(p)' <=> Creating(p)
    BY <1>1, <1>2 DEF Creating
  <2> QED
    BY <1>1, <1>2, <2>1 DEF ChildOK
<1> QED
  BY <1>3, <1>4, <1>5

LEMMA EndCreateKeeps ==
  ASSUME TaskInv, EndCreate
  PROVE  /\ TaskInv' /\ current' = current /\ halted' = halted
         /\ \E c \in Procs : state[c] = "none" /\ state' = [state EXCEPT ![c] = "idle"]
<1> DEFINE c == child[current]
<1> USE DEF TaskInv, EndCreate
<1>1. /\ Main \in Procs /\ current \in Procs /\ next \in [Procs -> Procs]
      /\ state \in [Procs -> {"none", "idle", "running", "exit"}]
      /\ pc \in [Procs -> {"code", "wait", "create", "stack_error"}]
      /\ flags \in [Procs -> BOOLEAN] /\ interrupts \in BOOLEAN
      /\ child \in [Procs -> Procs] /\ Creating(current) /\ c \in Procs
      /\ state[current] = "running"
  BY DEF TypeOK, Procs, Creating, OneRunning
<1>2. state[c] = "none" /\ c \in allocated /\ c # Main /\ c # current
  BY <1>1, MainIsNoTask DEF ChildOK, KernelOK
<1>3. /\ pc' = [pc EXCEPT ![current] = "code"] /\ child' = child
      /\ next' = [next EXCEPT ![Main] = c] /\ flags' = [flags EXCEPT ![c] = interrupts]
      /\ state' = [state EXCEPT ![c] = "idle"]
      /\ allocated' = allocated /\ creating' = FALSE
      /\ current' = current /\ halted' = halted /\ interrupts' = interrupts
      /\ in_kernel' = in_kernel /\ nested_errors' = nested_errors
      /\ halted = "no" /\ killed' = killed
  BY DEF Running
<1> HIDE DEF EndCreate, c
<1>4. TypeOK'
  BY <1>1, <1>3 DEF TypeOK
<1>5. OneRunning'
  BY <1>1, <1>2, <1>3 DEF OneRunning
<1>6. KernelOK'
  BY <1>1, <1>2, <1>3 DEF KernelOK
<1>7. FlagsOK'
  <2>1. interrupts
    BY <1>3 DEF FlagsOK
  <2>2. ASSUME NEW p \in Procs, state'[p] = "idle" PROVE flags'[p]
    <3>1. CASE p = c
      BY <1>1, <1>3, <2>1, <3>1
    <3>2. CASE p # c
      BY <1>1, <1>3, <2>2, <3>2 DEF FlagsOK
    <3> QED
      BY <3>1, <3>2
  <2> QED
    BY <1>3, <2>1, <2>2 DEF FlagsOK
<1>8. ChildOK'
  <2>1. \A p \in Procs : Creating(p)' => Creating(p) /\ p # current
    BY <1>1, <1>3 DEF Creating
  <2>2. \A p \in Procs : Creating(p) /\ p # current => child[p] # c
    BY <1>1 DEF ChildOK, c
  <2>3. \A p \in Procs : p # c => state'[p] = state[p]
    BY <1>1, <1>3
  <2>4. \A p \in Procs : p \notin allocated' => p = Main \/ state'[p] = "none"
    BY <1>2, <1>3, <2>3 DEF ChildOK
  <2>5. \A p \in Procs : Creating(p)' => child'[p] \in allocated' /\ state'[child'[p]] = "none"
    BY <1>1, <1>3, <2>1, <2>2, <2>3 DEF ChildOK
  <2>6. \A p, q \in Procs : Creating(p)' /\ Creating(q)' /\ p # q => child'[p] # child'[q]
    BY <1>3, <2>1 DEF ChildOK
  <2> QED
    BY <2>4, <2>5, <2>6 DEF ChildOK, Creating
<1>9. KilledOK'
  BY <1>1, <1>2, <1>3 DEF KilledOK, TypeOK, Procs
<1> QED
  BY <1>1, <1>2, <1>3, <1>4, <1>5, <1>6, <1>7, <1>8, <1>9

\* What is left touches neither states nor tasks in creation.
LEMMA OthersKeep ==
  ASSUME TaskInv, Return \/ NoFrame \/ StopMachine \/ DoubleFault \/ UNCHANGED vars
  PROVE  /\ TaskInv' /\ state' = state /\ current' = current
         /\ halted' = "fault" /\ halted # "fault" => current = Main
<1> USE DEF TaskInv
<1>1. CASE Return
  <2>1. /\ pc' = [pc EXCEPT ![current] = "stack_error"] /\ UNCHANGED <<procVars, cpuVars>>
        /\ UNCHANGED <<creating, child, allocated>>
        /\ current \in Procs /\ pc \in [Procs -> {"code", "wait", "create", "stack_error"}]
    BY <1>1 DEF Return, TypeOK
  <2>2. \A p \in Procs : Creating(p)' => Creating(p)
    BY <2>1 DEF Creating
  <2>3. TypeOK' /\ OneRunning' /\ KernelOK' /\ FlagsOK' /\ KilledOK'
    BY <2>1 DEF TypeOK, OneRunning, KernelOK, FlagsOK, KilledOK, procVars, cpuVars
  <2>4. ChildOK'
    BY <2>1, <2>2 DEF ChildOK, procVars
  <2> QED
    BY <2>1, <2>3, <2>4 DEF procVars, cpuVars
<1>2. CASE NoFrame
  BY <1>2 DEF NoFrame, TypeOK, OneRunning, KernelOK, FlagsOK, KilledOK, ChildOK, Creating,
              procVars, forkVars, Running
<1>3. CASE StopMachine
  <2>1. /\ UNCHANGED <<procVars, forkVars, flags, killed>> /\ halted' = "fault" /\ halted = "no"
        /\ interrupts' = FALSE /\ nested_errors' \in {0, 1}
        /\ in_kernel \/ nested_errors # 0
    BY <1>3 DEF StopMachine, Running, TypeOK
  <2>2. current = Main
    BY <2>1 DEF KernelOK
  <2>3. TypeOK' /\ OneRunning'
    BY <2>1 DEF TypeOK, OneRunning, procVars, forkVars
  <2>4. KernelOK' /\ FlagsOK' /\ KilledOK'
    BY <2>1 DEF KernelOK, FlagsOK, KilledOK, procVars
  <2>5. ChildOK'
    BY <2>1 DEF ChildOK, Creating, procVars, forkVars
  <2> QED
    BY <2>1, <2>2, <2>3, <2>4, <2>5 DEF procVars
<1>4. CASE DoubleFault
  BY <1>4 DEF DoubleFault, TypeOK, OneRunning, KernelOK, FlagsOK, KilledOK, ChildOK, Creating,
              procVars, forkVars, Running
<1>5. CASE UNCHANGED vars
  BY <1>5 DEF vars, procVars, forkVars, cpuVars, TypeOK, OneRunning, KernelOK, FlagsOK, KilledOK,
              ChildOK, Creating
<1> QED
  BY <1>1, <1>2, <1>3, <1>4, <1>5

LEMMA TaskStep == TaskInv /\ [Next]_vars => TaskInv'
<1> SUFFICES ASSUME TaskInv, [Next]_vars PROVE TaskInv'
  OBVIOUS
<1>1. CASE Yield
  BY <1>1, GiveWayKeeps DEF Yield
<1>2. CASE WaitForCreation
  BY <1>2, GiveWayKeeps DEF WaitForCreation
<1>3. ASSUME NEW c \in Tasks, Fork(c) PROVE TaskInv'
  BY <1>3, ForkKeeps
<1>4. CASE BeginCreate
  BY <1>4, BeginCreateKeeps
<1>5. CASE EndCreate
  BY <1>5, EndCreateKeeps
<1>6. CASE KillTask
  BY <1>6, KillKeeps
<1>7. CASE Return \/ NoFrame \/ StopMachine \/ DoubleFault \/ UNCHANGED vars
  BY <1>7, OthersKeep
<1> QED
  BY <1>1, <1>2, <1>3, <1>4, <1>5, <1>6, <1>7 DEF Next

LEMMA TasksAlways == Spec => []TaskInv
<1> QED
  BY InitTasks, TaskStep, PTL DEF Spec

-----------------------------------------------------------------------------
(* What follows from it.                                                     *)

\* The state of the tasks is well typed, for every set of tasks.
THEOREM TasksTyped == Spec => []TypeOK
<1>1. TaskInv => TypeOK
  BY DEF TaskInv
<1> QED
  BY TasksAlways, <1>1, PTL

\* Exactly the current task is in the state proc_running.
THEOREM OneTaskRuns == Spec => []OneRunning
<1>1. TaskInv => OneRunning
  BY DEF TaskInv
<1> QED
  BY TasksAlways, <1>1, PTL

\* Task code has interrupts enabled, after any number of kills.
THEOREM InterruptsComeBack == Spec => []InterruptsOn
<1>1. TaskInv => InterruptsOn
  BY DEF TaskInv, FlagsOK, InterruptsOn
<1> QED
  BY TasksAlways, <1>1, PTL

\* A switch is a step of the scheduler, or nothing it can see.
LEMMA GiveWayRefines ==
  ASSUME TaskInv, Running, halted' = halted, NEW p \in Procs, Switched(state, p)
  PROVE  [S!SchedNext]_(S!schedVars)
<1>1. /\ current \in Procs /\ state[current] = "running"
      /\ \A q \in Procs : state[q] = "running" => q = current
  BY DEF TaskInv, TypeOK, OneRunning
<1>2. CASE p = current
  BY <1>2 DEF Switched, S!schedVars
<1>3. CASE p # current
  <2>1. state[p] = "idle" /\ current' = p
    BY <1>3 DEF Switched
  <2>2. \A q \in Procs : state'[q] = "idle" <=> (state[q] = "idle" /\ q # p) \/ q = current
    <3>1. state'[current] = "idle"
      <4>1. state'[current] \in {"none", "idle", "running", "exit"}
        BY <1>1 DEF Switched
      <4> QED
        BY <1>1, <1>3, <4>1 DEF Switched
    <3>2. state'[p] = "running"
      BY DEF Switched
    <3>3. \A q \in Procs : q \notin {p, current} => state'[q] = state[q]
      BY DEF Switched
    <3> QED
      BY <3>1, <3>2, <3>3
  <2>3. {q \in Procs : state'[q] = "idle"}
           = ({q \in Procs : state[q] = "idle"} \ {p}) \cup {current}
    BY <1>1, <2>2
  <2>4. S!GiveWay(p)
    BY <2>1, <2>3 DEF S!GiveWay, Running
  <2> QED
    BY <2>4 DEF S!SchedNext
<1> QED
  BY <1>2, <1>3

LEMMA KillRefines == ASSUME TaskInv, KillTask PROVE S!SchedNext
<1> DEFINE st == [state EXCEPT ![current] = "exit"]
<1>1. current # Main /\ halted = "no" /\ halted' = halted
  BY KillKeeps DEF KillTask, Running
<1>2. PICK p \in Procs : Switched(st, p)
  BY KillKeeps
<1>3. /\ current \in Procs /\ state \in [Procs -> {"none", "idle", "running", "exit"}]
      /\ state[current] = "running"
  BY DEF TaskInv, TypeOK, OneRunning
<1>4. st[current] = "exit" /\ \A q \in Procs : q # current => st[q] = state[q]
  BY <1>3
<1> HIDE DEF st
<1>5. p # current /\ state[p] = "idle" /\ current' = p
  BY <1>2, <1>3, <1>4 DEF Switched
<1>6. \A q \in Procs : state'[q] = "idle" <=> state[q] = "idle" /\ q # p
  <2>1. state'[current] = "exit" /\ state'[p] = "running"
    BY <1>2, <1>3, <1>4 DEF Switched
  <2>2. \A q \in Procs : q \notin {p, current} => state'[q] = state[q]
    BY <1>2, <1>4 DEF Switched
  <2> QED
    BY <1>3, <2>1, <2>2
<1>7. {q \in Procs : state'[q] = "idle"} = {q \in Procs : state[q] = "idle"} \ {p}
  BY <1>6
<1>8. S!Kill(p)
  BY <1>1, <1>5, <1>7 DEF S!Kill
<1> QED
  BY <1>8 DEF S!SchedNext

LEMMA StepRefines == ASSUME TaskInv, [Next]_vars PROVE [S!SchedNext]_(S!schedVars)
<1>1. CASE Yield
  <2>1. PICK p \in Procs : Switched(state, p)
    BY <1>1, GiveWayKeeps DEF Yield, Switched
  <2> QED
    BY <1>1, <2>1, GiveWayRefines DEF Yield
<1>2. CASE WaitForCreation
  <2>1. PICK p \in Procs : Switched(state, p)
    BY <1>2, GiveWayKeeps DEF WaitForCreation, Switched
  <2> QED
    BY <1>2, <2>1, GiveWayRefines DEF WaitForCreation
<1>3. ASSUME NEW c \in Tasks, Fork(c) PROVE [S!SchedNext]_(S!schedVars)
  BY <1>3 DEF Fork, S!schedVars, procVars, cpuVars
<1>4. CASE BeginCreate
  BY <1>4 DEF BeginCreate, S!schedVars, cpuVars
<1>5. CASE EndCreate
  <2>1. /\ current' = current /\ halted' = halted /\ halted = "no"
        /\ state \in [Procs -> {"none", "idle", "running", "exit"}]
        /\ state[current] = "running"
    BY <1>5, EndCreateKeeps DEF EndCreate, Running, TaskInv, TypeOK, OneRunning
  <2>2. PICK c \in Procs : state[c] = "none" /\ state' = [state EXCEPT ![c] = "idle"]
    BY <1>5, EndCreateKeeps
  <2>3. {q \in Procs : state'[q] = "idle"} = {q \in Procs : state[q] = "idle"} \cup {c}
    BY <2>1, <2>2
  <2>4. S!Create(c)
    BY <2>1, <2>2, <2>3 DEF S!Create
  <2> QED
    BY <2>4 DEF S!SchedNext
<1>6. CASE KillTask
  BY <1>6, KillRefines
<1>7. CASE StopMachine \/ DoubleFault \/ NoFrame
  <2>1. state' = state /\ current' = current /\ halted = "no" /\ halted' # "no"
    BY <1>7 DEF StopMachine, DoubleFault, NoFrame, Running, procVars
  <2>2. S!Stop
    BY <2>1 DEF S!Stop
  <2> QED
    BY <2>2 DEF S!SchedNext
<1>8. CASE Return \/ UNCHANGED vars
  BY <1>8 DEF Return, vars, procVars, cpuVars, S!schedVars
<1> QED
  BY <1>1, <1>2, <1>3, <1>4, <1>5, <1>6, <1>7, <1>8 DEF Next

\* Every step that fork, yield or a fault takes is one the Scheduler allows.
THEOREM TasksImplementScheduler == Spec => S!SchedInit /\ [][S!SchedNext]_(S!schedVars)
<1>1. Init => S!SchedInit
  BY DEF Init, S!SchedInit, Procs
<1>2. TaskInv /\ [Next]_vars => [S!SchedNext]_(S!schedVars)
  BY StepRefines
<1> QED
  BY TasksAlways, <1>1, <1>2, PTL DEF Spec

\* A killed task never becomes current again.
THEOREM KilledStayDead == Spec => ExitIsFinal
<1> DEFINE Dead == \A p \in killed : current' # p
<1>1. TaskInv /\ TaskInv' /\ [Next]_vars => [Dead]_vars
  <2> SUFFICES ASSUME TaskInv, TaskInv', [Next]_vars, NEW p \in killed
               PROVE  current' # p
    OBVIOUS
  <2>1. p \in killed'
    BY DEF Next, Yield, Return, WaitForCreation, Fork, BeginCreate, EndCreate, NoFrame,
           KillTask, StopMachine, DoubleFault, cpuVars, vars
  <2>2. state'[p] = "exit" /\ state'[current'] = "running"
    BY <2>1 DEF TaskInv, KilledOK, OneRunning, TypeOK
  <2> QED
    BY <2>2
<1> QED
  BY TasksAlways, <1>1, PTL DEF Spec, ExitIsFinal

\* Of the faults that may kill a task (page, protection and stack faults) only one
\* of main_proc stops the machine; a double fault stops it whoever runs.
THEOREM TaskFaultsContained == Spec => FaultsContained
<1> DEFINE Contained == halted' = "fault" /\ halted # "fault" => current = Main
<1>1. TaskInv /\ [Next]_vars => [Contained]_vars
  <2> SUFFICES ASSUME TaskInv, [Next]_vars PROVE Contained
    OBVIOUS
  <2>1. CASE Return \/ NoFrame \/ StopMachine \/ DoubleFault \/ UNCHANGED vars
    BY <2>1, OthersKeep
  <2>2. CASE Yield \/ WaitForCreation \/ (\E c \in Tasks : Fork(c)) \/ BeginCreate
             \/ EndCreate \/ KillTask
    BY <2>2 DEF Yield, WaitForCreation, Fork, BeginCreate, EndCreate, KillTask, cpuVars
  <2> QED
    BY <2>1, <2>2 DEF Next
<1> QED
  BY TasksAlways, <1>1, PTL DEF Spec, FaultsContained

-----------------------------------------------------------------------------
(* Counting along the next pointers.                                         *)

LEMMA Least ==
  ASSUME NEW K \in SUBSET Nat, K # {}
  PROVE  \E k \in K : \A j \in K : k <= j
<1> DEFINE R == OpToRel(<, Nat)
<1>1. IsWellFoundedOn(R, Nat)
  BY NatLessThanWellFounded
<1>2. \A x, y \in Nat : <<y, x>> \in R <=> y < x
  BY DEF OpToRel
<1> HIDE DEF R
<1>3. \E x \in K : \A y \in K : <<y, x>> \notin R
  BY <1>1, WFMin, Zenon
<1>4. PICK x \in K : \A y \in K : <<y, x>> \notin R
  BY <1>3
<1>5. \A y \in K : ~(y < x)
  BY <1>2, <1>4
<1>6. \A y \in K : x <= y
  BY <1>5
<1> QED
  BY <1>6

\* A set of numbers that holds 0 and the successor of each of its elements is Nat.
LEMMA Successors ==
  ASSUME NEW K \in SUBSET Nat, 0 \in K, \A k \in K : k + 1 \in K
  PROVE  K = Nat
<1> SUFFICES ASSUME Nat \ K # {} PROVE FALSE
  OBVIOUS
<1>1. PICK n \in Nat \ K : \A j \in Nat \ K : n <= j
  BY Least
<1>2. n # 0 /\ n - 1 \in Nat /\ n - 1 < n /\ (n - 1) + 1 = n
  BY <1>1
<1>3. n - 1 \in K
  BY <1>1, <1>2
<1> QED
  BY <1>1, <1>2, <1>3

\* The endless walk along f from x, which exists.
Orbits(P, f, x) == {w \in [Nat -> P] : w[0] = x /\ \A k \in Nat : w[k + 1] = f[w[k]]}

LEMMA Iterates ==
  ASSUME NEW P, NEW f \in [P -> P], NEW x \in P
  PROVE  Orbits(P, f, x) # {}
<1> DEFINE G(n) == {g \in [0 .. n -> P] : g[0] = x /\ \A k \in 0 .. (n - 1) : g[k + 1] = f[g[k]]}
           T == {n \in Nat : G(n) # {}}
<1>1. T = Nat
  <2>1. 0 \in T
    <3> DEFINE g == [k \in 0 .. 0 |-> x]
    <3>1. g \in G(0)
      OBVIOUS
    <3> QED
      BY <3>1
  <2>2. ASSUME NEW n \in T PROVE n + 1 \in T
    <3>1. PICK g \in [0 .. n -> P] : g[0] = x /\ \A k \in 0 .. (n - 1) : g[k + 1] = f[g[k]]
      OBVIOUS
    <3> DEFINE h == [k \in 0 .. (n + 1) |-> IF k = n + 1 THEN f[g[n]] ELSE g[k]]
    <3>2. n \in Nat /\ n \in 0 .. n
      OBVIOUS
    <3>3. h \in [0 .. (n + 1) -> P] /\ h[0] = x
      BY <3>1, <3>2
    <3>4. \A k \in 0 .. n : h[k + 1] = f[h[k]]
      BY <3>1, <3>2
    <3>5. (n + 1) - 1 = n
      BY <3>2
    <3> HIDE DEF h
    <3>6. h \in G(n + 1)
      BY <3>3, <3>4, <3>5
    <3>7. n + 1 \in Nat
      BY <3>2
    <3> QED
      BY <3>6, <3>7
  <2> HIDE DEF T
  <2>3. T \subseteq Nat
    BY DEF T
  <2> QED
    BY <2>1, <2>2, <2>3, Successors
<1>2. ASSUME NEW n \in Nat, NEW m \in Nat, n <= m, NEW g \in G(n), NEW h \in G(m), NEW k \in 0 .. n
      PROVE  g[k] = h[k]
  <2> DEFINE K == {j \in Nat : j <= n => g[j] = h[j]}
  <2>1. 0 \in K
    OBVIOUS
  <2>2. ASSUME NEW j \in K PROVE j + 1 \in K
    <3> SUFFICES ASSUME j + 1 <= n PROVE g[j + 1] = h[j + 1]
      OBVIOUS
    <3>1. j \in 0 .. (n - 1) /\ j \in 0 .. (m - 1) /\ g[j] = h[j]
      BY <1>2
    <3> QED
      BY <3>1
  <2>3. K \subseteq Nat
    OBVIOUS
  <2> HIDE DEF K
  <2>4. K = Nat
    BY <2>1, <2>2, <2>3, Successors
  <2>5. k \in K /\ k <= n
    BY <2>4
  <2> QED
    BY <2>5 DEF K
<1> DEFINE c(n) == CHOOSE g \in G(n) : TRUE
           w == [n \in Nat |-> c(n)[n]]
<1>3. \A n \in Nat : c(n) \in G(n)
  BY <1>1
<1>4. \A n \in Nat : G(n) \subseteq [0 .. n -> P]
  OBVIOUS
<1>5. \A n \in Nat : c(n)[n] \in P
  <2> HIDE DEF c, G
  <2> QED
    BY <1>3, <1>4
<1>6. w[0] = x
  BY <1>3
<1>7. ASSUME NEW k \in Nat PROVE w[k + 1] = f[w[k]]
  <2>1. c(k + 1) \in G(k + 1) /\ c(k) \in G(k) /\ k + 1 \in Nat /\ k <= k + 1 /\ k \in 0 .. k
    <3>1. k + 1 \in Nat /\ k <= k + 1 /\ k \in 0 .. k
      OBVIOUS
    <3> HIDE DEF c, G
    <3> QED
      BY <1>3, <3>1
  <2>2. c(k)[k] = c(k + 1)[k]
    <3> HIDE DEF c, G
    <3> QED
      BY <1>2, <2>1
  <2>3. \A g \in G(k + 1) : g[k + 1] = f[g[k]]
    OBVIOUS
  <2>4. c(k + 1)[k + 1] = f[c(k + 1)[k]]
    <3> HIDE DEF c, G
    <3> QED
      BY <2>1, <2>3
  <2> HIDE DEF c, G
  <2> QED
    BY <2>1, <2>2, <2>4
<1> HIDE DEF c, G
<1>8. w \in [Nat -> P]
  BY <1>5
<1>9. w \in Orbits(P, f, x)
  <2> HIDE DEF w
  <2> QED
    BY <1>6, <1>7, <1>8 DEF Orbits
<1> QED
  BY <1>9

-----------------------------------------------------------------------------
(* The ring.                                                                 *)

\* The r enumerates the tasks along the next pointers, from main_proc back to it.
Enumerates(r, n) ==
    /\ r \in [0 .. n -> Members] /\ r[0] = Main /\ r[n] = Main
    /\ \A k \in 0 .. (n - 1) : r[k + 1] = next[r[k]]
    /\ \A k \in 1 .. (n - 1) : r[k] # Main
    /\ \A p \in Members : \E k \in 0 .. (n - 1) : r[k] = p

Linked == \E r : Enumerates(r, Cardinality(Members))

\* task_creation_in_progress is a lock: what the task that holds it has read of
\* main_proc's next is still so.
CreateOK == /\ \A p \in Procs : pc[p] = "create" => creating /\ next[child[p]] = next[Main]
            /\ \A p, q \in Procs : pc[p] = "create" /\ pc[q] = "create" => p = q

RingInv == TaskInv /\ CreateOK /\ Linked

LEMMA MembersFinite ==
  TaskInv => /\ IsFiniteSet(Members) /\ Members \subseteq Procs /\ Main \in Members /\ current \in Members
             /\ Cardinality(Members) \in Nat /\ Cardinality(Members) >= 1
             /\ Cardinality(Procs) \in Nat /\ Cardinality(Members) <= Cardinality(Procs)
<1> SUFFICES ASSUME TaskInv
             PROVE  /\ IsFiniteSet(Members) /\ Members \subseteq Procs
                    /\ Main \in Members /\ current \in Members
                    /\ Cardinality(Members) \in Nat /\ Cardinality(Members) >= 1
                    /\ Cardinality(Procs) \in Nat /\ Cardinality(Members) <= Cardinality(Procs)
  OBVIOUS
<1>1. IsFiniteSet(Procs)
  BY MainIsNoTask, FS_AddElement DEF Procs
<1>2. Members \subseteq Procs
  BY DEF Members
<1>3. Main \in Members /\ current \in Members
  BY DEF TaskInv, KernelOK, OneRunning, TypeOK, Members, Procs
<1>4. IsFiniteSet(Members) /\ Cardinality(Members) <= Cardinality(Procs)
  BY <1>1, <1>2, FS_Subset
<1>5. Cardinality(Members) \in Nat /\ Cardinality(Procs) \in Nat /\ Cardinality(Members) # 0
  BY <1>1, <1>3, <1>4, FS_CardinalityType, FS_EmptySet
<1> QED
  BY <1>2, <1>3, <1>4, <1>5

LEMMA InitRing == Init => RingInv
<1> SUFFICES ASSUME Init PROVE RingInv
  OBVIOUS
<1>1. TaskInv
  BY InitTasks
<1>2. CreateOK
  BY DEF Init, CreateOK
<1>3. Members = {Main} /\ Main \in Procs /\ next[Main] = Main
  BY DEF Init, Members, Procs
<1>4. Cardinality(Members) = 1
  BY <1>3, FS_Singleton
<1> DEFINE r == [k \in 0 .. 1 |-> Main]
<1>5. Enumerates(r, 1)
  BY <1>3 DEF Enumerates
<1> HIDE DEF r
<1>6. Linked
  BY <1>4, <1>5 DEF Linked
<1> QED
  BY <1>1, <1>2, <1>6 DEF RingInv

\* Steps that link no task and change the next of none.
LEMMA RingStays ==
  ASSUME Linked, Cardinality(Members) \in Nat, Members' = Members, \A p \in Members : next'[p] = next[p]
  PROVE  Linked'
<1> PICK n : n = Cardinality(Members)
  OBVIOUS
<1>1. PICK r : Enumerates(r, n)
  BY DEF Linked
<1>2. /\ r \in [0 .. n -> Members] /\ \A k \in 0 .. (n - 1) : r[k + 1] = next[r[k]]
      /\ \A k \in 0 .. (n - 1) : k \in 0 .. n
  BY <1>1 DEF Enumerates
<1>3. \A k \in 0 .. (n - 1) : r[k + 1] = next'[r[k]]
  BY <1>2
<1>4. Enumerates(r, n)'
  BY <1>1, <1>3 DEF Enumerates
<1> QED
  BY <1>4 DEF Linked

\* EndCreate puts the new task behind main_proc.
LEMMA RingGrows ==
  ASSUME RingInv, EndCreate PROVE Linked'
<1> DEFINE c == child[current]
<1> PICK n : n = Cardinality(Members)
  OBVIOUS
<1>1. /\ current \in Procs /\ pc[current] = "create" /\ child \in [Procs -> Procs] /\ c \in Procs
      /\ next \in [Procs -> Procs] /\ state \in [Procs -> {"none", "idle", "running", "exit"}]
      /\ next' = [next EXCEPT ![Main] = c] /\ state' = [state EXCEPT ![c] = "idle"]
      /\ Main \in Procs /\ TaskInv
  BY DEF EndCreate, RingInv, TaskInv, TypeOK, Procs
<1>2. state[c] = "none" /\ c # Main /\ next[c] = next[Main]
  BY <1>1 DEF RingInv, TaskInv, ChildOK, KernelOK, Creating, CreateOK
<1> HIDE DEF c
<1>3. Members' = Members \cup {c} /\ c \notin Members
  BY <1>1, <1>2 DEF Members
<1>4. Cardinality(Members') = n + 1 /\ n \in Nat /\ n >= 1 /\ Main \in Members
  <2>1. Cardinality(Members \cup {c}) = Cardinality(Members) + 1
    BY <1>1, <1>3, MembersFinite, FS_AddElement
  <2> QED
    BY <1>1, <1>3, <2>1, MembersFinite
<1>5. PICK r : Enumerates(r, n)
  BY DEF RingInv, Linked
<1>6. /\ r \in [0 .. n -> Members] /\ r[0] = Main /\ r[n] = Main
      /\ \A k \in 0 .. (n - 1) : r[k + 1] = next[r[k]]
      /\ \A k \in 1 .. (n - 1) : r[k] # Main
      /\ \A p \in Members : \E k \in 0 .. (n - 1) : r[k] = p
  BY <1>5 DEF Enumerates
<1> PICK s : s = [k \in 0 .. (n + 1) |-> IF k = 0 THEN Main ELSE IF k = 1 THEN c ELSE r[k - 1]]
  OBVIOUS
<1>7. /\ s \in [0 .. (n + 1) -> Members \cup {c}] /\ s[0] = Main /\ s[1] = c /\ s[n + 1] = Main
      /\ \A k \in 2 .. (n + 1) : s[k] = r[k - 1]
  BY <1>4, <1>6
<1>8. \A k \in 0 .. n : s[k + 1] = next'[s[k]]
  <2> SUFFICES ASSUME NEW k \in 0 .. n PROVE s[k + 1] = next'[s[k]]
    OBVIOUS
  <2>1. CASE k = 0
    BY <1>1, <1>7, <2>1
  <2>2. CASE k = 1
    <3>1. s[2] = r[1] /\ r[1] = next[Main]
      BY <1>4, <1>6, <1>7, <2>2
    <3> QED
      BY <1>1, <1>2, <1>7, <2>2, <3>1
  <2>3. CASE k >= 2
    <3>1. k - 1 \in 1 .. (n - 1) /\ k - 1 \in 0 .. (n - 1) /\ k - 1 \in 0 .. n /\ k \in 2 .. (n + 1)
          /\ k + 1 \in 2 .. (n + 1) /\ (k + 1) - 1 = k /\ (k - 1) + 1 = k
      BY <1>4, <2>3
    <3>2. s[k + 1] = r[k] /\ s[k] = r[k - 1]
      BY <1>7, <3>1
    <3>3. r[k] = next[r[k - 1]] /\ r[k - 1] # Main /\ r[k - 1] \in Members
      BY <1>6, <3>1
    <3>4. next'[r[k - 1]] = next[r[k - 1]]
      BY <1>1, <3>3 DEF Members
    <3> QED
      BY <3>2, <3>3, <3>4
  <2> QED
    BY <1>4, <2>1, <2>2, <2>3
<1>9. \A k \in 1 .. n : s[k] # Main
  <2> SUFFICES ASSUME NEW k \in 1 .. n PROVE s[k] # Main
    OBVIOUS
  <2>1. CASE k = 1
    BY <1>2, <1>7, <2>1
  <2>2. CASE k # 1
    <3>1. k \in 2 .. (n + 1) /\ k - 1 \in 1 .. (n - 1)
      BY <1>4, <2>2
    <3> QED
      BY <1>6, <1>7, <3>1
  <2> QED
    BY <2>1, <2>2
<1>10. \A p \in Members \cup {c} : \E k \in 0 .. n : s[k] = p
  <2> SUFFICES ASSUME NEW p \in Members \cup {c} PROVE \E k \in 0 .. n : s[k] = p
    OBVIOUS
  <2>1. CASE p = c
    <3>1. 1 \in 0 .. n
      BY <1>4
    <3> QED
      BY <1>7, <2>1, <3>1
  <2>2. CASE p # c
    <3>1. PICK k \in 0 .. (n - 1) : r[k] = p
      BY <1>6, <2>2
    <3>2. CASE k = 0
      <4>1. 0 \in 0 .. n
        BY <1>4
      <4> QED
        BY <1>6, <1>7, <3>1, <3>2, <4>1
    <3>3. CASE k # 0
      <4>1. k + 1 \in 2 .. (n + 1) /\ k + 1 \in 0 .. n /\ (k + 1) - 1 = k
        BY <1>4, <3>3
      <4>2. s[k + 1] = p
        BY <1>7, <3>1, <4>1
      <4> QED
        BY <4>1, <4>2
    <3> QED
      BY <3>2, <3>3
  <2> QED
    BY <2>1, <2>2
<1>11. (n + 1) - 1 = n
  BY <1>4
<1>12. Enumerates(s, n + 1)'
  <2>1. s \in [0 .. n + 1 -> Members'] /\ s[0] = Main /\ s[n + 1] = Main
    BY <1>3, <1>7
  <2>2. /\ \A k \in 0 .. ((n + 1) - 1) : s[k + 1] = next'[s[k]]
        /\ \A k \in 1 .. ((n + 1) - 1) : s[k] # Main
    BY <1>8, <1>9, <1>11
  <2>3. \A p \in Members' : \E k \in 0 .. ((n + 1) - 1) : s[k] = p
    BY <1>3, <1>10, <1>11
  <2> QED
    BY <2>1, <2>2, <2>3 DEF Enumerates
<1>13. Cardinality(Members)' = n + 1
  BY <1>4
<1> QED
  BY <1>12, <1>13 DEF Linked

LEMMA RingStep == RingInv /\ [Next]_vars => RingInv'
<1> SUFFICES ASSUME RingInv, [Next]_vars PROVE RingInv'
  OBVIOUS
<1>1. TaskInv /\ TaskInv' /\ CreateOK /\ Linked /\ TypeOK
  BY TaskStep DEF RingInv, TaskInv
<1>2. /\ current \in Procs /\ Main \in Procs /\ next \in [Procs -> Procs] /\ child \in [Procs -> Procs]
      /\ pc \in [Procs -> {"code", "wait", "create", "stack_error"}]
      /\ state \in [Procs -> {"none", "idle", "running", "exit"}] /\ state[current] = "running"
  BY <1>1 DEF TypeOK, Procs, TaskInv, OneRunning
<1>3. CASE Yield \/ WaitForCreation \/ KillTask
  <2>1. UNCHANGED <<next, creating, pc, child>>
    BY <1>3 DEF Yield, WaitForCreation, KillTask, forkVars
  <2>2. \A p \in Procs : state'[p] = "none" <=> state[p] = "none"
    <3>1. CASE Yield \/ WaitForCreation
      BY <1>1, <3>1, GiveWayKeeps DEF Yield, WaitForCreation, Switched
    <3>2. CASE KillTask
      <4> DEFINE st == [state EXCEPT ![current] = "exit"]
      <4>1. \A p \in Procs : st[p] = "none" <=> state[p] = "none"
        BY <1>2
      <4> HIDE DEF st
      <4>2. \A p \in Procs : st[p] = "none" <=> state'[p] = "none"
        BY <1>1, <3>2, KillKeeps DEF Switched, st
      <4> QED
        BY <4>1, <4>2
    <3> QED
      BY <1>3, <3>1, <3>2
  <2>3. Members' = Members
    BY <2>2 DEF Members
  <2>4. Linked'
    BY <1>1, <2>1, <2>3, MembersFinite, RingStays
  <2>5. CreateOK'
    BY <1>1, <2>1 DEF CreateOK
  <2> QED
    BY <1>1, <2>4, <2>5 DEF RingInv
<1>4. CASE Return \/ NoFrame \/ StopMachine \/ DoubleFault \/ UNCHANGED vars
  <2>1. UNCHANGED <<next, state, creating, child>> /\ \A p \in Procs : pc'[p] = "create" => pc[p] = "create"
    BY <1>2, <1>4 DEF Return, NoFrame, StopMachine, DoubleFault, vars, procVars, forkVars
  <2>2. Linked'
    BY <1>1, <2>1, MembersFinite, RingStays DEF Members
  <2>3. CreateOK'
    BY <1>1, <2>1 DEF CreateOK
  <2> QED
    BY <1>1, <2>2, <2>3 DEF RingInv
<1>5. CASE \E c \in Tasks : Fork(c)
  <2>1. PICK c \in Tasks : Fork(c)
    BY <1>5
  <2>2. /\ UNCHANGED <<next, state, creating>> /\ pc' = [pc EXCEPT ![current] = "wait"]
        /\ child' = [child EXCEPT ![current] = c]
    BY <2>1 DEF Fork, procVars
  <2>3. Linked'
    BY <1>1, <2>2, MembersFinite, RingStays DEF Members
  <2>4. CreateOK'
    BY <1>1, <1>2, <2>2 DEF CreateOK
  <2> QED
    BY <1>1, <2>3, <2>4 DEF RingInv
<1>6. CASE BeginCreate
  <2> DEFINE c == child[current]
  <2>1. /\ ~creating /\ creating' = TRUE /\ pc[current] = "wait" /\ state' = state /\ child' = child
        /\ next' = [next EXCEPT ![c] = next[Main]] /\ pc' = [pc EXCEPT ![current] = "create"]
    BY <1>6 DEF BeginCreate
  <2>2. c \in Procs /\ state[c] = "none" /\ c # Main
    BY <1>1, <1>2, <2>1 DEF TaskInv, ChildOK, KernelOK, Creating
  <2> HIDE DEF c
  <2>3. Linked'
    <3>1. \A p \in Members : next'[p] = next[p]
      BY <1>2, <2>1, <2>2 DEF Members
    <3> QED
      BY <1>1, <2>1, <3>1, MembersFinite, RingStays DEF Members
  <2>4. \A p \in Procs : pc'[p] = "create" => p = current
    BY <1>1, <1>2, <2>1 DEF CreateOK
  <2>5. next'[c] = next'[Main]
    BY <1>2, <2>1, <2>2
  <2>6. CreateOK'
    BY <2>1, <2>4, <2>5 DEF CreateOK, c
  <2> QED
    BY <1>1, <2>3, <2>6 DEF RingInv
<1>7. CASE EndCreate
  <2>1. Linked'
    BY <1>7, RingGrows
  <2>2. \A p \in Procs : pc'[p] # "create"
    BY <1>1, <1>2, <1>7 DEF EndCreate, CreateOK
  <2>3. CreateOK'
    BY <2>2 DEF CreateOK
  <2> QED
    BY <1>1, <2>1, <2>3 DEF RingInv
<1> QED
  BY <1>3, <1>4, <1>5, <1>6, <1>7 DEF Next


LEMMA RingAlways == Spec => []RingInv
<1> QED
  BY InitRing, RingStep, PTL DEF Spec

\* The pointers followed from main_proc, as far as one likes.
Follows(w) == w \in [Nat -> Procs] /\ w[0] = Main /\ \A k \in Nat : w[k + 1] = next[w[k]]

LEMMA RingFollows ==
  ASSUME NEW w, Follows(w), Cardinality(Procs) \in Nat
  PROVE  \A k \in 0 .. Cardinality(Procs) : Ring[k] = w[k]
<1> PICK N : N = Cardinality(Procs)
  OBVIOUS
<1> DEFINE Along(f) == f = [k \in 0 .. N |-> IF k = 0 THEN Main ELSE next[f[k - 1]]]
           g == [k \in 0 .. N |-> w[k]]
<1>1. Ring = CHOOSE f : Along(f)
  BY DEF Ring
<1>2. Along(g)
  <2>1. \A k \in 0 .. N : g[k] = IF k = 0 THEN Main ELSE next[g[k - 1]]
    <3> SUFFICES ASSUME NEW k \in 0 .. N PROVE g[k] = IF k = 0 THEN Main ELSE next[g[k - 1]]
      OBVIOUS
    <3>1. CASE k = 0
      BY <3>1 DEF Follows
    <3>2. CASE k # 0
      <4>1. k - 1 \in Nat /\ k - 1 \in 0 .. N /\ (k - 1) + 1 = k
        BY <3>2
      <4>2. w[k] = next[w[k - 1]]
        BY <4>1 DEF Follows
      <4> QED
        BY <3>2, <4>1, <4>2
    <3> QED
      BY <3>1, <3>2
  <2> QED
    BY <2>1
<1> HIDE DEF Along
<1>3. Along(CHOOSE f : Along(f))
  <2> HIDE DEF g
  <2> QED
    BY <1>2
<1>4. Along(Ring)
  BY <1>1, <1>3
<1>5. Ring = [k \in 0 .. N |-> IF k = 0 THEN Main ELSE next[Ring[k - 1]]]
  BY <1>4 DEF Along
<1>6. \A k \in 0 .. N : Ring[k] = IF k = 0 THEN Main ELSE next[Ring[k - 1]]
  <2> PICK f : f = Ring
    OBVIOUS
  <2>1. f = [k \in 0 .. N |-> IF k = 0 THEN Main ELSE next[f[k - 1]]]
    BY <1>5
  <2>2. \A k \in 0 .. N : f[k] = IF k = 0 THEN Main ELSE next[f[k - 1]]
    BY <2>1
  <2> QED
    BY <2>2
<1> DEFINE K == {k \in Nat : k <= N => Ring[k] = w[k]}
<1>7. 0 \in K
  BY <1>6 DEF Follows
<1>8. ASSUME NEW k \in K PROVE k + 1 \in K
  <2> SUFFICES ASSUME k + 1 <= N PROVE Ring[k + 1] = w[k + 1]
    OBVIOUS
  <2>1. k + 1 \in 0 .. N /\ k + 1 # 0 /\ (k + 1) - 1 = k /\ k <= N /\ k \in Nat
    OBVIOUS
  <2> QED
    BY <1>6, <2>1 DEF Follows
<1>9. K \subseteq Nat
  OBVIOUS
<1> HIDE DEF K
<1>10. K = Nat
  BY <1>7, <1>8, <1>9, Successors
<1>11. ASSUME NEW k \in 0 .. N PROVE Ring[k] = w[k]
  <2>1. k \in K /\ k <= N
    BY <1>10
  <2> QED
    BY <2>1 DEF K
<1> QED
  BY <1>11

\* The loop of switch_task goes on from wherever the current task stands.
LEMMA WalkFollows ==
  ASSUME NEW w, Follows(w), Cardinality(Procs) \in Nat, NEW i \in Nat, w[i] = current
  PROVE  /\ \A k \in 1 .. Cardinality(Procs) : Walk[k] = w[i + k]
         /\ DOMAIN Walk = 1 .. Cardinality(Procs)
<1> PICK N : N = Cardinality(Procs)
  OBVIOUS
<1> DEFINE Along(f) == f = [k \in 1 .. N |-> IF k = 1 THEN next[current] ELSE next[f[k - 1]]]
           g == [k \in 1 .. N |-> w[i + k]]
<1>1. Walk = CHOOSE f : Along(f)
  BY DEF Walk
<1>2. Along(g)
  <2>1. \A k \in 1 .. N : g[k] = IF k = 1 THEN next[current] ELSE next[g[k - 1]]
    <3> SUFFICES ASSUME NEW k \in 1 .. N PROVE g[k] = IF k = 1 THEN next[current] ELSE next[g[k - 1]]
      OBVIOUS
    <3>1. w[i + k] = next[w[i + (k - 1)]]
      <4>1. i + (k - 1) \in Nat /\ (i + (k - 1)) + 1 = i + k
        OBVIOUS
      <4> QED
        BY <4>1 DEF Follows
    <3>2. CASE k = 1
      BY <3>1, <3>2
    <3>3. CASE k # 1
      <4>1. k - 1 \in 1 .. N
        BY <3>3
      <4> QED
        BY <3>1, <3>3, <4>1
    <3> QED
      BY <3>2, <3>3
  <2> QED
    BY <2>1
<1> HIDE DEF Along
<1>3. Along(CHOOSE f : Along(f))
  <2> HIDE DEF g
  <2> QED
    BY <1>2
<1>4. Along(Walk)
  BY <1>1, <1>3
<1>5. Walk = [k \in 1 .. N |-> IF k = 1 THEN next[current] ELSE next[Walk[k - 1]]]
  BY <1>4 DEF Along
<1>6. /\ \A k \in 1 .. N : Walk[k] = IF k = 1 THEN next[current] ELSE next[Walk[k - 1]]
      /\ DOMAIN Walk = 1 .. N
  <2> PICK f : f = Walk
    OBVIOUS
  <2>1. f = [k \in 1 .. N |-> IF k = 1 THEN next[current] ELSE next[f[k - 1]]]
    BY <1>5
  <2>2. DOMAIN f = 1 .. N /\ \A k \in 1 .. N : f[k] = IF k = 1 THEN next[current] ELSE next[f[k - 1]]
    BY <2>1
  <2> QED
    BY <2>2
<1> DEFINE K == {k \in Nat : k >= 1 /\ k <= N => Walk[k] = w[i + k]}
<1>7. 0 \in K
  OBVIOUS
<1>8. ASSUME NEW k \in K PROVE k + 1 \in K
  <2> SUFFICES ASSUME k + 1 <= N PROVE Walk[k + 1] = w[i + (k + 1)]
    OBVIOUS
  <2>1. k + 1 \in 1 .. N /\ (k + 1) - 1 = k /\ k <= N /\ k \in Nat /\ i + k \in Nat /\ (i + k) + 1 = i + (k + 1)
    OBVIOUS
  <2>2. w[i + (k + 1)] = next[w[i + k]]
    BY <2>1 DEF Follows
  <2>3. CASE k = 0
    BY <1>6, <2>1, <2>2, <2>3
  <2>4. CASE k # 0
    <3>1. Walk[k] = w[i + k] /\ k + 1 # 1
      BY <2>1, <2>4
    <3> QED
      BY <1>6, <2>1, <2>2, <3>1
  <2> QED
    BY <2>3, <2>4
<1>9. K \subseteq Nat
  OBVIOUS
<1> HIDE DEF K
<1>10. K = Nat
  BY <1>7, <1>8, <1>9, Successors
<1>11. ASSUME NEW k \in 1 .. N PROVE Walk[k] = w[i + k]
  <2>1. k \in K /\ k >= 1 /\ k <= N
    BY <1>10
  <2> QED
    BY <2>1 DEF K
<1> QED
  BY <1>6, <1>11

\* What the ring enumerates is what following the pointers passes.
LEMMA FollowsRing ==
  ASSUME NEW w, Follows(w), NEW r, NEW n \in Nat, n >= 1, Enumerates(r, n)
  PROVE  /\ w[n] = Main /\ {w[k] : k \in 0 .. (n - 1)} = Members
         /\ \A p \in Members : \E k \in 0 .. (n - 1) : w[k] = p
<1>1. /\ r \in [0 .. n -> Members] /\ r[0] = Main /\ r[n] = Main
      /\ \A k \in 0 .. (n - 1) : r[k + 1] = next[r[k]]
      /\ \A p \in Members : \E k \in 0 .. (n - 1) : r[k] = p
  BY DEF Enumerates
<1> DEFINE K == {k \in Nat : k <= n => w[k] = r[k]}
<1>2. 0 \in K
  BY <1>1 DEF Follows
<1>3. ASSUME NEW k \in K PROVE k + 1 \in K
  <2> SUFFICES ASSUME k + 1 <= n PROVE w[k + 1] = r[k + 1]
    OBVIOUS
  <2>1. k \in 0 .. (n - 1) /\ k \in Nat /\ w[k] = r[k]
    OBVIOUS
  <2>2. w[k + 1] = next[w[k]]
    BY <2>1 DEF Follows
  <2> QED
    BY <1>1, <2>1, <2>2
<1>4. K \subseteq Nat
  OBVIOUS
<1> HIDE DEF K
<1>5. K = Nat
  BY <1>2, <1>3, <1>4, Successors
<1>6. ASSUME NEW k \in 0 .. n PROVE w[k] = r[k]
  <2>1. k \in K /\ k <= n
    BY <1>5
  <2> QED
    BY <2>1 DEF K
<1>7. n \in 0 .. n /\ \A k \in 0 .. (n - 1) : k \in 0 .. n
  OBVIOUS
<1>8. \A k \in 0 .. (n - 1) : w[k] = r[k] /\ r[k] \in Members
  BY <1>1, <1>6, <1>7
<1>9. \A p \in Members : \E k \in 0 .. (n - 1) : w[k] = p
  BY <1>1, <1>8
<1>10. {w[k] : k \in 0 .. (n - 1)} = Members
  BY <1>8, <1>9
<1>11. w[n] = Main
  BY <1>1, <1>6, <1>7
<1> QED
  BY <1>9, <1>10, <1>11

\* Following next from main_proc passes every task that was created, once around,
\* and the search of switch_task finds a task to run, also when the current one
\* has just quit: for any number of tasks and any order of forks, yields and kills.
THEOREM RingUnbroken == Spec => []RingOK
<1>1. RingInv => RingOK
  <2> SUFFICES ASSUME RingInv PROVE RingOK
    OBVIOUS
  <2>1. /\ TaskInv /\ Main \in Procs /\ next \in [Procs -> Procs]
        /\ state \in [Procs -> {"none", "idle", "running", "exit"}]
    BY DEF RingInv, TaskInv, TypeOK, Procs
  <2>2. PICK w : Follows(w)
    <3>1. PICK v : v \in Orbits(Procs, next, Main)
      BY <2>1, Iterates
    <3>2. Follows(v)
      BY <3>1 DEF Follows, Orbits
    <3> QED
      BY <3>2
  <2> PICK n : n = Cardinality(Members)
    OBVIOUS
  <2>3. /\ n \in Nat /\ n >= 1 /\ Cardinality(Procs) \in Nat /\ n <= Cardinality(Procs)
        /\ Main \in Members /\ current \in Members
    BY <2>1, MembersFinite
  <2>4. PICK r : Enumerates(r, n)
    BY DEF RingInv, Linked
  <2>5. /\ w[n] = Main /\ {w[k] : k \in 0 .. (n - 1)} = Members
        /\ \A p \in Members : \E k \in 0 .. (n - 1) : w[k] = p
    BY <2>2, <2>3, <2>4, FollowsRing
  <2>6. \A k \in 0 .. Cardinality(Procs) : Ring[k] = w[k]
    BY <2>2, <2>3, RingFollows
  <2>7. Ring[n] = Main /\ {Ring[k] : k \in 0 .. (n - 1)} = Members
    <3>1. n \in 0 .. Cardinality(Procs) /\ \A k \in 0 .. (n - 1) : k \in 0 .. Cardinality(Procs)
      BY <2>3
    <3> QED
      BY <2>5, <2>6, <3>1
  <2>8. PICK i \in 0 .. (n - 1) : w[i] = current
    BY <2>3, <2>5
  <2>9. \A k \in 1 .. Cardinality(Procs) : Walk[k] = w[i + k]
    BY <2>2, <2>3, <2>8, WalkFollows
  <2>10. DOMAIN Walk = 1 .. Cardinality(Procs)
    BY <2>2, <2>3, <2>8, WalkFollows
  <2>11. ASSUME NEW st, Runnable(st, Main) PROVE \E p \in Procs : StopsAt(st, p)
    <3> DEFINE K == {k \in 1 .. Cardinality(Procs) : Runnable(st, Walk[k])}
    <3>1. n - i \in 1 .. Cardinality(Procs) /\ i + (n - i) = n
      BY <2>3
    <3>2. n - i \in K
      BY <2>5, <2>9, <2>11, <3>1
    <3>3. K \in SUBSET Nat /\ K # {}
      BY <2>3, <3>2
    <3>4. PICK k \in K : \A j \in K : k <= j
      BY <3>3, Least
    <3>5. k \in 1 .. Cardinality(Procs) /\ Runnable(st, Walk[k])
      BY <3>4
    <3>6. \A j \in 1 .. (k - 1) : j \in 1 .. Cardinality(Procs) /\ ~(k <= j)
      BY <2>3, <3>5
    <3>7. \A j \in 1 .. (k - 1) : ~Runnable(st, Walk[j])
      BY <3>4, <3>6
    <3>8. Walk[k] \in Procs
      BY <2>2, <2>9, <3>5 DEF Follows
    <3> HIDE DEF K
    <3>9. StopsAt(st, Walk[k])
      BY <2>10, <3>5, <3>7 DEF StopsAt
    <3> QED
      BY <3>8, <3>9
  <2>12. SwitchEnds
    <3>1. Runnable(state, Main)
      BY <2>1 DEF Runnable, TaskInv, KernelOK
    <3>2. current # Main => Runnable([state EXCEPT ![current] = "exit"], Main)
      BY <2>1, <3>1 DEF Runnable
    <3> QED
      BY <2>11, <3>1, <3>2 DEF SwitchEnds
  <2> QED
    BY <2>7, <2>12 DEF RingOK
<1> QED
  BY RingAlways, <1>1, PTL
=============================================================================
