------------------------------ MODULE VgaSelect ------------------------------
(***************************************************************************)
(* The VGASELECT menu of kernel.cpp: run(), and the keyboard handlers move *)
(* and secret_kh, which interrupt it between any two steps and share its   *)
(* variables.  The timer interrupt ends hlt and counts for PIT::sleep.     *)
(***************************************************************************)
EXTENDS Integers

CONSTANTS
    Modes,          \* 3, the lines of the menu
    SleepTicks      \* bound: the ticks in the 3 seconds to revoke

ASSUME MenuSizes == Modes \in Nat \ {0} /\ SleepTicks \in Nat \ {0}

VARIABLES
    selection, follow, g, ok, retry, can_c,     \* the variables of the namespace
    handler,        \* main_keyboard_handler: "none", "move", "secret"
    pc, back,       \* where run() is, and where it goes on after a secret
    sel,            \* its local
    millis          \* the ticks that PIT::sleep still waits for

menu == <<selection, follow, g, ok, retry, can_c>>
menuVars == <<menu, handler, pc, back, sel, millis>>

\* init() but for what it draws: run() calls it statement by statement, with
\* interrupts between them, secret_kh in one go.
Order == <<"selection", "can_c", "g", "retry", "ok", "follow", "draw", "loop">>

\* The letters of the word and the value of follow that each of them needs.
Letters == [T |-> 0, R |-> 1, A |-> 2, N |-> 3, S |-> 4]
Keys == DOMAIN Letters \cup {"G", "Up", "Down", "Enter", "Esc"}

-----------------------------------------------------------------------------
(* The interrupt handlers.                                                   *)

NotWrapped(s) == IF s < 0 THEN Modes - 1 ELSE s         \* mutant: no % 3
Wrapped(s) == IF s < 0 THEN Modes - 1 ELSE s % Modes

Follow(k) ==
    /\ follow' = IF follow = Letters[k] THEN follow + 1 ELSE IF k = "T" THEN 1 ELSE 0
    /\ g' = (g /\ follow = Letters[k])

move(k) ==
    /\ selection' = Wrapped(IF k = "Down" THEN selection + 1
                          ELSE IF k = "Up" THEN selection - 1 ELSE selection)
    /\ ok' = (ok \/ k = "Enter")
    /\ retry' = (retry \/ (k = "Enter" /\ ok))
    /\ \/ k = "G" /\ g' = TRUE /\ follow' = 0
       \/ k \in DOMAIN Letters /\ Follow(k)
       \/ k \notin DOMAIN Letters \cup {"G"} /\ UNCHANGED <<g, follow>>
    /\ UNCHANGED <<can_c, handler>>

NotWoken == UNCHANGED can_c                             \* mutant
Woken == can_c' = TRUE

secret_kh(k) ==
    /\ k = "Esc"
    /\ selection' = 0 /\ Woken /\ g' = FALSE /\ retry' = FALSE /\ ok' = FALSE /\ follow' = 0
    /\ handler' = "move"

\* An interrupt ends hlt.
Resumed == IF pc = "hlt" THEN "wait" ELSE IF pc = "sleep_hlt" THEN "sleep" ELSE pc

Key(k) ==
    /\ pc # "done"
    /\ pc' = Resumed
    /\ \/ handler = "move" /\ move(k)
       \/ handler = "secret" /\ secret_kh(k)
       \/ /\ handler = "none" \/ (handler = "secret" /\ k # "Esc")
          /\ UNCHANGED <<menu, handler>>
    /\ UNCHANGED <<back, sel, millis>>

OneTick == IF millis > 0 THEN millis - 1 ELSE 0

Tick ==
    /\ pc # "done"
    /\ millis' = OneTick
    /\ pc' = Resumed
    /\ UNCHANGED <<menu, handler, back, sel>>

-----------------------------------------------------------------------------
(* run().                                                                    *)

Step(from, to) == pc = from /\ pc' = to
Rest == <<handler, back, sel, millis>>

SetHandler == /\ Step("start", "selection") /\ handler' = "move"
              /\ UNCHANGED <<menu, back, sel, millis>>

init == \E k \in 1 .. 7 :
    /\ Step(Order[k], Order[k + 1])
    /\ selection' = IF k = 1 THEN 0 ELSE selection
    /\ can_c' = (can_c \/ k = 2)
    /\ g' = (g /\ k # 3)
    /\ retry' = (retry /\ k # 4)
    /\ ok' = (ok /\ k # 5)
    /\ follow' = IF k = 6 THEN 0 ELSE follow
    /\ UNCHANGED Rest

\* The two secrets: print_trans if G came before the word, then the_secret.
Enter(at, found, next) ==
    /\ pc = at
    /\ IF found THEN pc' = "show" /\ back' = next /\ can_c' = FALSE
                ELSE pc' = next /\ UNCHANGED <<back, can_c>>
    /\ UNCHANGED <<selection, follow, g, ok, retry, handler, sel, millis>>

EnterTrans == Enter("loop", g /\ follow = 5, "loop2")
EnterSecret == Enter("loop2", follow = 5, "read")

\* mutant: the handler is set before the screen is drawn
ArmEarly == pc = "show" /\ pc' = (IF handler = "secret" THEN "wait" ELSE "show") /\ handler' = "secret"
Arm == Step("show", "wait") /\ handler' = "secret"
Shown == Arm /\ UNCHANGED <<menu, back, sel, millis>>

\* while (!can_c) hlt: an interrupt between the test and hlt does not end it.
AwaitSecret == /\ pc = "wait" /\ pc' = IF can_c THEN back ELSE "gap"
               /\ UNCHANGED <<menu, Rest>>
Halt == /\ Step("gap", "hlt") \/ Step("sleep_gap", "sleep_hlt")
        /\ UNCHANGED <<menu, Rest>>

ReadSelection == /\ Step("read", "paint") /\ sel' = selection
                 /\ UNCHANGED <<menu, handler, back, millis>>
Paint == Step("paint", "test") /\ UNCHANGED <<menu, Rest>>
TestOk == /\ pc = "test" /\ pc' = IF ok THEN "mode" ELSE "loop"
          /\ UNCHANGED <<menu, Rest>>

\* set_mode, and PIT::sleep(3000)
SetMode == /\ Step("mode", "sleep") /\ millis' = SleepTicks
           /\ UNCHANGED <<menu, handler, back, sel>>
Sleep == /\ pc = "sleep" /\ pc' = IF millis = 0 THEN "revoke" ELSE "sleep_gap"
         /\ UNCHANGED <<menu, Rest>>
Revoke == /\ pc = "revoke" /\ pc' = IF retry THEN Order[1] ELSE "leave"
          /\ UNCHANGED <<menu, Rest>>
Leave == /\ Step("leave", "done") /\ handler' = "none"
         /\ UNCHANGED <<menu, back, sel, millis>>

run == \/ SetHandler \/ init \/ EnterTrans \/ EnterSecret \/ Shown \/ AwaitSecret \/ Halt
       \/ ReadSelection \/ Paint \/ TestOk \/ SetMode \/ Sleep \/ Revoke \/ Leave

MenuNext == run \/ Tick \/ \E k \in Keys : Key(k)

MenuInit == /\ selection = 0 /\ follow = 0 /\ can_c = FALSE
        /\ g = FALSE /\ ok = FALSE /\ retry = FALSE
        /\ handler = "none" /\ pc = "start" /\ back = "loop" /\ sel = 0 /\ millis = 0

\* The processor runs and the timer ticks; nobody has to press a key.
MenuSpec == MenuInit /\ [][MenuNext]_menuVars /\ WF_menuVars(run) /\ WF_menuVars(Tick)

-----------------------------------------------------------------------------
(* Properties.                                                              *)

Waiting == {"wait", "gap", "hlt"}       \* for the escape key

\* No key and no moment of it takes the index of the mode out of the arrays.
MenuTypeOK == /\ selection \in 0 .. (Modes - 1) /\ sel \in 0 .. (Modes - 1)
          /\ follow \in 0 .. 5
          /\ {g, ok, retry, can_c} \subseteq BOOLEAN
          /\ handler \in {"none", "move", "secret"}
          /\ millis \in 0 .. SleepTicks

\* secret_kh draws the menu from inside the interrupt: only while run() waits
\* for it and draws nothing itself.
OneDraws == handler = "secret" => pc \in Waiting

\* Every wait of run() ends.  The escape key is never missed, not even between
\* the test and hlt: then the timer wakes run().  A confirmed choice comes to an
\* end: the menu returns, or the user revokes the choice or typed the word.
WaitsEnd == /\ (pc \in Waiting /\ handler = "move") ~> pc \notin Waiting
            /\ ok ~> (pc = "done" \/ ~ok \/ handler = "secret")

\* "Press Enter to revoke within 3 seconds": retry is set only for a choice that
\* is confirmed.  When it outlives ok, the next choice is revoked by itself.
RevokedByEnter == retry => ok
=============================================================================
