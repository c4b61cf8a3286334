------------------------------- MODULE Arena -------------------------------
(***************************************************************************)
(* What a caller of heap::malloc, heap::calloc and heap::free relies on:   *)
(* an arena of addresses that only grows at its end, and blocks in it that *)
(* never overlap, are at least as long as was asked for, and stay where    *)
(* they are until they are freed.                                          *)
(***************************************************************************)
EXTENDS Integers

CONSTANTS
    Low,            \* the first address of the arena
    Granule,        \* calloc clears whole granules
    Requests        \* the sizes callers may ask for

VARIABLES
    blocks,         \* start address -> length, of the blocks handed out
    end,            \* the arena is Low .. end - 1
    wanted          \* the size of the request being served, 0 if none

arenaVars == <<blocks, end, wanted>>

\* malloc's caller uses n bytes, calloc clears n rounded up to granules.
Needed(n) == CHOOSE m \in n .. (n + Granule - 1) : m % Granule = 0

Bytes(a, n) == a .. (a + n - 1)

ArenaInit == /\ blocks = [a \in {} |-> 0]
             /\ end \in Nat /\ end > Low
             /\ wanted = 0

Request(n) == /\ wanted = 0
              /\ wanted' = n
              /\ UNCHANGED <<blocks, end>>

\* The block handed out lies inside the arena and touches no other.
Grant(a, n) ==
    /\ wanted # 0 /\ wanted' = 0
    /\ n >= Needed(wanted)
    /\ a >= Low /\ a + n <= end
    /\ \A b \in DOMAIN blocks : a + n <= b \/ b + blocks[b] <= a
    /\ blocks' = [x \in DOMAIN blocks \cup {a} |-> IF x = a THEN n ELSE blocks[x]]
    /\ UNCHANGED end

Release(a) ==
    /\ wanted = 0
    /\ blocks' = [x \in DOMAIN blocks \ {a} |-> blocks[x]]
    /\ UNCHANGED <<end, wanted>>

Grow == /\ wanted # 0 /\ end' > end /\ UNCHANGED <<blocks, wanted>>

\* The new block is the one blocks' has and blocks has not.
SomeGrant == \E a \in DOMAIN blocks' \ DOMAIN blocks : Grant(a, blocks'[a])

ArenaNext == \/ \E n \in Requests : Request(n)
             \/ SomeGrant
             \/ \E a \in DOMAIN blocks : Release(a)
             \/ Grow

ArenaSpec == ArenaInit /\ [][ArenaNext]_arenaVars

=============================================================================
