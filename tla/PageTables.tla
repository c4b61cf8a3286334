------------------------------ MODULE PageTables ------------------------------
(***************************************************************************)
(* ptm_t::map and unmap of kernel/memory/memory.cpp, and the kernel's      *)
(* callers of map: init_paging, expand_heap, _create_task and init_acpi.   *)
(* The tables are frames of physical memory that map reads and writes      *)
(* through the page tables in use, so that a table out of their reach is a *)
(* page fault.  One action per level of the walk: a fault ends the walk    *)
(* between any two of them.                                                *)
(***************************************************************************)
EXTENDS Integers, FiniteSets, FiniteSetsExt

CONSTANTS
    Radix,          \* 512, the entries of a table
    MemFrames,      \* the frames of usable memory that are not locked at boot
    Reserved,       \* the frames of the regions that are not usable memory
    BootPages,      \* 2048, what the page tables of the boot code map
    IdentityPages,  \* 0x200, what init_paging maps
    HeapStart,      \* the first page of the heap
    HeapPages,      \* bound: the pages the heap grows to
    StackPages,     \* bound: the tasks that are created
    AcpiFrames,     \* where the firmware may have put the SDT
    Watched,        \* bound: the pages whose translation the processor caches
    UnmapPages,     \* the pages that unmap is called for
    None

ASSUME PagingSizes ==
    /\ Radix \in Nat \ {0, 1}
    /\ MemFrames \subseteq Nat \ {0} /\ Reserved \subseteq Nat /\ AcpiFrames \subseteq Nat
    /\ IsFiniteSet(MemFrames) /\ IsFiniteSet(Reserved)
    /\ IdentityPages \in Nat /\ BootPages \in Nat /\ IdentityPages <= BootPages
    /\ HeapStart \in Nat /\ HeapPages \in Nat /\ StackPages \in Nat
    /\ None \notin Nat

Pages == 0 .. (Radix * (Radix * (Radix * Radix)) - 1)
OnePageShort == 0 .. (IdentityPages - 2)        \* mutant: the loop ends a page early
Identity == 0 .. (IdentityPages - 1)
HeapArea == HeapStart .. (HeapStart + HeapPages - 1)

\* Every address is one that four levels of tables translate, and the heap, which
\* main puts at 1 << 44, lies behind all that is mapped to itself.
ASSUME Addresses ==
    /\ MemFrames \cup Reserved \cup AcpiFrames \cup Identity \cup HeapArea \subseteq Pages
    /\ Watched \cup UnmapPages \subseteq Pages
    /\ HeapArea \cap (MemFrames \cup Reserved \cup AcpiFrames \cup Identity) = {}

VARIABLES
    mem,            \* frame -> its 512 words: the frame an entry points to, or None
    free,           \* the frames that request_page may still return
    pml4,           \* the root of the tables of g_PTM
    loads,          \* how often init_paging has loaded cr3 with it: 0, 1, 2
    todo,           \* the pages that init_paging still maps to themselves
    heap_end, stacks,
    op,             \* the map under way: its page, frame, level and table
    tlb,            \* the translations the processor has cached: page -> frame, None
    halted          \* "no", "fault", "frames"

callers == <<loads, todo, heap_end, stacks>>
vars == <<mem, free, pml4, callers, op, tlb, halted>>

Idle == [level |-> 4]
Flushed == [v \in Watched |-> None]

-----------------------------------------------------------------------------
\* page_index: pdp_i, pd_i, pt_i and p_i of a page, shifted by nine bits at a time.
Block(v, level) ==
    CASE level = 3 -> v
      [] level = 2 -> v \div Radix
      [] level = 1 -> (v \div Radix) \div Radix
      [] level = 0 -> ((v \div Radix) \div Radix) \div Radix

Index(v, level) == Block(v, level) % Radix

\* init_paging takes its tables from the lowest frames; those that it maps to
\* themselves are enough for them.
Blocks(level) == {Block(v, level) : v \in Identity}
ASSUME LowFrames ==
    1 + Cardinality(Blocks(0)) + Cardinality(Blocks(1)) + Cardinality(Blocks(2))
        <= Cardinality(MemFrames \cap Identity)

\* get_paddr, get_present: the tables that the walk for page v passes.
Follow(table, i) == IF table = None THEN None ELSE mem[table][i]
Pdp(v) == Follow(pml4, Index(v, 0))
Pd(v) == Follow(Pdp(v), Index(v, 1))
Pt(v) == Follow(Pd(v), Index(v, 2))
Translate(v) == Follow(Pt(v), Index(v, 3))

\* The frame can be read and written at its own address.
Accessible(f) == IF loads = 0 THEN f < BootPages ELSE Translate(f) = f

Dirt == [i \in 0 .. (Radix - 1) |-> 0]          \* what a frame holds: present entries
NotCleared == Dirt                              \* mutant: clear_table is forgotten
Zeroed == [i \in 0 .. (Radix - 1) |-> None]     \* clear_table

Leaf == 3

Init == /\ pml4 = Min(MemFrames)
        /\ free = MemFrames \ {pml4}
        /\ mem = [f \in MemFrames \cup {0} |-> IF f = pml4 THEN Zeroed ELSE Dirt]
        /\ loads = 0
        /\ todo = Identity
        /\ heap_end = HeapStart
        /\ stacks = 0
        /\ op = Idle
        /\ tlb = Flushed
        /\ halted = "no"

-----------------------------------------------------------------------------
(* request_page, and map from its first line on.                             *)

StillFree(f) == free                            \* mutant: the frame stays free
Without(f) == free \ {f}

Begin(v, f) == op' = [level |-> 0, page |-> v, frame |-> f, table |-> pml4]

Quiet == op = Idle /\ halted = "no"
Mapping == op # Idle /\ halted = "no"

Slot == Index(op.page, op.level)
Entry == mem[op.table][Slot]
NeedsTable == op.level < Leaf /\ Entry = None

Descend ==
    /\ Mapping /\ op.level < Leaf
    /\ Accessible(op.table) /\ Entry # None
    /\ op' = [op EXCEPT !.level = @ + 1, !.table = Entry]
    /\ UNCHANGED <<mem, free, pml4, callers, tlb, halted>>

NewTable ==
    /\ Mapping /\ NeedsTable /\ free # {}
    /\ LET t == Min(free) IN
          /\ Accessible(op.table) /\ Accessible(t)
          /\ free' = Without(t)
          /\ mem' = [mem EXCEPT ![t] = Zeroed, ![op.table][Slot] = t]
          /\ op' = [op EXCEPT !.level = @ + 1, !.table = t]
    /\ UNCHANGED <<pml4, callers, tlb, halted>>

HeapStays == heap_end                           \* mutant: heap_end is not advanced
HeapNext == heap_end + 1

\* The end of map: expand_heap, the only caller for a heap page, advances heap_end
\* when map has returned.
SetLeaf ==
    /\ Mapping /\ op.level = Leaf
    /\ Accessible(op.table)
    /\ mem' = [mem EXCEPT ![op.table][Slot] = op.frame]
    /\ op' = Idle
    /\ heap_end' = IF op.page \in HeapArea THEN HeapNext ELSE heap_end
    /\ UNCHANGED <<free, pml4, loads, todo, stacks, tlb, halted>>

\* A table, or the frame that clear_table writes, is out of reach: pagef_handler
\* stops the machine, or a task that was forking is killed.
PageFault ==
    /\ Mapping
    /\ Accessible(op.table) => NeedsTable /\ free # {} /\ ~Accessible(Min(free))
    /\ free' = IF Accessible(op.table) THEN Without(Min(free)) ELSE free
    /\ op' = Idle
    /\ halted' \in IF loads = 2 THEN {"fault", "no"} ELSE {"fault"}
    /\ UNCHANGED <<mem, pml4, callers, tlb>>

\* request_page halts, called by map or by a caller of map.
OutOfFrames ==
    /\ halted = "no" /\ free = {}
    /\ IF op = Idle THEN loads = 2 ELSE NeedsTable
    /\ op' = Idle
    /\ halted' = "frames"
    /\ UNCHANGED <<mem, free, pml4, callers, tlb>>

-----------------------------------------------------------------------------
(* The callers.                                                              *)

\* init_paging: map the first pages, then the regions that are not memory.
MapIdentity ==
    /\ Quiet /\ todo # {}
    /\ Begin(Min(todo), Min(todo))
    /\ todo' = todo \ {Min(todo)}
    /\ UNCHANGED <<mem, free, pml4, loads, heap_end, stacks, tlb, halted>>

\* unlock_old_page_tables frees none of the boot code's tables: free_page returns
\* at once for a page whose bit is set.
LoadCr3 ==
    /\ Quiet /\ todo = {} /\ loads < 2
    /\ loads' = loads + 1
    /\ todo' = IF loads = 0 THEN Reserved ELSE {}
    /\ tlb' = Flushed
    /\ UNCHANGED <<mem, free, pml4, heap_end, stacks, op, halted>>

\* init_heap, expand_heap: map(heap_end, request_page()).
MapHeapPage ==
    /\ Quiet /\ loads = 2 /\ free # {} /\ heap_end < HeapStart + HeapPages
    /\ Begin(heap_end, Min(free))
    /\ free' = Without(Min(free))
    /\ UNCHANGED <<mem, pml4, callers, tlb, halted>>

\* _create_task: the page of the stack, mapped to itself.
MapStack ==
    /\ Quiet /\ loads = 2 /\ free # {} /\ stacks < StackPages
    /\ Begin(Min(free), Min(free))
    /\ free' = Without(Min(free))
    /\ stacks' = stacks + 1
    /\ UNCHANGED <<mem, pml4, loads, todo, heap_end, tlb, halted>>

\* init_acpi: if (!get_present(sdt)) map(sdt, sdt).
MapSdt(s) ==
    /\ Quiet /\ loads = 2 /\ Translate(s) = None
    /\ Begin(s, s)
    /\ UNCHANGED <<mem, free, pml4, callers, tlb, halted>>

\* unmap clears its copy of the entry, never the entry.
Unmap(v) ==
    /\ Quiet /\ loads = 2
    /\ tlb' = IF Pt(v) # None THEN Flushed ELSE tlb
    /\ UNCHANGED <<mem, free, pml4, callers, op, halted>>

\* The processor may cache what it translates; read_cr3 in map flushes nothing.
Cache(v) ==
    /\ halted = "no" /\ loads > 0
    /\ Translate(v) # None
    /\ tlb' = [tlb EXCEPT ![v] = Translate(v)]
    /\ UNCHANGED <<mem, free, pml4, callers, op, halted>>

Next == \/ Descend \/ NewTable \/ SetLeaf \/ PageFault \/ OutOfFrames
        \/ MapIdentity \/ LoadCr3 \/ MapHeapPage \/ MapStack
        \/ \E s \in AcpiFrames : MapSdt(s)
        \/ \E v \in UnmapPages : Unmap(v)
        \/ \E v \in Watched : Cache(v)

Spec == Init /\ [][Next]_vars

-----------------------------------------------------------------------------
(* Properties.                                                              *)

Words == Nat \cup {None}

TypeOK == /\ mem \in [MemFrames \cup {0} -> [0 .. (Radix - 1) -> Words]]
          /\ free \subseteq MemFrames /\ pml4 \in MemFrames
          /\ loads \in 0 .. 2
          /\ todo \subseteq Nat
          /\ heap_end \in HeapStart .. (HeapStart + HeapPages)
          /\ stacks \in 0 .. StackPages
          /\ op \in {Idle} \cup [level : 0 .. 3, page : Pages, frame : Nat, table : MemFrames]
          /\ tlb \in [Watched -> Words]
          /\ halted \in {"no", "fault", "frames"}

\* The tables of each level, from the pml4 down.
Linked(tables) == {mem[x[1]][x[2]] : x \in tables \X (0 .. (Radix - 1))} \ {None}
Pdps == Linked({pml4})
Pds == Linked(Pdps)
Pts == Linked(Pds)
Levels == <<{pml4}, Pdps, Pds, Pts>>
TableFrames == {pml4} \cup Pdps \cup Pds \cup Pts

\* The tables form a tree: no table hangs in two places, none is a frame that
\* request_page can still give away, and none is what a heap page maps to.
TreeOK ==
    /\ TypeOK
    /\ TableFrames \subseteq MemFrames \ free
    /\ \A k, l \in 1 .. 4 : k # l => Levels[k] \cap Levels[l] = {}
    /\ \A f, g \in {pml4} \cup Pdps \cup Pds :
          \A i, j \in 0 .. (Radix - 1) :
             <<f, i>> # <<g, j>> /\ mem[f][i] # None => mem[f][i] # mem[g][j]
    /\ \A v \in HeapStart .. (heap_end - 1) : Translate(v) \notin TableFrames \cup free

\* Once they are in use the tables can be reached through themselves: map
\* links no table that a later walk would fault on.  It faults only for a frame
\* behind the pages that init_paging maps: as long as no such frame was taken
\* every walk gets to its end.
TablesAccessible ==
    /\ loads > 0 => \A f \in TableFrames : Translate(f) = f
    /\ halted = "fault" => \E f \in MemFrames \ free : f >= IdentityPages

\* map flushes nothing, and need not: no caller maps a page it could have used
\* to another frame.
TlbCoherent == \A v \in Watched : tlb[v] # None => tlb[v] = Translate(v)

\* map changes the translation of its page and of no other, in its last step,
\* whatever the frames it takes for tables held before.
Space == INSTANCE AddressSpace WITH
             Frames <- Nat,
             mapping <- [v \in Pages |-> Translate(v)],
             request <- IF op = Idle THEN <<>> ELSE <<op.page, op.frame>>

ImplementsAddressSpace == Space!SpaceSpec

=============================================================================
