--------------------------- MODULE FrameAllocator ---------------------------
(***************************************************************************)
(* The physical page-frame allocator of kernel/memory/memory.cpp: the      *)
(* bitmap built from the firmware's memory map, the search hint            *)
(* page_bitmap_index and the three byte counters.  No function of it can   *)
(* be preempted by another user of the bitmap (tasks switch only in yield, *)
(* and no interrupt handler that returns allocates), so a call is one      *)
(* action, except the loops of the plural operations, which are one action *)
(* per page.                                                               *)
(*                                                                         *)
(* The bitmap is not the allocator's own: memory.h declares _mmap, a place *)
(* in the linker script, as a pointer, so that memory_map.bytes is what    *)
(* the memory there holds (0, nobody writes it) and the bits lie in the    *)
(* first frames, which request_page gives out like any other.  Whoever     *)
(* holds such a frame, and whoever writes through a null pointer, writes   *)
(* bits: ClearTable, HolderWrites and NullWrites.                          *)
(*                                                                         *)
(* The state the code has no name for: owners (how many callers hold a     *)
(* page that request_page or request_pages returned), halted (which        *)
(* message the kernel printed before "cli; for (;;);"), work (what is left *)
(* of the plural calls under way), phase (how far boot has come), called   *)
(* (an operation was used that the kernel itself does not call) and        *)
(* clobbered (the pages whose bit somebody else's write has changed).      *)
(***************************************************************************)
EXTENDS Integers, Sequences, FiniteSets

CONSTANTS
    Mmap,             \* the E820 entries: a sequence of [base, size, type]
    PageSize,         \* 0x1000
    Word,             \* 2^64: the counters wrap modulo Word
    total_memory,     \* what get_memory_size caches on its first call
    ZeroedBits,       \* 8 * 0x4000: the bits that memset(_mmap,0,0x4000) clears
    StartAll, EndAll, \* &_start_all and &_end_all of the linker script
    OldTables,        \* 7, the pages of the page tables built at &_end_all
    MemoryMap,        \* MEMORY_MAP, where the boot code left the E820 entries
    LowStart, LowCount, \* 0x34000 and 0x4C
    mmap_base,        \* memory_map.bytes: the address found at _mmap, 0
    NullBytes,        \* the bytes at address 0 written through null pointers
    ByteValues,       \* the bits of a byte somebody else may write
    MaxWrites,        \* bound: how often somebody else writes bits
    Addrs, Counts     \* the arguments with which the unused operations are tried

Entries == DOMAIN Mmap

EntryAssumption == Mmap \in Seq([base : Nat, size : Nat, type : Nat])

SizeAssumption == /\ PageSize \in Nat \ {0}
                  /\ total_memory \in Nat
                  /\ Word \in Nat
                  /\ PageSize < Word
                  /\ total_memory < Word
                  /\ ZeroedBits \in Nat

CallAssumption == /\ StartAll \in Nat /\ EndAll \in Nat /\ StartAll <= EndAll
                  /\ OldTables \in Nat /\ MemoryMap \in Nat
                  /\ LowStart \in Nat /\ LowCount \in Nat
                  /\ Addrs \subseteq Nat /\ Counts \subseteq Nat

BitmapAssumption == /\ mmap_base \in Nat /\ NullBytes \in Nat /\ MaxWrites \in Nat
                    /\ ByteValues \subseteq SUBSET (0 .. 7)

\* get_memory_size: regions are appended, a gap before a region counts too.
ScannedSize[k \in 0 .. Len(Mmap)] ==
    IF k = 0 THEN 0
    ELSE LET below == ScannedSize[k - 1]
             start == IF Mmap[k].base > below THEN Mmap[k].base ELSE below
         IN  start + Mmap[k].size

ASSUME Mapped == EntryAssumption
ASSUME Sizes  == SizeAssumption
ASSUME Calls  == CallAssumption
ASSUME Bits   == BitmapAssumption
\* The kernel image and what the boot code set up lie inside memory, or lock_page
\* halts the kernel before it does anything.
BootInside == /\ EndAll + OldTables * PageSize <= total_memory
              /\ MemoryMap < total_memory
              /\ LowStart + LowCount * PageSize <= total_memory

ASSUME KernelFits == BootInside
ASSUME Cached == total_memory = ScannedSize[Len(Mmap)]

-----------------------------------------------------------------------------
PageOf(addr) == addr \div PageSize          \* align_to_start(addr,0x1000)/0x1000
AddrOf(page) == page * PageSize
Pages   == total_memory \div PageSize
LimitTruncated == 8 * (Pages \div 8)       \* mutant: the last pages have no bit
Limit   == 8 * (Pages \div 8 + 1)           \* memory_map.size * 8
Indices == 0 .. Limit                       \* bitmap_t::get accepts index == size*8
ByteOf(index) == mmap_base + index \div 8   \* &bytes[index / 8]

Plus(a, b)  == IF a + b < Word THEN a + b ELSE a + b - Word
MinusSigned(a, b) == a - b                  \* mutant: a counter that goes negative
Minus(a, b) == IF a >= b THEN a - b ELSE a - b + Word

VARIABLES
    bitmap,             \* the indices whose bit is set
    page_bitmap_index,  \* where the next search starts
    free_mem, used_mem, reserved_mem,
    halted,             \* "no", or the message of the halt
    phase,              \* "convert", "boot" (old tables locked), "running"
    i, free,            \* the locals of convert_mmap_to_bmp
    work,               \* the calls of the plural operations still to finish
    owners,             \* how often each page is held by a caller
    clobbered,          \* the pages whose bit a foreign write has changed
    writes,             \* how many foreign writes there were
    called              \* an operation was called that the kernel does not call

counters == <<free_mem, used_mem, reserved_mem>>
foreign == <<clobbered, writes>>
vars == <<bitmap, page_bitmap_index, counters, halted, phase, i, free, work, owners,
          foreign, called>>

Call(op, addr, count) == [op |-> op, addr |-> addr, count |-> count]
Ops == {"lock", "free", "reserve", "unreserve", "grant"}

\* The four lock statements that end convert_mmap_to_bmp, in their order.
BootCalls == << Call("lock", EndAll, OldTables),
                Call("lock", StartAll, (EndAll - StartAll) \div PageSize),
                Call("lock", MemoryMap, 1),
                Call("lock", LowStart, LowCount) >>

Covers(call, p) == \E n \in 0 .. (call.count - 1) : p = PageOf(call.addr + n * PageSize)

\* The pages these calls lock: kernel image, boot page tables, E820 entries, boot data.
BootPages == {p \in Indices : \E k \in DOMAIN BootCalls : Covers(BootCalls[k], p)}

\* The bitmap ends below all of them: with 7 pages at address 0, as far as 896 MB.
BitmapApart == \A x \in Indices : PageOf(ByteOf(x)) \notin BootPages

ASSUME BelowBoot == BitmapApart

\* bytes[] beyond the cleared part and the local `free` hold whatever was there.
Init == /\ bitmap \in SUBSET {x \in Indices : x >= ZeroedBits}
        /\ page_bitmap_index = 0
        /\ free_mem = total_memory /\ used_mem = 0 /\ reserved_mem = 0
        /\ halted = "no"
        /\ phase = "convert"
        /\ i = 0 /\ free \in BOOLEAN
        /\ work = << >>
        /\ owners = [p \in Indices |-> 0]
        /\ clobbered = {} /\ writes = 0 /\ called = FALSE

-----------------------------------------------------------------------------
(* The single-page operations, as what they do to bitmap and counters.      *)

\* bitmap_t::set prints and returns out of bounds, and never clears a bit.
SetBit(index) == bitmap' = bitmap \cup ({index} \cap Indices)

\* mutant: lock_page forgets memory_map.set
LockPageForgetsBit(addr) ==
    \/ /\ addr >= total_memory
       /\ halted' = "lock"
       /\ UNCHANGED <<bitmap, counters>>
    \/ /\ addr < total_memory
       /\ used_mem' = Plus(used_mem, PageSize)
       /\ free_mem' = Minus(free_mem, PageSize)
       /\ UNCHANGED <<bitmap, reserved_mem, halted>>

LockPage(addr) ==
    \/ /\ addr >= total_memory
       /\ halted' = "lock"
       /\ UNCHANGED <<bitmap, counters>>
    \/ /\ addr < total_memory /\ PageOf(addr) \in bitmap
       /\ UNCHANGED <<bitmap, counters, halted>>
    \/ /\ addr < total_memory /\ PageOf(addr) \notin bitmap
       /\ SetBit(PageOf(addr))
       /\ used_mem' = Plus(used_mem, PageSize)
       /\ free_mem' = Minus(free_mem, PageSize)
       /\ UNCHANGED <<reserved_mem, halted>>

LowerHint(addr) ==
    page_bitmap_index' = IF PageOf(addr) < page_bitmap_index
                         THEN PageOf(addr) ELSE page_bitmap_index

\* mutant: the test is put right, bitmap_t::set still cannot clear the bit
FreePageHalfFixed(addr) ==
    /\ LowerHint(addr)
    /\ IF PageOf(addr) \in bitmap
       THEN /\ used_mem' = Minus(used_mem, PageSize)
            /\ free_mem' = Plus(free_mem, PageSize)
       ELSE UNCHANGED <<used_mem, free_mem>>
    /\ UNCHANGED <<bitmap, reserved_mem, halted>>

\* mutant: the page is released, the hint stays above it
FreePageLeavesHint(addr) ==
    /\ bitmap' = bitmap \ {PageOf(addr)}
    /\ UNCHANGED <<page_bitmap_index, counters, halted>>

\* mutant: only one of the two counters is given the page
FreePageOneCounter(addr) ==
    /\ LowerHint(addr)
    /\ used_mem' = Minus(used_mem, PageSize)
    /\ SetBit(PageOf(addr))
    /\ UNCHANGED <<free_mem, reserved_mem, halted>>

\* The test is the one of lock_page: a locked page is left locked.
FreePage(addr) ==
    /\ LowerHint(addr)
    /\ \/ /\ addr >= total_memory
          /\ halted' = "free"
          /\ UNCHANGED <<bitmap, counters>>
       \/ /\ addr < total_memory /\ PageOf(addr) \in bitmap
          /\ UNCHANGED <<bitmap, counters, halted>>
       \/ /\ addr < total_memory /\ PageOf(addr) \notin bitmap
          /\ SetBit(PageOf(addr))
          /\ used_mem' = Minus(used_mem, PageSize)
          /\ free_mem' = Plus(free_mem, PageSize)
          /\ UNCHANGED <<reserved_mem, halted>>

ReservePage(addr) ==
    /\ UNCHANGED <<used_mem, halted>>
    /\ \/ /\ PageOf(addr) \in bitmap
          /\ UNCHANGED <<bitmap, free_mem, reserved_mem>>
       \/ /\ PageOf(addr) \notin bitmap
          /\ SetBit(PageOf(addr))
          /\ reserved_mem' = Plus(reserved_mem, PageSize)
          /\ free_mem' = Minus(free_mem, PageSize)

UnreservePage(addr) ==
    /\ LowerHint(addr)
    /\ UNCHANGED <<used_mem, halted>>
    /\ \/ /\ PageOf(addr) \notin bitmap
          /\ UNCHANGED <<bitmap, free_mem, reserved_mem>>
       \/ /\ PageOf(addr) \in bitmap
          /\ SetBit(PageOf(addr))
          /\ reserved_mem' = Minus(reserved_mem, PageSize)
          /\ free_mem' = Plus(free_mem, PageSize)

-----------------------------------------------------------------------------
(* convert_mmap_to_bmp: one step per page, then the boot locks.             *)

InEntry(e, addr) == /\ Mmap[e].size + Mmap[e].base > addr
                    /\ addr > Mmap[e].base

\* The entry whose type the inner loop assigned last.
LastEntry(e, addr) == /\ InEntry(e, addr)
                      /\ \A f \in Entries : f > e => ~InEntry(f, addr)

\* mutant: reserve_page is given the page's number for its address
ConvertPageByIndex ==
    /\ halted = "no" /\ phase = "convert" /\ i < Pages
    /\ \/ /\ \A e \in Entries : ~InEntry(e, AddrOf(i))
          /\ free' = free
       \/ \E e \in Entries : /\ LastEntry(e, AddrOf(i))
                             /\ free' = (Mmap[e].type = 1)
    /\ IF free' THEN UNCHANGED <<bitmap, counters, halted>>
                ELSE ReservePage(i)
    /\ i' = i + 1
    /\ UNCHANGED <<page_bitmap_index, phase, work, owners, foreign>>

ConvertPage ==
    /\ halted = "no" /\ phase = "convert" /\ i < Pages
    /\ \/ /\ \A e \in Entries : ~InEntry(e, AddrOf(i))
          /\ free' = free                  \* not assigned: the stack slot's value
       \/ \E e \in Entries : /\ LastEntry(e, AddrOf(i))
                             /\ free' = (Mmap[e].type = 1)
    /\ IF free' THEN UNCHANGED <<bitmap, counters, halted>>
                ELSE ReservePage(AddrOf(i))
    /\ i' = i + 1
    /\ UNCHANGED <<page_bitmap_index, phase, work, owners, foreign>>

LockBootPages ==
    /\ halted = "no" /\ phase = "convert" /\ i = Pages
    /\ phase' = "boot"
    /\ work' = BootCalls
    /\ UNCHANGED <<bitmap, page_bitmap_index, counters, halted, i, free, owners, foreign>>

-----------------------------------------------------------------------------
(* The loops of lock_pages, free_pages, reserve_pages and unreserve_pages.   *)

Rest(call) == IF call.count <= 1 THEN Tail(work)
              ELSE << Call(call.op, call.addr + PageSize, call.count - 1) >> \o Tail(work)

Acquire(p) == owners' = [owners EXCEPT ![p] = @ + 1]
GiveUp(p)  == owners' = [q \in Indices |->
                            IF q = p /\ owners[q] > 0 THEN owners[q] - 1 ELSE owners[q]]

CallDone == /\ work # << >> /\ Head(work).count = 0
            /\ work' = Tail(work)
            /\ UNCHANGED <<bitmap, page_bitmap_index, counters, halted, owners>>

LockStep(call) ==
    /\ call.op \in {"lock", "grant"} /\ LockPage(call.addr)
    /\ IF call.op = "grant" /\ call.addr < total_memory
       THEN Acquire(PageOf(call.addr)) ELSE UNCHANGED owners
    /\ UNCHANGED page_bitmap_index

FreeStep(call) ==
    /\ call.op = "free" /\ FreePage(call.addr) /\ GiveUp(PageOf(call.addr))

ReserveStep(call) ==
    /\ call.op = "reserve" /\ ReservePage(call.addr)
    /\ UNCHANGED <<page_bitmap_index, owners>>

UnreserveStep(call) ==
    /\ call.op = "unreserve" /\ UnreservePage(call.addr) /\ UNCHANGED owners

WorkStep ==
    /\ halted = "no" /\ work # << >>
    /\ UNCHANGED <<phase, i, free, foreign>>
    /\ \/ CallDone
       \/ /\ Head(work).count > 0
          /\ \/ LockStep(Head(work))
             \/ FreeStep(Head(work))
             \/ ReserveStep(Head(work))
             \/ UnreserveStep(Head(work))
          /\ work' = IF halted' = "no" THEN Rest(Head(work)) ELSE work

-----------------------------------------------------------------------------
(* The calls.                                                               *)

Idle == halted = "no" /\ work = << >> /\ phase \in {"boot", "running"}

FirstClear(p) == /\ p \in page_bitmap_index .. (Limit - 1)
                 /\ p \notin bitmap
                 /\ \A q \in page_bitmap_index .. (p - 1) : q \in bitmap

\* request_page: the spare bits of the last byte are clear too, lock_page halts.
RequestPage ==
    /\ Idle
    /\ \/ \E p \in Indices :
             /\ FirstClear(p)
             /\ page_bitmap_index' = p
             /\ LockPage(AddrOf(p))
             /\ IF AddrOf(p) < total_memory THEN Acquire(p) ELSE UNCHANGED owners
       \/ /\ \A q \in page_bitmap_index .. (Limit - 1) : q \in bitmap
          /\ page_bitmap_index' = IF page_bitmap_index < Limit
                                  THEN Limit ELSE page_bitmap_index
          /\ halted' = "oom"
          /\ UNCHANGED <<bitmap, counters, owners>>
    /\ UNCHANGED <<phase, i, free, work, foreign>>

\* The inner loop of request_pages asks for count + 1 clear bits.
Fits(p, count) == \A d \in 0 .. count : (p + d) \notin bitmap

\* The position at which the outer loop of request_pages ends, from p.
ScanFrom(count) ==
    LET scan[p \in 0 .. (2 * Limit + count + 2)] ==
            IF p >= Limit \/ Fits(p, count) THEN p
            ELSE LET d == CHOOSE d \in 0 .. count :
                            /\ (p + d) \in bitmap
                            /\ \A c \in 0 .. (d - 1) : (p + c) \notin bitmap
                 IN  scan[p + d + 1]
    IN  scan[page_bitmap_index]

RequestPages(count) ==
    /\ Idle
    /\ \E p \in page_bitmap_index .. (2 * Limit + count + 2) :
          /\ p = ScanFrom(count)
          /\ page_bitmap_index' = p
          /\ \/ /\ p < Limit /\ Fits(p, count)
                /\ work' = << Call("grant", AddrOf(p), count) >>
                /\ UNCHANGED halted
             \/ /\ p >= Limit
                /\ halted' = "oom"
                /\ UNCHANGED work
    /\ UNCHANGED <<bitmap, counters, phase, i, free, owners, foreign>>

Start(op, addr, count) ==
    /\ Idle
    /\ work' = << Call(op, addr, count) >>
    /\ UNCHANGED <<bitmap, page_bitmap_index, counters, halted, i, free, owners, foreign>>

UnlockOldPageTables == /\ phase = "boot"
                       /\ phase' = "running"
                       /\ Start("free", EndAll, OldTables)

LockPages(addr, count)      == Start("lock", addr, count) /\ UNCHANGED phase
FreePages(addr, count)      == Start("free", addr, count) /\ UNCHANGED phase
ReservePages(addr, count)   == Start("reserve", addr, count) /\ UNCHANGED phase
UnreservePages(addr, count) == Start("unreserve", addr, count) /\ UNCHANGED phase

-----------------------------------------------------------------------------
(* What the rest of the kernel writes where the bitmap lies.                *)

BitsOfByte(byte) == {x \in Indices : ByteOf(x) = byte}
BitsOfPage(page) == {x \in Indices : PageOf(ByteOf(x)) = page}

Overwrite(bits, ones) ==
    /\ Idle /\ writes < MaxWrites /\ writes' = writes + 1
    /\ bitmap' = (bitmap \ bits) \cup (bits \cap ones)
    /\ clobbered' = clobbered \cup {x \in bits : (x \in bitmap) # (x \in ones)}
    /\ UNCHANGED <<page_bitmap_index, counters, halted, phase, i, free, work, owners>>

WriteByte(byte) == \E value \in ByteValues :
                      Overwrite(BitsOfByte(byte), {x \in Indices : x % 8 \in value})

\* The memset of the pml4 and clear_table: the caller zeroes the frame it was given.
ClearTable == \E p \in Indices : owners[p] > 0 /\ Overwrite(BitsOfPage(p), {})

\* It fills the frame: table entries, a heap segment, a task's stack.
HolderWrites == \E x \in Indices : /\ PageOf(ByteOf(x)) \in Indices
                                   /\ owners[PageOf(ByteOf(x))] > 0
                                   /\ WriteByte(ByteOf(x))

\* The copy of a node to address 0 and the prev of the segment behind the last.
NullWrites == phase = "running" /\ \E x \in Indices : /\ ByteOf(x) < NullBytes
                                                     /\ WriteByte(ByteOf(x))

-----------------------------------------------------------------------------
\* What the kernel calls: init_paging, the heap and _create_task request
\* single pages, and init_paging unlocks the boot page tables.
KernelStep == \/ ConvertPage
              \/ LockBootPages
              \/ WorkStep
              \/ RequestPage
              \/ UnlockOldPageTables
              \/ ClearTable
              \/ HolderWrites
              \/ NullWrites

\* The rest of what memory.h declares.
OtherCall == \/ \E count \in Counts : RequestPages(count)
             \/ \E addr \in Addrs, count \in Counts :
                   \/ LockPages(addr, count)
                   \/ FreePages(addr, count)
                   \/ ReservePages(addr, count)
                   \/ UnreservePages(addr, count)

KernelNext == KernelStep /\ UNCHANGED called

Next == \/ KernelNext
        \/ OtherCall /\ called' = TRUE

KernelSpec == Init /\ [][KernelNext]_vars
Spec       == Init /\ [][Next]_vars

-----------------------------------------------------------------------------
(* Properties.                                                              *)

\* Type correctness: the hint and the counters are uint64 values, the bitmap
\* is the one bitmap_t::get can address.
Typed == /\ bitmap \in SUBSET Indices
         /\ page_bitmap_index \in Nat
         /\ free_mem \in 0 .. (Word - 1)
         /\ used_mem \in 0 .. (Word - 1)
         /\ reserved_mem \in 0 .. (Word - 1)
         /\ halted \in {"no", "oom", "lock", "free"}
         /\ phase \in {"convert", "boot", "running"}
         /\ i \in 0 .. Pages /\ free \in BOOLEAN
         /\ work \in Seq([op : Ops, addr : Nat, count : Nat])
         /\ owners \in [Indices -> Nat]
         /\ clobbered \in SUBSET Indices /\ writes \in Nat
TypeOK == Typed /\ called \in BOOLEAN

\* A page that request_page or request_pages returned is never returned again
\* while its caller holds it, whatever sequence of calls of memory.h is made:
\* two page tables, stacks or heap pages share a frame only when the page's own
\* bit was changed by a foreign write into the frames where the bitmap lies.
OneOwner == \A p \in Indices : owners[p] > 1 => p \in clobbered

\* A page is taken, as far as the allocator is concerned, when its bit is set;
\* only a foreign write (memory.cpp:71) can have undone that.
TakenOrClobbered == bitmap \cup clobbered

\* Why: a held page keeps its bit (lock_page set it, no operation clears it).
HeldIsLocked == \A p \in Indices : owners[p] > 0 => p \in TakenOrClobbered

\* The three counters print_segments prints account for all of memory, modulo
\* 2^64, through any sequence of calls, the ones that unbalance them included.
Conservation == free_mem + used_mem + reserved_mem
                    \in {total_memory, total_memory + Word, total_memory + 2 * Word}

\* As long as only the kernel's calls are made: the search of request_page
\* (memory.cpp:157) starts at the hint, so it must only have passed over pages that
\* are taken, and the memory that is lost for good is the pages below it whose bits
\* a foreign write has cleared.
HintSound == ~called => \A p \in Indices : p < page_bitmap_index => p \in TakenOrClobbered

\* When the kernel's own calls make it stop in the allocator, the whole pages of
\* memory that are not taken are pages whose bit a foreign write has changed.
HaltOnlyWhenFull ==
    ~called /\ halted # "no" => \A p \in 0 .. (Pages - 1) : p \in TakenOrClobbered

\* The pages whose first byte the firmware map puts strictly inside a region
\* that is not usable (type 1) and, where regions overlap, last so.
ReservedInside == {p \in 0 .. (Pages - 1) :
                      \E e \in Entries : LastEntry(e, AddrOf(p)) /\ Mmap[e].type # 1}

\* Neither these nor the pages locked at boot are handed out, although
\* request_page knows nothing but the bitmap, until a foreign write changes the
\* page's own bit.
ProtectedNeverGranted ==
    \A p \in BootPages \cup ReservedInside : owners[p] > 0 => p \in clobbered

\* Used, free and reserved memory are what the bitmap says, as long as only the
\* calls the kernel makes are made, up to the first bit a foreign write changes.
Accounted == /\ used_mem + reserved_mem = PageSize * Cardinality(bitmap)
             /\ free_mem = total_memory - PageSize * Cardinality(bitmap)

AccountingExact == ~called /\ clobbered = {} => Accounted

\* What the comments of convert_mmap_to_bmp say of the pages it locks at the end
\* ("// Lock kernel", "// Lock MMAP", memory.cpp:86-87): nobody is given one.
\* The table that clears frame 0 unlocks them.
BootPagesKept == \A p \in BootPages : owners[p] = 0

-----------------------------------------------------------------------------
(* The parts of the inductive invariant behind OneOwner and                  *)
(* ProtectedNeverGranted.                                                    *)

\* The pages request_pages still has to lock were clear when it found them and
\* are clear still: lock_page would say nothing of one that is taken.
ClearRun(call) ==
    /\ call.addr = AddrOf(PageOf(call.addr))
    /\ \A n \in 0 .. (call.count - 1) : (PageOf(call.addr) + n) \notin bitmap

GrantSound == \A k \in DOMAIN work :
                  work[k].op = "grant" => Len(work) = 1 /\ ClearRun(work[1])

\* Once memory is converted, each page the boot code needs is locked or will be
\* before the first request.
BootLocked == phase # "convert" =>
                  \A p \in BootPages :
                      p \in TakenOrClobbered
                          \/ \E k \in DOMAIN work :
                                work[k].op = "lock" /\ Covers(work[k], p)

\* convert_mmap_to_bmp has reserved what it has passed, and nobody asks earlier.
ReservedLocked == /\ \A p \in ReservedInside : p < i => p \in TakenOrClobbered
                  /\ phase # "convert" => i = Pages
                  /\ phase = "convert" => work = << >>

FrameInv == /\ Typed /\ HeldIsLocked /\ OneOwner
            /\ GrantSound /\ BootLocked /\ ReservedLocked
            /\ ProtectedNeverGranted

=============================================================================
