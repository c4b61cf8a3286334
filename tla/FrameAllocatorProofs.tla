------------------------ MODULE FrameAllocatorProofs ------------------------
(* What the frame allocator guarantees for every memory map, page size and   *)
(* sequence of calls.                                                         *)
EXTENDS FrameAllocator, FiniteSetTheorems, TLAPS

USE DEF foreign, TakenOrClobbered

-----------------------------------------------------------------------------
(* Lemmas on addresses, pages and words.                                     *)

\* An address lies in a page, and a page's own address leads back to it.
LEMMA PageFacts ==
    /\ \A addr \in Nat : PageOf(addr) \in Nat
    /\ \A p \in Nat : AddrOf(p) \in Nat /\ PageOf(AddrOf(p)) = p
  BY Sizes DEF SizeAssumption, PageOf, AddrOf

\* Every page of memory, a partial last one included, has a bit.
LEMMA LimitFacts ==
    /\ Pages \in Nat /\ Limit \in Nat /\ Pages < Limit
    /\ Indices \subseteq Nat
    /\ \A addr \in Nat : addr < total_memory => PageOf(addr) \in 0 .. Pages
<1>1. Pages \in Nat
  BY Sizes DEF SizeAssumption, Pages
<1>2. Limit \in Nat /\ Pages < Limit
  BY <1>1 DEF Limit
<1>3. ASSUME NEW addr \in Nat, addr < total_memory
      PROVE  PageOf(addr) \in 0 .. Pages
  BY <1>3, Sizes, SMTT(30) DEF SizeAssumption, Pages, PageOf
<1> QED
  BY <1>1, <1>2, <1>3 DEF Indices

\* The counters stay 64-bit words.
LEMMA WordFacts ==
  ASSUME NEW a \in 0 .. (Word - 1), NEW b \in 0 .. (Word - 1)
  PROVE  /\ Plus(a, b) \in 0 .. (Word - 1)
         /\ Minus(a, b) \in 0 .. (Word - 1)
         /\ Plus(a, b) \in {a + b, a + b - Word}
         /\ Minus(a, b) \in {a - b, a - b + Word}
  BY Sizes DEF SizeAssumption, Plus, Minus

LEMMA WordAssumptions == /\ PageSize \in 0 .. (Word - 1)
                         /\ total_memory \in 0 .. (Word - 1)
                         /\ 0 \in 0 .. (Word - 1)
                         /\ Word \in Nat
  BY Sizes DEF SizeAssumption

-----------------------------------------------------------------------------
(* What the single-page operations do, whatever the page: bits are only ever *)
(* set, the counters stay words and their sum is kept modulo Word.           *)

MemoryTyped == /\ bitmap \in SUBSET Indices
               /\ free_mem \in 0 .. (Word - 1)
               /\ used_mem \in 0 .. (Word - 1)
               /\ reserved_mem \in 0 .. (Word - 1)
               /\ halted \in {"no", "oom", "lock", "free"}

MemoryStep == /\ MemoryTyped'
              /\ bitmap \subseteq bitmap'
              /\ Conservation => Conservation'

\* Moving a page's bytes from one counter to another keeps the sum.
LEMMA Transfer ==
  ASSUME NEW a \in 0 .. (Word - 1), NEW b \in 0 .. (Word - 1), NEW c \in 0 .. (Word - 1),
         a + b + c \in {total_memory, total_memory + Word, total_memory + 2 * Word}
  PROVE  Plus(a, PageSize) + Minus(b, PageSize) + c
            \in {total_memory, total_memory + Word, total_memory + 2 * Word}
<1> DEFINE x == Plus(a, PageSize)
           y == Minus(b, PageSize)
<1>1. /\ x \in 0 .. (Word - 1) /\ x \in {a + PageSize, a + PageSize - Word}
      /\ y \in 0 .. (Word - 1) /\ y \in {b - PageSize, b - PageSize + Word}
  BY WordFacts, WordAssumptions
<1> HIDE DEF x, y
<1>2. x + y + c \in {total_memory, total_memory + Word, total_memory + 2 * Word}
  BY <1>1, WordAssumptions
<1> QED
  BY <1>2 DEF x, y

LEMMA LockPageStep ==
  ASSUME MemoryTyped, NEW addr \in Nat, LockPage(addr)
  PROVE  MemoryStep
<1> USE DEF MemoryTyped, MemoryStep, counters
<1>1. CASE addr >= total_memory \/ PageOf(addr) \in bitmap
  BY <1>1, Sizes DEF LockPage, SizeAssumption, Conservation
<1>2. CASE addr < total_memory /\ PageOf(addr) \notin bitmap
  <2>1. /\ bitmap' = bitmap \cup ({PageOf(addr)} \cap Indices)
        /\ used_mem' = Plus(used_mem, PageSize)
        /\ free_mem' = Minus(free_mem, PageSize)
        /\ UNCHANGED <<reserved_mem, halted>>
    BY <1>2, Sizes DEF LockPage, SetBit, SizeAssumption
  <2>2. used_mem' \in 0 .. (Word - 1) /\ free_mem' \in 0 .. (Word - 1)
    BY <2>1, WordFacts, WordAssumptions
  <2>3. Conservation => Conservation'
    BY <2>1, <2>2, Transfer DEF Conservation
  <2> QED
    BY <2>1, <2>2, <2>3
<1> QED
  BY <1>1, <1>2, Sizes DEF SizeAssumption

LEMMA FreePageStep ==
  ASSUME MemoryTyped, NEW addr \in Nat, FreePage(addr)
  PROVE  MemoryStep
<1> USE DEF MemoryTyped, MemoryStep, counters
<1>1. CASE addr >= total_memory \/ PageOf(addr) \in bitmap
  BY <1>1, Sizes DEF FreePage, SizeAssumption, Conservation
<1>2. CASE addr < total_memory /\ PageOf(addr) \notin bitmap
  <2>1. /\ bitmap' = bitmap \cup ({PageOf(addr)} \cap Indices)
        /\ used_mem' = Minus(used_mem, PageSize)
        /\ free_mem' = Plus(free_mem, PageSize)
        /\ UNCHANGED <<reserved_mem, halted>>
    BY <1>2, Sizes DEF FreePage, SetBit, SizeAssumption
  <2>2. used_mem' \in 0 .. (Word - 1) /\ free_mem' \in 0 .. (Word - 1)
    BY <2>1, WordFacts, WordAssumptions
  <2>3. Conservation => Conservation'
    BY <2>1, <2>2, Transfer DEF Conservation
  <2> QED
    BY <2>1, <2>2, <2>3
<1> QED
  BY <1>1, <1>2, Sizes DEF SizeAssumption

LEMMA ReservePageStep ==
  ASSUME MemoryTyped, NEW addr \in Nat, ReservePage(addr)
  PROVE  MemoryStep
<1> USE DEF MemoryTyped, MemoryStep
<1>1. CASE PageOf(addr) \in bitmap
  BY <1>1 DEF ReservePage, Conservation
<1>2. CASE PageOf(addr) \notin bitmap
  <2>1. /\ bitmap' = bitmap \cup ({PageOf(addr)} \cap Indices)
        /\ reserved_mem' = Plus(reserved_mem, PageSize)
        /\ free_mem' = Minus(free_mem, PageSize)
        /\ UNCHANGED <<used_mem, halted>>
    BY <1>2 DEF ReservePage, SetBit
  <2>2. reserved_mem' \in 0 .. (Word - 1) /\ free_mem' \in 0 .. (Word - 1)
    BY <2>1, WordFacts, WordAssumptions
  <2>3. Conservation => Conservation'
    BY <2>1, <2>2, Transfer DEF Conservation
  <2> QED
    BY <2>1, <2>2, <2>3
<1> QED
  BY <1>1, <1>2

LEMMA UnreservePageStep ==
  ASSUME MemoryTyped, NEW addr \in Nat, UnreservePage(addr)
  PROVE  MemoryStep
<1> USE DEF MemoryTyped, MemoryStep
<1>1. CASE PageOf(addr) \notin bitmap
  BY <1>1 DEF UnreservePage, Conservation
<1>2. CASE PageOf(addr) \in bitmap
  <2>1. /\ bitmap' = bitmap \cup ({PageOf(addr)} \cap Indices)
        /\ reserved_mem' = Minus(reserved_mem, PageSize)
        /\ free_mem' = Plus(free_mem, PageSize)
        /\ UNCHANGED <<used_mem, halted>>
    BY <1>2 DEF UnreservePage, SetBit
  <2>2. reserved_mem' \in 0 .. (Word - 1) /\ free_mem' \in 0 .. (Word - 1)
    BY <2>1, WordFacts, WordAssumptions
  <2>3. Conservation => Conservation'
    BY <2>1, <2>2, Transfer DEF Conservation
  <2> QED
    BY <2>1, <2>2, <2>3
<1> QED
  BY <1>1, <1>2

\* Both releasing operations leave the hint a natural number.
LEMMA HintStep ==
  ASSUME page_bitmap_index \in Nat, NEW addr \in Nat, LowerHint(addr)
  PROVE  page_bitmap_index' \in Nat /\ page_bitmap_index' <= page_bitmap_index
  BY PageFacts DEF LowerHint

-----------------------------------------------------------------------------
(* Type correctness.                                                         *)

CallSet == [op : Ops, addr : Nat, count : Nat]

LEMMA SingleCall ==
  ASSUME NEW call \in CallSet
  PROVE  << call >> \in Seq(CallSet)
  OBVIOUS

LEMMA HeadType ==
  ASSUME work \in Seq(CallSet), work # << >>
  PROVE  /\ Head(work).op \in Ops /\ Head(work).addr \in Nat /\ Head(work).count \in Nat
         /\ Tail(work) \in Seq(CallSet)
<1>1. Head(work) \in CallSet /\ Tail(work) \in Seq(CallSet)
  OBVIOUS
<1> QED
  BY <1>1 DEF CallSet

LEMMA RestType ==
  ASSUME work \in Seq(CallSet), work # << >>, Head(work).count > 0
  PROVE  Rest(Head(work)) \in Seq(CallSet)
<1>1. /\ Head(work) \in CallSet /\ Tail(work) \in Seq(CallSet)
  OBVIOUS
<1>2. CASE Head(work).count <= 1
  BY <1>1, <1>2 DEF Rest
<1>3. CASE ~(Head(work).count <= 1)
  <2> DEFINE next == Call(Head(work).op, Head(work).addr + PageSize, Head(work).count - 1)
  <2>1. next \in CallSet
    <3>1. PageSize \in Nat
      BY Sizes DEF SizeAssumption
    <3> PICK c \in CallSet : c = Head(work)
      BY <1>1
    <3>2. c.op = Head(work).op /\ c.addr + PageSize \in Nat /\ c.count - 1 \in Nat
      BY <1>3, <3>1 DEF CallSet
    <3> QED
      BY <3>2 DEF CallSet, Call
  <2>2. << next >> \in Seq(CallSet)
    BY <2>1
  <2> HIDE DEF next
  <2>3. << next >> \o Tail(work) \in Seq(CallSet)
    BY <2>2, <1>1
  <2> QED
    BY <2>3, <1>3 DEF Rest, next
<1> QED
  BY <1>2, <1>3

LEMMA BootCallsType == BootCalls \in Seq(CallSet)
<1>1. (EndAll - StartAll) \div PageSize \in Nat
  BY Calls, Sizes DEF CallAssumption, SizeAssumption
<1> QED
  BY <1>1, Calls DEF CallAssumption, BootCalls, CallSet, Call, Ops

\* What every action does to the memory: a MemoryStep.
LEMMA WorkStepMemory ==
  ASSUME Typed, WorkStep
  PROVE  MemoryStep
<1> DEFINE call == Head(work)
<1>0. MemoryTyped
  BY DEF Typed, MemoryTyped
<1>1. work # << >> => call.addr \in Nat
  BY HeadType DEF Typed, CallSet
<1>2. CASE CallDone
  BY <1>0, <1>2 DEF CallDone, MemoryTyped, MemoryStep, counters, Conservation
<1>3. CASE LockStep(call)
  BY <1>0, <1>1, <1>3, LockPageStep DEF WorkStep, LockStep
<1>4. CASE FreeStep(call)
  BY <1>0, <1>1, <1>4, FreePageStep DEF WorkStep, FreeStep
<1>5. CASE ReserveStep(call)
  BY <1>0, <1>1, <1>5, ReservePageStep DEF WorkStep, ReserveStep
<1>6. CASE UnreserveStep(call)
  BY <1>0, <1>1, <1>6, UnreservePageStep DEF WorkStep, UnreserveStep
<1> QED
  BY <1>2, <1>3, <1>4, <1>5, <1>6 DEF WorkStep

LEMMA ConvertPageMemory ==
  ASSUME Typed, ConvertPage
  PROVE  MemoryStep
<1>0. MemoryTyped
  BY DEF Typed, MemoryTyped
<1>1. AddrOf(i) \in Nat
  BY PageFacts DEF Typed
<1>2. CASE free'
  BY <1>0, <1>2 DEF ConvertPage, MemoryTyped, MemoryStep, counters, Conservation
<1>3. CASE ~free'
  BY <1>0, <1>1, <1>3, ReservePageStep DEF ConvertPage
<1> QED
  BY <1>2, <1>3

LEMMA RequestPageMemory ==
  ASSUME Typed, RequestPage
  PROVE  MemoryStep
<1>0. MemoryTyped
  BY DEF Typed, MemoryTyped
<1>1. ASSUME NEW p \in Indices, LockPage(AddrOf(p))
      PROVE  MemoryStep
  <2>1. AddrOf(p) \in Nat
    BY PageFacts, LimitFacts
  <2> QED
    BY <1>0, <1>1, <2>1, LockPageStep
<1>2. ASSUME halted' = "oom", UNCHANGED <<bitmap, counters>>
      PROVE  MemoryStep
  BY <1>0, <1>2 DEF MemoryTyped, MemoryStep, counters, Conservation
<1> QED
  BY <1>1, <1>2 DEF RequestPage

\* The owners stay counts.
LEMMA OwnersStep ==
  ASSUME owners \in [Indices -> Nat], NEW p, Acquire(p) \/ GiveUp(p)
  PROVE  owners' \in [Indices -> Nat]
  BY DEF Acquire, GiveUp

LEMMA InitType == Init => Typed
<1> SUFFICES ASSUME Init PROVE Typed
  OBVIOUS
<1>1. work \in Seq(CallSet)
  BY DEF Init
<1> QED
  BY <1>1, WordAssumptions, LimitFacts DEF Init, Typed, CallSet

LEMMA WorkStepType ==
  ASSUME Typed, WorkStep
  PROVE  Typed'
<1> DEFINE call == Head(work)
<1>1. MemoryTyped'
  BY WorkStepMemory DEF MemoryStep
<1>2. UNCHANGED <<phase, i, free, clobbered, writes>> /\ work # << >>
  BY DEF WorkStep
<1>3. work' \in Seq(CallSet)
  <2>1. CASE CallDone
    BY <2>1, <1>2, HeadType DEF CallDone, Typed, CallSet
  <2>2. CASE ~CallDone
    BY <2>2, <1>2, RestType DEF WorkStep, Typed, CallSet
  <2> QED
    BY <2>1, <2>2
<1>4. call.addr \in Nat
  BY <1>2, HeadType DEF Typed, CallSet
<1>5. page_bitmap_index' \in Nat /\ owners' \in [Indices -> Nat]
  <2> USE DEF Typed
  <2>1. CASE CallDone
    BY <2>1 DEF CallDone
  <2>2. CASE LockStep(call)
    BY <2>2, OwnersStep DEF LockStep
  <2>3. CASE FreeStep(call)
    BY <2>3, <1>4, HintStep, OwnersStep DEF FreeStep, FreePage
  <2>4. CASE ReserveStep(call)
    BY <2>4 DEF ReserveStep
  <2>5. CASE UnreserveStep(call)
    BY <2>5, <1>4, HintStep DEF UnreserveStep, UnreservePage
  <2> QED
    BY <2>1, <2>2, <2>3, <2>4, <2>5 DEF WorkStep
<1> QED
  BY <1>1, <1>2, <1>3, <1>5 DEF Typed, MemoryTyped, CallSet

LEMMA StartType ==
  ASSUME Typed, NEW op \in Ops, NEW addr \in Nat, NEW count \in Nat,
         Start(op, addr, count), phase' \in {"boot", "running"}
  PROVE  Typed'
<1>1. Call(op, addr, count) \in CallSet
  BY DEF Call, CallSet
<1>2. work' \in Seq(CallSet)
  BY <1>1, SingleCall DEF Start
<1> QED
  BY <1>2 DEF Start, Typed, counters, CallSet

\* Writes of somebody else: they only wait for a call to end, keep the state well
\* typed, and leave every page taken or mark it clobbered.
ForeignEffect ==
    /\ Typed' /\ Idle
    /\ UNCHANGED <<page_bitmap_index, counters, halted, phase, i, free, work, owners>>
    /\ clobbered \subseteq clobbered'
    /\ TakenOrClobbered \subseteq TakenOrClobbered'
    /\ clobbered' = {} => bitmap' = bitmap

LEMMA OverwriteStep ==
  ASSUME Typed, NEW bits \in SUBSET Indices, NEW ones, Overwrite(bits, ones)
  PROVE  ForeignEffect
<1>1. /\ Idle /\ UNCHANGED <<page_bitmap_index, counters, halted, phase, i, free, work, owners>>
      /\ bitmap' = (bitmap \ bits) \cup (bits \cap ones)
      /\ clobbered' = clobbered \cup {x \in bits : (x \in bitmap) # (x \in ones)}
      /\ writes' = writes + 1
  BY DEF Overwrite
<1>2. bitmap' \in SUBSET Indices /\ clobbered' \in SUBSET Indices
  BY <1>1 DEF Typed
<1>3. Typed'
  BY <1>1, <1>2 DEF Typed, counters
<1>4. bitmap \cup clobbered \subseteq bitmap' \cup clobbered'
  BY <1>1, Zenon
<1>5. ASSUME clobbered' = {} PROVE bitmap' = bitmap
  <2>1. \A x \in bits : (x \in bitmap) = (x \in ones)
    BY <1>1, <1>5
  <2> QED
    BY <1>1, <2>1
<1> QED
  BY <1>1, <1>3, <1>4, <1>5 DEF ForeignEffect

LEMMA ForeignStep ==
  ASSUME Typed, ClearTable \/ HolderWrites \/ NullWrites
  PROVE  ForeignEffect
<1>1. \A page : BitsOfPage(page) \in SUBSET Indices
  BY DEF BitsOfPage
<1>2. \A byte : BitsOfByte(byte) \in SUBSET Indices
  BY DEF BitsOfByte
<1> QED
  BY <1>1, <1>2, OverwriteStep DEF ClearTable, HolderWrites, NullWrites, WriteByte

LEMMA KernelNextType == Typed /\ KernelStep => Typed'
<1> SUFFICES ASSUME Typed, KernelStep PROVE Typed'
  OBVIOUS
<1>1. CASE ConvertPage
  <2>1. MemoryTyped'
    BY <1>1, ConvertPageMemory DEF MemoryStep
  <2>2. i' \in 0 .. Pages
    BY <1>1, LimitFacts DEF ConvertPage, Typed
  <2>3. free' \in BOOLEAN
    BY <1>1 DEF ConvertPage, Typed
  <2> QED
    BY <1>1, <2>1, <2>2, <2>3 DEF ConvertPage, Typed, MemoryTyped
<1>2. CASE LockBootPages
  BY <1>2, BootCallsType DEF LockBootPages, Typed, counters, CallSet
<1>3. CASE WorkStep
  BY <1>3, WorkStepType
<1>4. CASE RequestPage
  <2>1. MemoryTyped'
    BY <1>4, RequestPageMemory DEF MemoryStep
  <2>2. page_bitmap_index' \in Nat /\ owners' \in [Indices -> Nat]
    BY <1>4, OwnersStep, LimitFacts DEF RequestPage, Typed, FirstClear
  <2> QED
    BY <1>4, <2>1, <2>2 DEF RequestPage, Typed, MemoryTyped
<1>5. CASE UnlockOldPageTables
  BY <1>5, StartType, Calls DEF UnlockOldPageTables, CallAssumption, Ops
<1>6. CASE ClearTable \/ HolderWrites \/ NullWrites
  BY <1>6, ForeignStep DEF ForeignEffect
<1> QED
  BY <1>1, <1>2, <1>3, <1>4, <1>5, <1>6 DEF KernelStep

\* A step of the kernel or of anybody else, whatever it says of `called`.
AnyStep == KernelStep \/ OtherCall

LEMMA NextIsStep == [Next]_vars => [AnyStep]_vars
  BY DEF Next, KernelNext, AnyStep

LEMMA NextType == Typed /\ [AnyStep]_vars => Typed'
<1> SUFFICES ASSUME Typed, [AnyStep]_vars PROVE Typed'
  OBVIOUS
<1>1. CASE KernelStep
  BY <1>1, KernelNextType
<1>2. ASSUME NEW count \in Counts, RequestPages(count)
      PROVE  Typed'
  <2>1. PICK p \in page_bitmap_index .. (2 * Limit + count + 2) :
           /\ page_bitmap_index' = p
           /\ \/ work' = << Call("grant", AddrOf(p), count) >> /\ UNCHANGED halted
              \/ halted' = "oom" /\ UNCHANGED work
    BY <1>2 DEF RequestPages
  <2>a. count \in Nat /\ page_bitmap_index \in Nat
    BY Calls DEF Typed, CallAssumption
  <2>b. p \in Nat
    BY <2>a, LimitFacts
  <2>2. p \in Nat /\ count \in Nat /\ AddrOf(p) \in Nat
    BY <2>a, <2>b, PageFacts
  <2>3. Call("grant", AddrOf(p), count) \in CallSet
    BY <2>2 DEF Call, CallSet, Ops
  <2>4. work \in Seq(CallSet) /\ << Call("grant", AddrOf(p), count) >> \in Seq(CallSet)
    BY <2>3, SingleCall DEF Typed, CallSet
  <2>5. work' \in Seq(CallSet)
    BY <2>1, <2>4, Zenon
  <2> QED
    BY <1>2, <2>1, <2>2, <2>5 DEF RequestPages, Typed, counters, CallSet
<1>3. ASSUME NEW addr \in Addrs, NEW count \in Counts,
             \/ LockPages(addr, count) \/ FreePages(addr, count)
             \/ ReservePages(addr, count) \/ UnreservePages(addr, count)
      PROVE  Typed'
  BY <1>3, StartType, Calls
     DEF LockPages, FreePages, ReservePages, UnreservePages, Start, Idle,
         CallAssumption, Ops
<1>4. CASE UNCHANGED vars
  BY <1>4 DEF vars, counters, Typed
<1> QED
  BY <1>1, <1>2, <1>3, <1>4 DEF AnyStep, OtherCall

\* The state of the allocator is well typed through every sequence of the calls
\* memory.h declares: indices inside the bitmap, counters that are 64-bit words.
THEOREM TypeCorrect == Spec => []TypeOK
<1>1. Init => TypeOK
  BY InitType DEF Init, TypeOK
<1>2. TypeOK /\ [Next]_vars => TypeOK'
  BY NextType, NextIsStep DEF TypeOK, Next, KernelNext, vars
<1> QED
  BY <1>1, <1>2, PTL DEF Spec

-----------------------------------------------------------------------------
(* No page has two owners.                                                   *)

\* What one step of a plural operation leaves to do.
LEMMA RestElements ==
  ASSUME work \in Seq(CallSet), work # << >>, Head(work).count > 0
  PROVE  LET rest == Rest(Head(work)) IN
         \/ /\ Head(work).count <= 1
            /\ rest = Tail(work)
            /\ Len(rest) = Len(work) - 1
            /\ \A k \in DOMAIN rest : k + 1 \in DOMAIN work /\ rest[k] = work[k + 1]
         \/ /\ Head(work).count > 1
            /\ Len(rest) = Len(work) /\ DOMAIN rest = DOMAIN work
            /\ rest[1] = Call(work[1].op, work[1].addr + PageSize, work[1].count - 1)
            /\ \A k \in DOMAIN rest : k # 1 => rest[k] = work[k]
<1>1. CASE Head(work).count <= 1
  BY <1>1 DEF Rest
<1>2. CASE ~(Head(work).count <= 1)
  <2> DEFINE next == Call(Head(work).op, Head(work).addr + PageSize, Head(work).count - 1)
  <2>1. Rest(Head(work)) = << next >> \o Tail(work)
    BY <1>2 DEF Rest
  <2>2. Head(work).count > 1 /\ Head(work) = work[1]
    BY <1>2, HeadType
  <2> HIDE DEF next
  <2>3. LET rest == << next >> \o Tail(work) IN
        /\ Len(rest) = Len(work) /\ DOMAIN rest = DOMAIN work
        /\ rest[1] = next
        /\ \A k \in DOMAIN rest : k # 1 => rest[k] = work[k]
    OBVIOUS
  <2> QED
    BY <2>1, <2>2, <2>3 DEF next
<1> QED
  BY <1>1, <1>2

\* The page after the one at p's address is page p + 1.
LEMMA NextPage ==
  ASSUME NEW addr \in Nat, addr = AddrOf(PageOf(addr))
  PROVE  /\ PageOf(addr + PageSize) = PageOf(addr) + 1
         /\ addr + PageSize = AddrOf(PageOf(addr) + 1)
<1>1. PageOf(addr) \in Nat /\ PageSize \in Nat
  BY PageFacts, Sizes DEF SizeAssumption
<1>2. addr + PageSize = AddrOf(PageOf(addr) + 1)
  BY <1>1 DEF AddrOf
<1>3. PageOf(AddrOf(PageOf(addr) + 1)) = PageOf(addr) + 1
  BY <1>1, PageFacts
<1> QED
  BY <1>2, <1>3

\* Between boot and the next plural lock, every page that must not be handed
\* out has its bit set, unless somebody else's write has changed it.
LEMMA ProtectedLocked ==
  ASSUME FrameInv, phase # "convert", work = << >> \/ Head(work).op = "grant"
  PROVE  \A p \in BootPages \cup ReservedInside : p \in TakenOrClobbered
<1>1. ASSUME NEW p \in ReservedInside
      PROVE  p \in TakenOrClobbered
  BY <1>1, LimitFacts DEF FrameInv, ReservedLocked, ReservedInside
<1>2. ASSUME NEW p \in BootPages, NEW k \in DOMAIN work, work[k].op = "lock"
      PROVE  FALSE
  <2>1. work \in Seq(CallSet) /\ work # << >>
    BY <1>2 DEF FrameInv, Typed, CallSet
  <2>2. work[1].op = "grant" /\ 1 \in DOMAIN work
    BY <2>1
  <2>3. Len(work) = 1
    BY <2>2 DEF FrameInv, GrantSound
  <2> QED
    BY <1>2, <2>1, <2>2, <2>3
<1> QED
  BY <1>1, <1>2 DEF FrameInv, BootLocked

\* A step of lock_pages: the page ends up locked, or the kernel halts with
\* nothing changed.
LEMMA LockStepEffect ==
  ASSUME FrameInv, WorkStep, LockStep(Head(work))
  PROVE  LET q == PageOf(Head(work).addr) IN
         \/ /\ Head(work).addr < total_memory
            /\ q \in Indices /\ q \in bitmap'
            /\ bitmap' = bitmap \cup {q}
            /\ halted' = "no"
         \/ /\ Head(work).addr >= total_memory
            /\ halted' # "no"
            /\ UNCHANGED <<bitmap, owners>>
<1> DEFINE q == PageOf(Head(work).addr)
<1>1. Head(work).addr \in Nat /\ halted = "no" /\ total_memory \in Nat
  BY HeadType, Sizes DEF WorkStep, FrameInv, Typed, CallSet, SizeAssumption
<1>2. CASE Head(work).addr < total_memory
  <2>1. q \in Indices
    BY <1>1, <1>2, LimitFacts DEF Indices
  <2> QED
    BY <1>1, <1>2, <2>1 DEF LockStep, LockPage, SetBit
<1>3. CASE Head(work).addr >= total_memory
  BY <1>1, <1>3 DEF LockStep, LockPage
<1> QED
  BY <1>1, <1>2, <1>3

\* The page a grant step hands out was clear: unless its bit was changed by
\* somebody else, nobody holds it and it is not one of the kernel's.
LEMMA GrantStepEffect ==
  ASSUME FrameInv, WorkStep, Head(work).op = "grant", Head(work).count > 0
  PROVE  LET q == PageOf(Head(work).addr) IN
         /\ q \notin bitmap
         /\ q \in Indices => owners[q] = 0 \/ q \in clobbered
         /\ q \notin BootPages \cup ReservedInside \/ q \in clobbered
<1> DEFINE q == PageOf(Head(work).addr)
<1>1. work \in Seq(CallSet) /\ work # << >>
  BY DEF WorkStep, FrameInv, Typed, CallSet
<1>2. 1 \in DOMAIN work /\ work[1] = Head(work)
  BY <1>1
<1>3. ClearRun(Head(work))
  BY <1>2 DEF FrameInv, GrantSound
<1>4. q \in Nat /\ Head(work).count \in Nat
  BY <1>1, HeadType, PageFacts
<1>5. q \notin bitmap
  <2>1. 0 \in 0 .. (Head(work).count - 1) /\ q + 0 = q
    BY <1>4
  <2> QED
    BY <1>3, <2>1 DEF ClearRun
<1>6. q \in Indices => owners[q] = 0 \/ q \in clobbered
  BY <1>5 DEF FrameInv, HeldIsLocked, Typed
<1>7. phase # "convert"
  BY <1>1 DEF FrameInv, ReservedLocked
<1> QED
  BY <1>5, <1>6, <1>7, ProtectedLocked

LEMMA WorkStepOwners ==
  ASSUME FrameInv, WorkStep
  PROVE  HeldIsLocked' /\ OneOwner' /\ ProtectedNeverGranted'
<1> DEFINE q == PageOf(Head(work).addr)
<1>0. bitmap \subseteq bitmap' /\ Typed /\ clobbered' = clobbered
  BY WorkStepMemory DEF FrameInv, MemoryStep, WorkStep
<1> USE DEF HeldIsLocked, OneOwner, ProtectedNeverGranted, FrameInv
<1>1. CASE UNCHANGED owners
  BY <1>0, <1>1 DEF BootPages, ReservedInside
<1>2. CASE FreeStep(Head(work))
  <2>1. \A p \in Indices : owners'[p] <= owners[p] /\ owners[p] \in Nat /\ owners'[p] \in Nat
    BY <1>0, <1>2 DEF FreeStep, GiveUp, Typed
  <2>2. \A p \in BootPages \cup ReservedInside : p \in Indices
    BY LimitFacts DEF BootPages, ReservedInside, Indices
  <2> QED
    BY <1>0, <2>1, <2>2 DEF BootPages, ReservedInside
<1>3. CASE LockStep(Head(work)) /\ Acquire(q) /\ Head(work).addr < total_memory
           /\ Head(work).op = "grant" /\ Head(work).count > 0
  <2>1. /\ q \notin bitmap
        /\ q \notin BootPages \cup ReservedInside \/ q \in clobbered
        /\ q \in Indices /\ q \in bitmap'
        /\ owners[q] = 0 \/ q \in clobbered
    BY <1>3, GrantStepEffect, LockStepEffect, HeadType, Sizes
       DEF Typed, WorkStep, SizeAssumption, CallSet
  <2>2. /\ owners[q] \in Nat /\ owners'[q] = owners[q] + 1
        /\ \A p \in Indices : p # q => owners'[p] = owners[p]
    BY <1>0, <1>3, <2>1 DEF Acquire, Typed
  <2>3. OneOwner'
    BY <1>0, <2>1, <2>2
  <2>4. HeldIsLocked'
    BY <1>0, <2>1, <2>2
  <2>5. \A p \in BootPages \cup ReservedInside : p \in Indices
    BY LimitFacts DEF BootPages, ReservedInside, Indices
  <2>6. ProtectedNeverGranted'
    <3>1. \A p \in BootPages \cup ReservedInside : owners'[p] > 0 => p \in clobbered'
      BY <1>0, <2>1, <2>2, <2>5
    <3> QED
      BY <3>1 DEF BootPages, ReservedInside
  <2> QED
    BY <2>3, <2>4, <2>6
<1> QED
  BY <1>1, <1>2, <1>3
     DEF WorkStep, CallDone, LockStep, ReserveStep, UnreserveStep

LEMMA WorkStepGrants ==
  ASSUME FrameInv, WorkStep
  PROVE  GrantSound'
<1> DEFINE q == PageOf(Head(work).addr)
<1>0. work \in Seq(CallSet) /\ work # << >> /\ halted = "no"
  BY DEF WorkStep, FrameInv, Typed, CallSet
<1>1. CASE CallDone
  <2>1. /\ work' = Tail(work) /\ UNCHANGED bitmap
        /\ \A k \in DOMAIN work' : k + 1 \in DOMAIN work /\ work'[k] = work[k + 1]
        /\ Len(work) # 1 \/ work' = << >>
    BY <1>0, <1>1 DEF CallDone
  <2>2. ASSUME NEW k \in DOMAIN work', work'[k].op = "grant" PROVE FALSE
    <3>1. Len(work) = 1
      BY <2>1, <2>2 DEF FrameInv, GrantSound
    <3> QED
      BY <1>0, <2>1, <2>2, <3>1
  <2> QED
    BY <2>2 DEF GrantSound
<1>2. CASE Head(work).count > 0 /\ work' = work /\ halted' # "no"
  <2>1. UNCHANGED bitmap
    BY <1>0, <1>2 DEF WorkStep, CallDone, LockStep, LockPage, FreeStep, FreePage,
                     ReserveStep, ReservePage, UnreserveStep, UnreservePage
  <2> QED
    BY <1>2, <2>1 DEF FrameInv, GrantSound, ClearRun
<1>3. CASE Head(work).count > 0 /\ work' = Rest(Head(work)) /\ halted' = "no"
  <2> SUFFICES ASSUME NEW k \in DOMAIN work', work'[k].op = "grant"
               PROVE  Len(work') = 1 /\ ClearRun(work[1])'
    BY DEF GrantSound
  <2>1. CASE Head(work).count <= 1
    <3>0. work' = Tail(work)
      BY <1>3, <2>1 DEF Rest
    <3>1. k + 1 \in DOMAIN work /\ work'[k] = work[k + 1] /\ k \in Nat /\ k >= 1
      BY <1>0, <3>0
    <3>2. Len(work) = 1
      BY <3>1 DEF FrameInv, GrantSound
    <3> QED
      BY <1>0, <3>1, <3>2
  <2>2. CASE Head(work).count > 1
    <3>1. /\ Len(work') = Len(work) /\ DOMAIN work' = DOMAIN work
          /\ work'[1] = Call(work[1].op, work[1].addr + PageSize, work[1].count - 1)
          /\ k # 1 => work'[k] = work[k]
      BY <1>0, <1>3, <2>2, RestElements, HeadType
    <3>2. k = 1 /\ Len(work) = 1 /\ work[1].op = "grant" /\ work[1] = Head(work)
          /\ ClearRun(work[1])
      BY <1>0, <3>1 DEF FrameInv, GrantSound, Call
    <3>a. Head(work).addr \in Nat /\ Head(work).count \in Nat
      BY <1>0, HeadType
    <3>3. q \in Nat /\ work[1].addr \in Nat /\ work[1].count \in Nat /\ q + 1 \in Nat
      BY <3>2, <3>a, PageFacts
    <3>4. /\ PageOf(work'[1].addr) = q + 1 /\ work'[1].addr = AddrOf(q + 1)
          /\ work'[1].count = work[1].count - 1
      BY <3>1, <3>2, <3>3, NextPage DEF ClearRun, Call
    <3>5. bitmap' \subseteq bitmap \cup {q}
      BY <1>0, <1>3, <3>2, LockStepEffect
         DEF WorkStep, CallDone, FreeStep, ReserveStep, UnreserveStep
    <3>6. \A n \in 0 .. (work'[1].count - 1) : (q + 1 + n) \notin bitmap'
      <4> SUFFICES ASSUME NEW n \in 0 .. (work'[1].count - 1) PROVE (q + 1 + n) \notin bitmap'
        OBVIOUS
      <4>1. n + 1 \in 0 .. (work[1].count - 1) /\ q + 1 + n = q + (n + 1) /\ q + 1 + n # q
        BY <3>3, <3>4
      <4> QED
        BY <3>2, <3>5, <4>1 DEF ClearRun
    <3> QED
      BY <3>1, <3>2, <3>4, <3>6 DEF ClearRun
  <2> QED
    BY <1>0, <1>3, <2>1, <2>2, HeadType
<1> QED
  BY <1>1, <1>2, <1>3 DEF WorkStep

\* A page that the plural call under way will lock is still to be locked after
\* one step of it, or is locked by that step.
LEMMA CoversNext ==
  ASSUME NEW call \in CallSet, NEW p, Covers(call, p), p # PageOf(call.addr)
  PROVE  /\ call.count > 1
         /\ Covers(Call(call.op, call.addr + PageSize, call.count - 1), p)
<1>1. PICK n \in 0 .. (call.count - 1) : p = PageOf(call.addr + n * PageSize)
  BY DEF Covers
<1>2. call.count \in Nat /\ call.addr \in Nat /\ PageSize \in Nat
  BY Sizes DEF CallSet, SizeAssumption
<1>3. n # 0
  BY <1>1, <1>2
<1>4. n - 1 \in 0 .. ((call.count - 1) - 1)
  BY <1>2, <1>3
<1>5. call.addr + n * PageSize = (call.addr + PageSize) + (n - 1) * PageSize
  BY <1>2
<1> QED
  BY <1>1, <1>2, <1>3, <1>4, <1>5 DEF Covers, Call

LEMMA WorkStepBoot ==
  ASSUME FrameInv, WorkStep
  PROVE  BootLocked'
<1>0. work \in Seq(CallSet) /\ work # << >> /\ halted = "no" /\ phase' = phase
  BY DEF WorkStep, FrameInv, Typed, CallSet
<1>1. bitmap \subseteq bitmap' /\ clobbered' = clobbered
  BY WorkStepMemory DEF FrameInv, MemoryStep, WorkStep
<1>2. BootPages' = BootPages
  BY DEF BootPages
<1> SUFFICES ASSUME phase # "convert", NEW p \in BootPages, p \notin TakenOrClobbered,
                    NEW k \in DOMAIN work, work[k].op = "lock", Covers(work[k], p)
             PROVE  p \in bitmap' \/ \E m \in DOMAIN work' :
                                        work'[m].op = "lock" /\ Covers(work'[m], p)
  BY <1>0, <1>1, <1>2 DEF BootLocked, FrameInv, Covers
<1>3. work[k] \in CallSet /\ k \in Nat /\ k >= 1
  BY <1>0
<1>4. work[k].count > 0 /\ work[k].count \in Nat
  BY <1>3 DEF Covers, CallSet
<1>5. CASE CallDone
  <2>1. k # 1
    BY <1>0, <1>4, <1>5 DEF CallDone
  <2>2. k - 1 \in DOMAIN work' /\ work'[k - 1] = work[k]
    BY <1>0, <1>3, <1>5, <2>1 DEF CallDone
  <2> QED
    BY <2>2
<1>6. CASE work' = work
  BY <1>6
<1>7. CASE Head(work).count > 0 /\ work' = Rest(Head(work)) /\ halted' = "no" /\ ~CallDone
  <2>1. CASE k = 1
    <3>1. work[k] = Head(work)
      BY <1>0, <2>1
    <3>2. LockStep(Head(work)) /\ halted' = "no"
      BY <1>7, <3>1 DEF WorkStep, FreeStep, ReserveStep, UnreserveStep
    <3>3. PageOf(Head(work).addr) \in bitmap'
      BY <3>2, LockStepEffect
    <3>4. CASE p # PageOf(Head(work).addr)
      <4>1. /\ work[1].count > 1
            /\ Covers(Call(work[1].op, work[1].addr + PageSize, work[1].count - 1), p)
        BY <1>3, <2>1, <3>1, <3>4, CoversNext
      <4>2. /\ 1 \in DOMAIN work'
            /\ work'[1] = Call(work[1].op, work[1].addr + PageSize, work[1].count - 1)
        BY <1>0, <1>4, <1>7, <2>1, <3>1, <4>1, RestElements
      <4> QED
        BY <2>1, <4>1, <4>2 DEF Call
    <3> QED
      BY <3>3, <3>4
  <2>2. CASE k # 1
    <3>1. CASE Head(work).count <= 1
      <4>1. work' = Tail(work)
        BY <1>7, <3>1 DEF Rest
      <4>2. k - 1 \in DOMAIN work' /\ work'[k - 1] = work[k]
        BY <1>0, <1>3, <2>2, <4>1
      <4> QED
        BY <4>2
    <3>2. CASE Head(work).count > 1
      <4>1. k \in DOMAIN work' /\ work'[k] = work[k]
        BY <1>0, <1>7, <2>2, <3>2, RestElements, HeadType
      <4> QED
        BY <4>1
    <3> QED
      BY <1>0, <3>1, <3>2, HeadType
  <2> QED
    BY <2>1, <2>2
<1> QED
  BY <1>5, <1>6, <1>7 DEF WorkStep

LEMMA WorkStepInv == FrameInv /\ WorkStep => FrameInv'
<1> SUFFICES ASSUME FrameInv, WorkStep PROVE FrameInv'
  OBVIOUS
<1>1. ReservedLocked'
  BY WorkStepMemory
     DEF FrameInv, ReservedLocked, MemoryStep, WorkStep, ReservedInside
<1> QED
  BY <1>1, WorkStepType, WorkStepOwners, WorkStepGrants, WorkStepBoot DEF FrameInv

-----------------------------------------------------------------------------
(* The other actions keep the invariant.                                     *)

LEMMA InitInv == Init => FrameInv
<1> SUFFICES ASSUME Init PROVE FrameInv
  OBVIOUS
<1>1. \A p \in BootPages \cup ReservedInside : p \in Indices
  BY LimitFacts DEF BootPages, ReservedInside, Indices
<1>2. \A p \in ReservedInside : ~(p < 0)
  BY LimitFacts DEF ReservedInside
<1> QED
  BY <1>1, <1>2, InitType
     DEF Init, FrameInv, HeldIsLocked, OneOwner, GrantSound, BootLocked,
         ReservedLocked, ProtectedNeverGranted

LEMMA ConvertPageInv == FrameInv /\ ConvertPage => FrameInv'
<1> SUFFICES ASSUME FrameInv, ConvertPage PROVE FrameInv'
  OBVIOUS
<1>1. Typed' /\ Typed
  BY KernelNextType DEF FrameInv, KernelStep
<1>2. bitmap \subseteq bitmap'
  BY ConvertPageMemory DEF FrameInv, MemoryStep
<1>3. /\ UNCHANGED <<page_bitmap_index, phase, work, owners, clobbered>>
      /\ phase = "convert" /\ i' = i + 1 /\ i \in Nat /\ i < Pages
  BY LimitFacts DEF ConvertPage, FrameInv, Typed
<1>4. ReservedInside' = ReservedInside /\ BootPages' = BootPages
  BY DEF ReservedInside, BootPages
<1>5. i \in ReservedInside => i \in bitmap'
  <2> SUFFICES ASSUME i \in ReservedInside PROVE i \in bitmap'
    OBVIOUS
  <2>1. PICK e \in Entries : LastEntry(e, AddrOf(i)) /\ Mmap[e].type # 1
    BY DEF ReservedInside
  <2>2. \A f \in Entries : LastEntry(f, AddrOf(i)) => f = e
    BY <2>1, Mapped DEF LastEntry, Entries, EntryAssumption
  <2>3. free' = FALSE
    BY <2>1, <2>2 DEF ConvertPage, LastEntry
  <2>4. ReservePage(AddrOf(i)) /\ PageOf(AddrOf(i)) = i /\ i \in Indices
    BY <1>3, <2>3, PageFacts, LimitFacts DEF ConvertPage, Indices
  <2> QED
    BY <2>4 DEF ReservePage, SetBit
<1>6. ReservedLocked'
  <2>1. \A p \in ReservedInside : p < i + 1 => p < i \/ p = i
    BY <1>3, LimitFacts DEF ReservedInside
  <2> QED
    BY <1>2, <1>3, <1>4, <1>5, <2>1 DEF ReservedLocked, FrameInv
<1> QED
  BY <1>1, <1>2, <1>3, <1>4, <1>6
     DEF FrameInv, HeldIsLocked, OneOwner, GrantSound, BootLocked,
         ReservedLocked, ProtectedNeverGranted

LEMMA LockBootPagesInv == FrameInv /\ LockBootPages => FrameInv'
<1> SUFFICES ASSUME FrameInv, LockBootPages PROVE FrameInv'
  OBVIOUS
<1>1. Typed'
  BY KernelNextType DEF FrameInv, KernelStep
<1>2. /\ work' = BootCalls /\ phase' = "boot" /\ i = Pages
      /\ UNCHANGED <<bitmap, i, owners, clobbered>>
  BY DEF LockBootPages
<1>3. \A k \in DOMAIN BootCalls : BootCalls[k].op = "lock"
  BY DEF BootCalls, Call
<1>4. GrantSound'
  BY <1>2, <1>3 DEF GrantSound
<1>5. BootLocked'
  BY <1>2, <1>3 DEF BootLocked, BootPages, Covers
<1> QED
  BY <1>1, <1>2, <1>4, <1>5
     DEF FrameInv, HeldIsLocked, OneOwner, ReservedLocked, ProtectedNeverGranted,
         ReservedInside, BootPages

LEMMA RequestPageInv == FrameInv /\ RequestPage => FrameInv'
<1> SUFFICES ASSUME FrameInv, RequestPage PROVE FrameInv'
  OBVIOUS
<1>1. Typed' /\ Typed
  BY KernelNextType DEF FrameInv, KernelStep
<1>2. bitmap \subseteq bitmap'
  BY RequestPageMemory DEF FrameInv, MemoryStep
<1>3. /\ work = << >> /\ phase # "convert" /\ halted = "no"
      /\ UNCHANGED <<phase, i, work, clobbered>>
  BY DEF RequestPage, Idle
<1>4. \A p \in BootPages \cup ReservedInside : p \in TakenOrClobbered /\ p \in Indices
  BY <1>1, <1>3, ProtectedLocked DEF Typed
<1>5. HeldIsLocked' /\ OneOwner' /\ ProtectedNeverGranted'
  <2>1. CASE UNCHANGED owners
    BY <1>2, <1>3, <2>1 DEF FrameInv, HeldIsLocked, OneOwner, ProtectedNeverGranted,
                      BootPages, ReservedInside
  <2>2. ASSUME NEW p \in Indices, p \notin bitmap, LockPage(AddrOf(p)), Acquire(p),
               AddrOf(p) < total_memory
        PROVE  HeldIsLocked' /\ OneOwner' /\ ProtectedNeverGranted'
    <3>1. p \in Nat /\ PageOf(AddrOf(p)) = p /\ AddrOf(p) \in Nat
      BY PageFacts, LimitFacts
    <3>2. p \in bitmap'
      BY <2>2, <3>1, Sizes DEF LockPage, SetBit, SizeAssumption
    <3>0. owners \in [Indices -> Nat]
      BY <1>1 DEF Typed
    <3>3. owners[p] = 0 \/ p \in clobbered
      <4>1. owners[p] \in Nat /\ (~(owners[p] > 0) \/ p \in clobbered)
        BY <2>2, <3>0 DEF FrameInv, HeldIsLocked
      <4> QED
        BY <4>1
    <3>4. owners' = [owners EXCEPT ![p] = owners[p] + 1]
      BY <2>2, <3>0 DEF Acquire
    <3>5. /\ owners[p] \in Nat /\ owners'[p] = owners[p] + 1
          /\ \A q \in Indices : q # p => owners'[q] = owners[q]
      BY <2>2, <3>0, <3>4
    <3>6. HeldIsLocked'
      BY <1>2, <1>3, <3>2, <3>5 DEF FrameInv, HeldIsLocked
    <3>7. OneOwner'
      BY <1>3, <3>3, <3>5 DEF FrameInv, OneOwner
    <3>8. \A q \in BootPages \cup ReservedInside : owners'[q] > 0 => q \in clobbered'
      BY <1>3, <1>4, <2>2, <3>5 DEF FrameInv, ProtectedNeverGranted
    <3> QED
      BY <3>6, <3>7, <3>8 DEF ProtectedNeverGranted, BootPages, ReservedInside
  <2> QED
    BY <2>1, <2>2 DEF RequestPage, FirstClear
<1> QED
  BY <1>1, <1>2, <1>3, <1>4, <1>5
     DEF FrameInv, GrantSound, BootLocked, ReservedLocked, BootPages, ReservedInside

\* A plural call other than request_pages that is about to start.
LEMMA StartInv ==
  ASSUME FrameInv, NEW op \in Ops \ {"grant"}, NEW addr \in Nat, NEW count \in Nat,
         Start(op, addr, count), phase' \in {"boot", "running"}
  PROVE  FrameInv'
<1>1. Typed'
  BY StartType DEF FrameInv
<1>2. /\ work = << >> /\ phase # "convert" /\ work' = << Call(op, addr, count) >>
      /\ UNCHANGED <<bitmap, i, owners, clobbered>>
  BY DEF Start, Idle
<1>3. \A p \in BootPages : p \in TakenOrClobbered
  BY <1>2, ProtectedLocked
<1>4. \A k \in DOMAIN work' : work'[k].op # "grant"
  BY <1>2 DEF Call
<1> QED
  BY <1>1, <1>2, <1>3, <1>4
     DEF FrameInv, HeldIsLocked, OneOwner, GrantSound, BootLocked, ReservedLocked,
         ProtectedNeverGranted, BootPages, ReservedInside

LEMMA RequestPagesInv ==
  ASSUME FrameInv, NEW count \in Counts, RequestPages(count)
  PROVE  FrameInv'
<1>1. Typed' /\ Typed
  BY NextType DEF FrameInv, AnyStep, OtherCall
<1>2. /\ work = << >> /\ phase # "convert"
      /\ UNCHANGED <<bitmap, phase, i, owners, clobbered>>
  BY DEF RequestPages, Idle
<1>3. \A p \in BootPages : p \in TakenOrClobbered
  BY <1>2, ProtectedLocked
<1>4. GrantSound'
  <2>1. CASE work' = work
    BY <1>2, <2>1 DEF GrantSound
  <2>2. ASSUME NEW p \in page_bitmap_index .. (2 * Limit + count + 2), Fits(p, count),
               work' = << Call("grant", AddrOf(p), count) >>
        PROVE  GrantSound'
    <3>a. count \in Nat /\ page_bitmap_index \in Nat
      BY <1>1, Calls DEF Typed, CallAssumption
    <3>1. p \in Nat /\ PageOf(AddrOf(p)) = p
      BY <3>a, LimitFacts, PageFacts
    <3>2. \A n \in 0 .. (count - 1) : (p + n) \notin bitmap'
      BY <1>2, <2>2, <3>a DEF Fits
    <3>3. work'[1].addr = AddrOf(p) /\ work'[1].count = count /\ Len(work') = 1
      BY <2>2 DEF Call
    <3>4. ClearRun(work[1])'
      BY <3>1, <3>2, <3>3 DEF ClearRun
    <3> QED
      BY <3>3, <3>4 DEF GrantSound
  <2> QED
    BY <2>1, <2>2 DEF RequestPages
<1> QED
  BY <1>1, <1>2, <1>3, <1>4
     DEF FrameInv, HeldIsLocked, OneOwner, BootLocked, ReservedLocked,
         ProtectedNeverGranted, BootPages, ReservedInside

LEMMA ForeignInv ==
  ASSUME FrameInv, ClearTable \/ HolderWrites \/ NullWrites
  PROVE  FrameInv'
<1>1. ForeignEffect
  BY ForeignStep DEF FrameInv
<1>2. /\ Typed' /\ work = << >> /\ phase # "convert"
      /\ UNCHANGED <<phase, i, work, owners>>
      /\ clobbered \subseteq clobbered'
      /\ TakenOrClobbered \subseteq TakenOrClobbered'
  BY <1>1 DEF ForeignEffect, Idle
<1>3. \A p \in BootPages : p \in TakenOrClobbered
  BY <1>2, ProtectedLocked
<1>4. HeldIsLocked' /\ OneOwner' /\ ProtectedNeverGranted'
  BY <1>2 DEF FrameInv, HeldIsLocked, OneOwner, ProtectedNeverGranted, BootPages,
              ReservedInside
<1>5. GrantSound'
  BY <1>2 DEF GrantSound
<1> QED
  BY <1>2, <1>3, <1>4, <1>5
     DEF FrameInv, BootLocked, ReservedLocked, BootPages, ReservedInside

LEMMA NextInv == FrameInv /\ [AnyStep]_vars => FrameInv'
<1> SUFFICES ASSUME FrameInv, [AnyStep]_vars PROVE FrameInv'
  OBVIOUS
<1>1. CASE ConvertPage
  BY <1>1, ConvertPageInv
<1>2. CASE LockBootPages
  BY <1>2, LockBootPagesInv
<1>3. CASE WorkStep
  BY <1>3, WorkStepInv
<1>4. CASE RequestPage
  BY <1>4, RequestPageInv
<1>5. CASE UnlockOldPageTables
  BY <1>5, StartInv, Calls DEF UnlockOldPageTables, CallAssumption, Ops
<1>6. ASSUME NEW count \in Counts, RequestPages(count)
      PROVE  FrameInv'
  BY <1>6, RequestPagesInv
<1>7. ASSUME NEW addr \in Addrs, NEW count \in Counts,
             \/ LockPages(addr, count) \/ FreePages(addr, count)
             \/ ReservePages(addr, count) \/ UnreservePages(addr, count)
      PROVE  FrameInv'
  BY <1>7, StartInv, Calls
     DEF LockPages, FreePages, ReservePages, UnreservePages, Start, Idle,
         CallAssumption, Ops
<1>8. CASE UNCHANGED vars
  <2>1. /\ UNCHANGED <<bitmap, phase, i, work, owners, clobbered>>
        /\ Typed'
    BY <1>8, NextType DEF vars, FrameInv
  <2> QED
    BY <2>1 DEF FrameInv, HeldIsLocked, OneOwner, GrantSound, ClearRun, BootLocked,
                ReservedLocked, ProtectedNeverGranted, BootPages, ReservedInside, Covers
<1>9. CASE ClearTable \/ HolderWrites \/ NullWrites
  BY <1>9, ForeignInv
<1> QED
  BY <1>1, <1>2, <1>3, <1>4, <1>5, <1>6, <1>7, <1>8, <1>9 DEF AnyStep, OtherCall, KernelStep

LEMMA FrameInvHolds == Spec => []FrameInv
  BY InitInv, NextInv, NextIsStep, PTL DEF Spec

\* No frame is ever in the hands of two callers, whatever the machine's memory
\* map and whatever calls of memory.h are made in whatever order, unless somebody
\* who writes into the frames of the bitmap has changed that frame's own bit.
THEOREM NoDoubleGrant == Spec => []OneOwner
<1>1. FrameInv => OneOwner
  BY DEF FrameInv
<1> QED
  BY <1>1, FrameInvHolds, PTL

\* No frame of the kernel image, of the boot data or strictly inside a region
\* the firmware keeps is handed out before a foreign write has changed its bit.
THEOREM ProtectedStayProtected == Spec => []ProtectedNeverGranted
<1>1. FrameInv => ProtectedNeverGranted
  BY DEF FrameInv
<1> QED
  BY <1>1, FrameInvHolds, PTL

-----------------------------------------------------------------------------
(* The counters.                                                             *)

\* Used, free and reserved bytes account for all of memory modulo 2^64, through
\* any sequence of calls: no operation of memory.cpp changes one counter alone.
THEOREM MemoryConserved == Spec => []Conservation
<1>1. Init => Conservation
  BY WordAssumptions DEF Init, Conservation
<1>2. ASSUME TypeOK, Conservation, [Next]_vars
      PROVE  Conservation'
  <2>1. CASE ConvertPage
    BY <1>2, <2>1, ConvertPageMemory DEF MemoryStep, TypeOK
  <2>2. CASE WorkStep
    BY <1>2, <2>2, WorkStepMemory DEF MemoryStep, TypeOK
  <2>3. CASE RequestPage
    BY <1>2, <2>3, RequestPageMemory DEF MemoryStep, TypeOK
  <2>4. CASE UNCHANGED counters
    BY <1>2, <2>4 DEF Conservation, counters
  <2>5. CASE ClearTable \/ HolderWrites \/ NullWrites
    BY <1>2, <2>4, <2>5, ForeignStep DEF ForeignEffect, TypeOK
  <2> QED
    BY <1>2, <2>1, <2>2, <2>3, <2>4, <2>5
       DEF Next, KernelNext, KernelStep, OtherCall, TypeOK, LockBootPages, UnlockOldPageTables, RequestPages,
           LockPages, FreePages, ReservePages, UnreservePages, Start, vars
<1> QED
  BY <1>1, <1>2, TypeCorrect, PTL DEF Spec

-----------------------------------------------------------------------------
(* The kernel's calls: the search hint, and what a halt means.               *)


\* The calls under way lie inside memory, so that only an exhausted search can
\* make lock_page halt the kernel.
Inside(call) == call.count > 0 => call.addr + (call.count - 1) * PageSize < total_memory

WorkInside == \A k \in DOMAIN work : Inside(work[k])

\* HintSound and HaltOnlyWhenFull, while only the kernel's calls were made.
NothingSkipped == \A p \in Indices : p < page_bitmap_index => p \in TakenOrClobbered
FullAtHalt == halted # "no" => \A p \in 0 .. (Pages - 1) : p \in TakenOrClobbered

KernelInv == Typed /\ NothingSkipped /\ WorkInside /\ FullAtHalt

\* A whole page of memory has an address inside memory.
LEMMA PageInside == \A p \in Nat : p < Pages => AddrOf(p) < total_memory
<1> SUFFICES ASSUME NEW p \in Nat, p < Pages PROVE AddrOf(p) < total_memory
  OBVIOUS
<1>1. PageSize \in Nat \ {0} /\ total_memory \in Nat /\ Pages \in Nat
  BY Sizes, LimitFacts DEF SizeAssumption
<1>2. Pages * PageSize <= total_memory
  BY <1>1 DEF Pages
<1>3. (p + 1) * PageSize <= Pages * PageSize
  BY <1>1
<1>4. (p + 1) * PageSize = p * PageSize + PageSize
  BY <1>1
<1> QED
  BY <1>1, <1>2, <1>3, <1>4 DEF AddrOf

LEMMA RangeInside ==
  ASSUME NEW addr \in Nat, NEW count \in Nat, NEW end \in Nat,
         addr + count * PageSize <= end, end <= total_memory, NEW op
  PROVE  Inside(Call(op, addr, count))
<1>1. PageSize \in Nat \ {0} /\ total_memory \in Nat
  BY Sizes DEF SizeAssumption
<1>2. count > 0 => count * PageSize = (count - 1) * PageSize + PageSize
  BY <1>1
<1> QED
  BY <1>1, <1>2 DEF Inside, Call

LEMMA BootCallsInside == \A k \in DOMAIN BootCalls : Inside(BootCalls[k])
<1>1. PageSize \in Nat \ {0} /\ total_memory \in Nat
  BY Sizes DEF SizeAssumption
<1>2. Inside(Call("lock", EndAll, OldTables)) /\ Inside(Call("free", EndAll, OldTables))
  <2>1. EndAll \in Nat /\ OldTables \in Nat /\ EndAll + OldTables * PageSize <= total_memory
    BY Calls, KernelFits DEF CallAssumption, BootInside
  <2>2. total_memory <= total_memory
    BY <1>1
  <2>3. \A op : Inside(Call(op, EndAll, OldTables))
    BY <1>1, <2>1, <2>2, RangeInside, Zenon
  <2> QED
    BY <2>3, Zenon
<1>3. Inside(Call("lock", StartAll, (EndAll - StartAll) \div PageSize))
  <2> DEFINE pages == (EndAll - StartAll) \div PageSize
  <2>1. pages \in Nat /\ pages * PageSize <= EndAll - StartAll
    BY <1>1, Calls DEF CallAssumption
  <2>2. EndAll <= total_memory
    BY <1>1, Calls, KernelFits DEF CallAssumption, BootInside
  <2> HIDE DEF pages
  <2>3. StartAll + pages * PageSize <= EndAll
    BY <1>1, <2>1, Calls DEF CallAssumption
  <2>4. Inside(Call("lock", StartAll, pages))
    BY <2>1, <2>2, <2>3, RangeInside, Calls DEF CallAssumption
  <2> QED
    BY <2>4 DEF pages
<1>4. Inside(Call("lock", MemoryMap, 1))
  BY <1>1, Calls, KernelFits DEF CallAssumption, BootInside, Inside, Call
<1>5. Inside(Call("lock", LowStart, LowCount))
  <2>1. /\ LowStart \in Nat /\ LowCount \in Nat /\ LowStart + LowCount * PageSize \in Nat
        /\ LowStart + LowCount * PageSize <= total_memory
    BY <1>1, Calls, KernelFits DEF CallAssumption, BootInside
  <2> QED
    BY <1>1, <2>1, RangeInside
<1> QED
  BY <1>2, <1>3, <1>4, <1>5 DEF BootCalls

\* What a plural call of the kernel has left lies inside memory too.
LEMMA RestInside ==
  ASSUME work \in Seq(CallSet), work # << >>, Head(work).count > 0, WorkInside,
         NEW k \in DOMAIN Rest(Head(work))
  PROVE  Inside(Rest(Head(work))[k])
<1>1. PageSize \in Nat \ {0} /\ total_memory \in Nat
  BY Sizes DEF SizeAssumption
<1>2. CASE Head(work).count <= 1
  <2>1. Rest(Head(work)) = Tail(work)
    BY <1>2 DEF Rest
  <2>2. k + 1 \in DOMAIN work /\ Tail(work)[k] = work[k + 1]
    BY <2>1
  <2> QED
    BY <2>1, <2>2 DEF WorkInside
<1>3. CASE Head(work).count > 1
  <2>1. /\ DOMAIN Rest(Head(work)) = DOMAIN work
        /\ Rest(Head(work))[1] = Call(work[1].op, work[1].addr + PageSize, work[1].count - 1)
        /\ k # 1 => Rest(Head(work))[k] = work[k]
    BY <1>3, RestElements, HeadType
  <2>2. CASE k # 1
    BY <2>1, <2>2 DEF WorkInside
  <2>3. CASE k = 1
    <3>1. 1 \in DOMAIN work /\ work[1] = Head(work)
      OBVIOUS
    <3>2. work[1].addr \in Nat /\ work[1].count \in Nat /\ Inside(work[1])
      BY <3>1, HeadType DEF WorkInside
    <3>3. (work[1].count - 1) * PageSize
             = PageSize + ((work[1].count - 1) - 1) * PageSize
      BY <1>1, <3>2
    <3> QED
      BY <1>1, <1>3, <2>1, <2>3, <3>1, <3>2, <3>3 DEF Inside, Call
  <2> QED
    BY <2>2, <2>3
<1> QED
  BY <1>2, <1>3, HeadType

\* The step under way touches a page inside memory: it cannot halt the kernel.
LEMMA WorkNeverHalts ==
  ASSUME KernelInv, WorkStep
  PROVE  halted' = "no" /\ halted = "no"
<1>1. work \in Seq(CallSet) /\ work # << >> /\ halted = "no"
  BY DEF WorkStep, KernelInv, Typed, CallSet
<1>2. CASE CallDone
  BY <1>1, <1>2 DEF CallDone
<1>3. CASE Head(work).count > 0
  <2>1. Head(work).addr \in Nat /\ Head(work).count \in Nat /\ Inside(Head(work))
    BY <1>1, HeadType DEF KernelInv, WorkInside
  <2>2. PageSize \in Nat \ {0} /\ total_memory \in Nat
    BY Sizes DEF SizeAssumption
  <2>3. (Head(work).count - 1) * PageSize \in Nat
    BY <1>3, <2>1, <2>2
  <2>4. Head(work).addr < total_memory
    BY <1>3, <2>1, <2>2, <2>3 DEF Inside
  <2> QED
    BY <1>1, <1>3, <2>1, <2>2, <2>4
       DEF WorkStep, CallDone, LockStep, LockPage, FreeStep, FreePage,
           ReserveStep, ReservePage, UnreserveStep, UnreservePage
<1> QED
  BY <1>1, <1>2, <1>3 DEF WorkStep

LEMMA KernelNextInv == KernelInv /\ [KernelStep]_vars => KernelInv'
<1> SUFFICES ASSUME KernelInv, [KernelStep]_vars PROVE KernelInv'
  OBVIOUS
<1>0. Typed /\ Typed'
  BY NextType DEF KernelInv, AnyStep
<1>1. CASE ConvertPage
  <2>1. bitmap \subseteq bitmap' /\ UNCHANGED <<page_bitmap_index, work, clobbered>>
    BY <1>0, <1>1, ConvertPageMemory DEF MemoryStep, ConvertPage
  <2>2. halted' = "no"
    BY <1>1 DEF ConvertPage, ReservePage
  <2> QED
    BY <1>0, <2>1, <2>2 DEF KernelInv, NothingSkipped, WorkInside, FullAtHalt
<1>2. CASE LockBootPages
  BY <1>0, <1>2, BootCallsInside
     DEF LockBootPages, KernelInv, NothingSkipped, WorkInside, FullAtHalt
<1>3. CASE WorkStep
  <2>1. bitmap \subseteq bitmap' /\ halted' = "no" /\ clobbered' = clobbered
    BY <1>0, <1>3, WorkStepMemory, WorkNeverHalts DEF MemoryStep, WorkStep
  <2>2. work \in Seq(CallSet) /\ work # << >>
    BY <1>0, <1>3 DEF WorkStep, Typed, CallSet
  <2>3. /\ page_bitmap_index \in Nat /\ page_bitmap_index' \in Nat
        /\ page_bitmap_index' <= page_bitmap_index
    <3>1. Head(work).addr \in Nat /\ page_bitmap_index \in Nat
      BY <1>0, <2>2, HeadType DEF Typed
    <3> QED
      BY <1>0, <1>3, <3>1, HintStep
         DEF WorkStep, CallDone, LockStep, FreeStep, FreePage, ReserveStep,
             UnreserveStep, UnreservePage
  <2>4. WorkInside'
    <3>1. CASE CallDone
      <4>1. \A k \in DOMAIN work' : k + 1 \in DOMAIN work /\ work'[k] = work[k + 1]
        BY <2>2, <3>1 DEF CallDone
      <4> QED
        BY <4>1 DEF KernelInv, WorkInside, Inside
    <3>2. CASE Head(work).count > 0 /\ work' = Rest(Head(work))
      BY <2>2, <3>2, RestInside DEF KernelInv, WorkInside, Inside
    <3> QED
      BY <1>3, <2>1, <3>1, <3>2 DEF WorkStep
  <2>5. NothingSkipped'
    BY <2>1, <2>3, LimitFacts DEF NothingSkipped, KernelInv
  <2> QED
    BY <1>0, <2>1, <2>4, <2>5 DEF KernelInv, FullAtHalt
<1>4. CASE RequestPage
  <2>1. bitmap \subseteq bitmap' /\ UNCHANGED <<work, clobbered>> /\ halted = "no"
    BY <1>0, <1>4, RequestPageMemory DEF MemoryStep, RequestPage, Idle
  <2>2. page_bitmap_index \in Nat /\ Pages \in Nat /\ Limit \in Nat /\ Pages < Limit
    BY <1>0, LimitFacts DEF Typed
  <2>3. ASSUME NEW p \in Indices, FirstClear(p), page_bitmap_index' = p,
               LockPage(AddrOf(p))
        PROVE  NothingSkipped' /\ FullAtHalt'
    <3>1. p \in Nat /\ AddrOf(p) \in Nat
      BY LimitFacts, PageFacts
    <3>2. \A q \in Indices : q < p => q \in TakenOrClobbered
      BY <2>2, <2>3, <3>1, LimitFacts DEF FirstClear, KernelInv, NothingSkipped
    <3>3. halted' # "no" => ~(p < Pages)
      BY <2>1, <2>3, <3>1, PageInside, Sizes DEF LockPage, SizeAssumption
    <3>4. \A q \in 0 .. (Pages - 1) : q \in Indices /\ (~(p < Pages) => q < p)
      BY <2>2, <3>1 DEF Indices
    <3> QED
      BY <2>1, <2>3, <3>2, <3>3, <3>4 DEF NothingSkipped, FullAtHalt
  <2>4. ASSUME \A q \in page_bitmap_index .. (Limit - 1) : q \in bitmap,
               page_bitmap_index' = IF page_bitmap_index < Limit
                                    THEN Limit ELSE page_bitmap_index
        PROVE  NothingSkipped' /\ FullAtHalt'
    <3>1. \A q \in Indices : q < page_bitmap_index' => q \in TakenOrClobbered
      BY <2>2, <2>4 DEF KernelInv, NothingSkipped, Indices
    <3>2. \A q \in 0 .. (Pages - 1) : q \in Indices /\ q < page_bitmap_index'
      BY <2>2, <2>4 DEF Indices
    <3> QED
      BY <2>1, <3>1, <3>2 DEF NothingSkipped, FullAtHalt
  <2> QED
    BY <1>0, <1>4, <2>1, <2>3, <2>4 DEF RequestPage, KernelInv, WorkInside, Inside
<1>5. CASE UnlockOldPageTables
  <2>1. /\ work' = << Call("free", EndAll, OldTables) >>
        /\ UNCHANGED <<bitmap, page_bitmap_index, halted, clobbered>>
    BY <1>5 DEF UnlockOldPageTables, Start
  <2>2. Inside(Call("free", EndAll, OldTables))
    BY BootCallsInside DEF BootCalls, Inside, Call
  <2>3. WorkInside'
    BY <2>1, <2>2 DEF WorkInside
  <2> QED
    BY <1>0, <2>1, <2>3 DEF KernelInv, NothingSkipped, FullAtHalt
<1>6. CASE UNCHANGED vars
  BY <1>0, <1>6 DEF vars, KernelInv, NothingSkipped, WorkInside, Inside, FullAtHalt
<1>7. CASE ClearTable \/ HolderWrites \/ NullWrites
  <2>1. ForeignEffect
    BY <1>0, <1>7, ForeignStep
  <2>2. /\ UNCHANGED <<page_bitmap_index, halted, work>>
        /\ TakenOrClobbered \subseteq TakenOrClobbered'
    BY <2>1 DEF ForeignEffect
  <2> QED
    BY <1>0, <2>2 DEF KernelInv, NothingSkipped, WorkInside, Inside, FullAtHalt
<1> QED
  BY <1>1, <1>2, <1>3, <1>4, <1>5, <1>6, <1>7 DEF KernelStep

LEMMA KernelInvHolds == Spec => [](~called => KernelInv)
<1>1. Init => (~called => KernelInv)
  <2> SUFFICES ASSUME Init PROVE KernelInv
    OBVIOUS
  <2>1. \A p \in Indices : ~(p < 0)
    BY LimitFacts
  <2> QED
    BY <2>1, InitType DEF Init, KernelInv, NothingSkipped, WorkInside, FullAtHalt
<1>2. (~called => KernelInv) /\ [Next]_vars => (~called => KernelInv)'
  BY KernelNextInv DEF Next, KernelNext, vars
<1> QED
  BY <1>1, <1>2, PTL DEF Spec

\* Under the kernel's own calls the hint never passes over a clear page: the
\* memory a request misses is pages whose bit a foreign write has cleared.
THEOREM HintNeverSkips == Spec => []HintSound
<1>1. (~called => KernelInv) => HintSound
  BY DEF KernelInv, NothingSkipped, HintSound
<1> QED
  BY <1>1, KernelInvHolds, PTL

\* Under the kernel's own calls the allocator stops the machine only when every
\* whole page of memory is taken, or had its bit changed by a foreign write.
THEOREM StopsOnlyWhenFull == Spec => []HaltOnlyWhenFull
<1>1. (~called => KernelInv) => HaltOnlyWhenFull
  BY DEF KernelInv, FullAtHalt, HaltOnlyWhenFull
<1> QED
  BY <1>1, KernelInvHolds, PTL

-----------------------------------------------------------------------------
(* The kernel's calls: the counters are what the bitmap says.                *)

\* free_page of a clear page would set its bit and move its bytes the wrong way:
\* the pages that are still to be freed are locked.
FreeLocked(call, bits) ==
    call.op = "free" =>
        \A n \in 0 .. (call.count - 1) : PageOf(call.addr + n * PageSize) \in bits

AccountInv == /\ bitmap \subseteq 0 .. (Pages - 1)
              /\ Accounted
              /\ \A k \in DOMAIN work : work[k].op \in {"lock", "free"} /\ FreeLocked(work[k], bitmap)

LEMMA WholePages ==
  ASSUME total_memory % PageSize = 0
  PROVE  /\ PageSize * Pages = total_memory
         /\ \A addr \in Nat : addr < total_memory => PageOf(addr) \in 0 .. (Pages - 1)
<1>1. PageSize \in Nat \ {0} /\ total_memory \in Nat /\ Pages \in Nat
  BY Sizes, LimitFacts DEF SizeAssumption
<1>2. PageSize * Pages = total_memory
  BY <1>1 DEF Pages
<1>3. ASSUME NEW addr \in Nat, addr < total_memory
      PROVE  PageOf(addr) \in 0 .. (Pages - 1)
  <2>1. PICK q \in Nat : q = PageOf(addr)
    BY PageFacts
  <2>2. PageSize * q <= addr
    BY <1>1, <2>1 DEF PageOf
  <2>3. CASE q >= Pages
    <3>1. PageSize * q >= PageSize * Pages
      BY <1>1, <2>1, <2>3
    <3>2. PageSize * q \in Nat /\ PageSize * Pages \in Nat
      BY <1>1, <2>1
    <3> QED
      BY <1>1, <1>2, <1>3, <2>2, <3>1, <3>2
  <2>4. CASE q < Pages
    BY <1>1, <2>1, <2>4
  <2> QED
    BY <1>1, <2>1, <2>3, <2>4
<1> QED
  BY <1>2, <1>3

\* One page more still fits into memory.
LEMMA TakePage ==
  ASSUME total_memory % PageSize = 0, bitmap \subseteq 0 .. (Pages - 1),
         NEW p \in 0 .. (Pages - 1), p \notin bitmap
  PROVE  /\ Cardinality(bitmap) \in Nat
         /\ Cardinality(bitmap \cup {p}) = Cardinality(bitmap) + 1
         /\ PageSize * Cardinality(bitmap) \in Nat
         /\ PageSize * Cardinality(bitmap \cup {p}) = PageSize * Cardinality(bitmap) + PageSize
         /\ PageSize * Cardinality(bitmap) + PageSize <= total_memory
<1>1. PageSize \in Nat \ {0} /\ total_memory \in Nat /\ Pages \in Nat
  BY Sizes, LimitFacts DEF SizeAssumption
<1>2. IsFiniteSet(0 .. (Pages - 1)) /\ Cardinality(0 .. (Pages - 1)) = Pages
  BY <1>1, FS_Interval
<1>3. IsFiniteSet(bitmap) /\ Cardinality(bitmap) \in Nat
  BY <1>2, FS_Subset, FS_CardinalityType
<1>4. Cardinality(bitmap \cup {p}) = Cardinality(bitmap) + 1
  BY <1>3, FS_AddElement
<1>5. Cardinality(bitmap \cup {p}) <= Pages
  <2>1. bitmap \cup {p} \in SUBSET (0 .. (Pages - 1))
    OBVIOUS
  <2>2. Cardinality(bitmap \cup {p}) <= Cardinality(0 .. (Pages - 1))
    BY <1>2, <2>1, FS_Subset, Zenon
  <2> QED
    BY <1>2, <2>2
<1> PICK c \in Nat : c = Cardinality(bitmap)
  BY <1>3
<1>6. c + 1 <= Pages
  BY <1>4, <1>5
<1>7. PageSize * (c + 1) = PageSize * c + PageSize /\ PageSize * c \in Nat
  BY <1>1
<1>8. PageSize * (c + 1) <= PageSize * Pages
  BY <1>1, <1>6
<1>9. PageSize * Pages = total_memory
  BY WholePages
<1> QED
  BY <1>4, <1>7, <1>8, <1>9

\* lock_page and reserve_page move the bytes of the page they take.
LEMMA TakingIsExact ==
  ASSUME total_memory % PageSize = 0, MemoryTyped, bitmap \subseteq 0 .. (Pages - 1),
         Accounted, NEW p \in 0 .. (Pages - 1), p \notin bitmap,
         bitmap' = bitmap \cup {p}, free_mem' = Minus(free_mem, PageSize),
         \/ used_mem' = Plus(used_mem, PageSize) /\ UNCHANGED reserved_mem
         \/ reserved_mem' = Plus(reserved_mem, PageSize) /\ UNCHANGED used_mem
  PROVE  Accounted'
<1>1. PageSize \in Nat \ {0} /\ total_memory \in Nat /\ Word \in Nat /\ total_memory < Word
  BY Sizes DEF SizeAssumption
<1> PICK taken : taken = PageSize * Cardinality(bitmap)
  OBVIOUS
<1>2. /\ taken \in Nat /\ taken + PageSize <= total_memory
      /\ PageSize * Cardinality(bitmap') = taken + PageSize
  BY TakePage
<1>3. used_mem + reserved_mem = taken /\ free_mem = total_memory - taken
  BY DEF Accounted
<1>4. used_mem \in Nat /\ reserved_mem \in Nat /\ free_mem \in Nat
  BY <1>1 DEF MemoryTyped
<1>5. free_mem' = total_memory - (taken + PageSize)
  BY <1>1, <1>2, <1>3, <1>4 DEF Minus
<1>6. used_mem' + reserved_mem' = taken + PageSize
  <2>1. CASE used_mem' = Plus(used_mem, PageSize) /\ UNCHANGED reserved_mem
    BY <1>1, <1>2, <1>3, <1>4, <2>1 DEF Plus
  <2>2. CASE reserved_mem' = Plus(reserved_mem, PageSize) /\ UNCHANGED used_mem
    BY <1>1, <1>2, <1>3, <1>4, <2>2 DEF Plus
  <2> QED
    BY <2>1, <2>2
<1> QED
  BY <1>2, <1>5, <1>6 DEF Accounted

LEMMA LockIsExact ==
  ASSUME total_memory % PageSize = 0, Typed, bitmap \subseteq 0 .. (Pages - 1),
         Accounted, NEW addr \in Nat, LockPage(addr)
  PROVE  bitmap' \subseteq 0 .. (Pages - 1) /\ Accounted'
<1>1. CASE UNCHANGED <<bitmap, counters>>
  BY <1>1 DEF Accounted, counters
<1>2. CASE addr < total_memory /\ PageOf(addr) \notin bitmap
  <2>1. PageOf(addr) \in 0 .. (Pages - 1) /\ PageOf(addr) \in Indices
    BY <1>2, WholePages, LimitFacts DEF Indices
  <2>2. /\ bitmap' = bitmap \cup {PageOf(addr)}
        /\ used_mem' = Plus(used_mem, PageSize) /\ free_mem' = Minus(free_mem, PageSize)
        /\ UNCHANGED reserved_mem
    BY <1>2, <2>1, Sizes DEF LockPage, SetBit, SizeAssumption
  <2> QED
    BY <1>2, <2>1, <2>2, TakingIsExact DEF Typed, MemoryTyped
<1> QED
  BY <1>1, <1>2 DEF LockPage

LEMMA ConvertIsExact ==
  ASSUME total_memory % PageSize = 0, Typed, AccountInv, ConvertPage
  PROVE  AccountInv'
<1>1. UNCHANGED <<work, halted>> /\ bitmap \subseteq bitmap'
  BY ConvertPageMemory DEF ConvertPage, ReservePage, MemoryStep
<1>2. i \in 0 .. (Pages - 1) /\ PageOf(AddrOf(i)) = i /\ i \in Indices
  <2>1. i \in 0 .. Pages /\ i < Pages
    BY DEF ConvertPage, Typed
  <2> QED
    BY <2>1, PageFacts, LimitFacts DEF Indices
<1>3. bitmap' \subseteq 0 .. (Pages - 1) /\ Accounted'
  <2>1. CASE UNCHANGED <<bitmap, counters>>
    BY <2>1 DEF AccountInv, Accounted, counters
  <2>2. CASE i \notin bitmap /\ ReservePage(AddrOf(i))
    <3>1. /\ bitmap' = bitmap \cup {i}
          /\ reserved_mem' = Plus(reserved_mem, PageSize)
          /\ free_mem' = Minus(free_mem, PageSize)
          /\ UNCHANGED used_mem
      BY <1>2, <2>2 DEF ReservePage, SetBit
    <3> QED
      BY <1>2, <2>2, <3>1, TakingIsExact DEF AccountInv, Typed, MemoryTyped
  <2> QED
    BY <1>2, <2>1, <2>2 DEF ConvertPage, ReservePage, counters
<1> QED
  BY <1>1, <1>3 DEF AccountInv, FreeLocked

\* One page of a plural call: what is left of it is known as the call was.
LEMMA RestIsKnown ==
  ASSUME work \in Seq(CallSet), work # << >>, Head(work).count > 0, AccountInv,
         bitmap \subseteq bitmap', NEW k \in DOMAIN Rest(Head(work))
  PROVE  /\ Rest(Head(work))[k].op \in {"lock", "free"}
         /\ FreeLocked(Rest(Head(work))[k], bitmap')
<1> DEFINE rest == Rest(Head(work))
<1>1. PageSize \in Nat \ {0}
  BY Sizes DEF SizeAssumption
<1>2. CASE \E m \in DOMAIN work : rest[k] = work[m]
  BY <1>2 DEF AccountInv, FreeLocked
<1>3. CASE /\ Head(work).count > 1
           /\ rest[k] = Call(work[1].op, work[1].addr + PageSize, work[1].count - 1)
  <2>1. 1 \in DOMAIN work /\ work[1] = Head(work)
    OBVIOUS
  <2>2. work[1].addr \in Nat /\ work[1].count \in Nat
    BY <2>1, HeadType
  <2>3. /\ work[1].op \in {"lock", "free"} /\ FreeLocked(work[1], bitmap)
    BY <2>1 DEF AccountInv
  <2>4. ASSUME work[1].op = "free", NEW n \in 0 .. ((work[1].count - 1) - 1)
        PROVE  PageOf((work[1].addr + PageSize) + n * PageSize) \in bitmap
    <3>1. n + 1 \in 0 .. (work[1].count - 1)
      BY <2>2
    <3>2. (work[1].addr + PageSize) + n * PageSize = work[1].addr + (n + 1) * PageSize
      BY <1>1, <2>2
    <3> QED
      BY <2>3, <2>4, <3>1, <3>2 DEF FreeLocked
  <2>5. FreeLocked(rest[k], bitmap')
    BY <1>3, <2>4 DEF FreeLocked, Call
  <2> QED
    BY <1>3, <2>3, <2>5 DEF Call
<1> QED
  BY <1>2, <1>3, RestElements, HeadType

LEMMA WorkIsExact ==
  ASSUME total_memory % PageSize = 0, KernelInv, AccountInv, WorkStep
  PROVE  AccountInv'
<1>1. Typed /\ work \in Seq(CallSet) /\ work # << >>
  BY DEF WorkStep, KernelInv, Typed, CallSet
<1>2. bitmap \subseteq bitmap' /\ halted' = "no"
  BY <1>1, WorkStepMemory, WorkNeverHalts DEF MemoryStep
<1>3. CASE CallDone
  <2>1. \A k \in DOMAIN work' : k + 1 \in DOMAIN work /\ work'[k] = work[k + 1]
    BY <1>1, <1>3 DEF CallDone
  <2>2. UNCHANGED <<bitmap, counters>>
    BY <1>3 DEF CallDone
  <2> QED
    BY <2>1, <2>2 DEF AccountInv, Accounted, FreeLocked, counters
<1>4. CASE Head(work).count > 0 /\ work' = Rest(Head(work))
           /\ (LockStep(Head(work)) \/ FreeStep(Head(work)) \/ ReserveStep(Head(work))
               \/ UnreserveStep(Head(work)))
  <2>1. /\ Head(work).addr \in Nat /\ Head(work).count \in Nat
        /\ 1 \in DOMAIN work /\ work[1] = Head(work)
    BY <1>1, HeadType
  <2>2. Head(work).op \in {"lock", "free"} /\ FreeLocked(Head(work), bitmap)
    BY <2>1 DEF AccountInv
  <2>3. \A k \in DOMAIN work' : work'[k].op \in {"lock", "free"} /\ FreeLocked(work'[k], bitmap')
    BY <1>1, <1>2, <1>4, RestIsKnown
  <2>4. bitmap' \subseteq 0 .. (Pages - 1) /\ Accounted'
    <3>1. CASE LockStep(Head(work))
      BY <1>1, <2>1, <3>1, LockIsExact DEF LockStep, AccountInv
    <3>2. CASE FreeStep(Head(work))
      <4>1. Head(work).op = "free" /\ FreePage(Head(work).addr)
        BY <3>2 DEF FreeStep
      <4>2. PageOf(Head(work).addr) \in bitmap
        <5>1. 0 \in 0 .. (Head(work).count - 1) /\ Head(work).addr + 0 * PageSize = Head(work).addr
          BY <1>4, <2>1, Sizes DEF SizeAssumption
        <5> QED
          BY <2>2, <4>1, <5>1 DEF FreeLocked
      <4>3. UNCHANGED <<bitmap, counters>>
        BY <4>1, <4>2 DEF FreePage
      <4> QED
        BY <4>3 DEF AccountInv, Accounted, counters
    <3> QED
      BY <1>4, <2>2, <3>1, <3>2 DEF ReserveStep, UnreserveStep
  <2> QED
    BY <2>3, <2>4 DEF AccountInv
<1> QED
  BY <1>2, <1>3, <1>4 DEF WorkStep

LEMMA RequestIsExact ==
  ASSUME total_memory % PageSize = 0, Typed, AccountInv, RequestPage
  PROVE  AccountInv'
<1>1. UNCHANGED work /\ bitmap \subseteq bitmap'
  BY RequestPageMemory DEF RequestPage, MemoryStep
<1>2. bitmap' \subseteq 0 .. (Pages - 1) /\ Accounted'
  <2>1. CASE UNCHANGED <<bitmap, counters>>
    BY <2>1 DEF AccountInv, Accounted, counters
  <2>2. ASSUME NEW p \in Indices, LockPage(AddrOf(p))
        PROVE  bitmap' \subseteq 0 .. (Pages - 1) /\ Accounted'
    <3>1. AddrOf(p) \in Nat
      BY PageFacts, LimitFacts
    <3> QED
      BY <2>2, <3>1, LockIsExact DEF AccountInv
  <2> QED
    BY <2>1, <2>2 DEF RequestPage
<1> QED
  BY <1>1, <1>2 DEF AccountInv, FreeLocked

\* The pages of the boot page tables were locked when boot ended.
LEMMA UnlockIsExact ==
  ASSUME FrameInv, AccountInv, clobbered = {}, UnlockOldPageTables
  PROVE  AccountInv'
<1>1. /\ work' = << Call("free", EndAll, OldTables) >> /\ UNCHANGED <<bitmap, counters>>
      /\ work = << >> /\ phase = "boot"
  BY DEF UnlockOldPageTables, Start, Idle
<1>2. EndAll \in Nat /\ OldTables \in Nat /\ PageSize \in Nat \ {0} /\ total_memory \in Nat
  BY Calls, Sizes DEF CallAssumption, SizeAssumption
<1>3. ASSUME NEW n \in 0 .. (OldTables - 1)
      PROVE  PageOf(EndAll + n * PageSize) \in bitmap
  <2>1. EndAll + n * PageSize \in Nat /\ EndAll + n * PageSize < total_memory
    <3>1. EndAll + OldTables * PageSize <= total_memory
      BY KernelFits DEF BootInside
    <3>2. (n + 1) * PageSize <= OldTables * PageSize /\ (n + 1) * PageSize = n * PageSize + PageSize
      BY <1>2
    <3>3. n * PageSize \in Nat /\ OldTables * PageSize \in Nat
      BY <1>2
    <3> QED
      BY <1>2, <3>1, <3>2, <3>3
  <2>2. PageOf(EndAll + n * PageSize) \in Indices
    BY <2>1, LimitFacts DEF Indices
  <2>3. Covers(BootCalls[1], PageOf(EndAll + n * PageSize)) /\ 1 \in DOMAIN BootCalls
    <3>1. BootCalls[1] = Call("lock", EndAll, OldTables) /\ 1 \in DOMAIN BootCalls
      BY DEF BootCalls
    <3>2. BootCalls[1].addr = EndAll /\ BootCalls[1].count = OldTables
      BY <3>1 DEF Call
    <3> QED
      BY <3>1, <3>2 DEF Covers
  <2>4. PageOf(EndAll + n * PageSize) \in BootPages
    BY <2>2, <2>3 DEF BootPages
  <2> QED
    BY <1>1, <2>4, ProtectedLocked
<1>4. FreeLocked(Call("free", EndAll, OldTables), bitmap')
  BY <1>1, <1>3 DEF FreeLocked, Call
<1>5. ASSUME NEW k \in DOMAIN work'
      PROVE  work'[k].op \in {"lock", "free"} /\ FreeLocked(work'[k], bitmap')
  <2>1. work'[k] = Call("free", EndAll, OldTables)
    BY <1>1
  <2> QED
    BY <1>4, <2>1 DEF Call
<1> QED
  BY <1>1, <1>5 DEF AccountInv, Accounted, counters

LEMMA BootIsExact ==
  ASSUME AccountInv, LockBootPages
  PROVE  AccountInv'
<1>1. work' = BootCalls /\ UNCHANGED <<bitmap, counters>>
  BY DEF LockBootPages
<1>2. \A k \in DOMAIN BootCalls : BootCalls[k].op = "lock"
  BY DEF BootCalls, Call
<1> QED
  BY <1>1, <1>2 DEF AccountInv, Accounted, FreeLocked, counters

\* Under the kernel's own calls the three counters are exactly what the bitmap says
\* of memory, when memory is made of whole pages (a last page that is cut off is
\* locked as a whole, and free_mem wraps below 0 with it) and memset clears all of the
\* bitmap: no page is counted twice, by the firmware's reservations, the locks of the
\* boot, the requests and the release of the boot page tables in any order.  They stay
\* so through foreign writes that change no bit, up to the first one that does.
THEOREM CountersExact ==
  ASSUME total_memory % PageSize = 0, Limit < ZeroedBits
  PROVE  Spec => []AccountingExact
<1> DEFINE Exact == clobbered = {} => AccountInv
           Inv == FrameInv /\ (~called => KernelInv /\ Exact)
<1>1. ASSUME Init PROVE Inv
  <2>1. KernelInv
    <3>1. \A p \in Indices : ~(p < 0)
      BY LimitFacts
    <3> QED
      BY <1>1, <3>1, InitType DEF Init, KernelInv, NothingSkipped, WorkInside, FullAtHalt
  <2>2. bitmap = {}
    <3>1. \A x \in Indices : ~(x >= ZeroedBits)
      BY LimitFacts, Sizes DEF Indices, SizeAssumption
    <3> QED
      BY <1>1, <3>1 DEF Init
  <2>3. Accounted
    <3>1. PageSize * 0 = 0 /\ total_memory - 0 = total_memory
      BY Sizes DEF SizeAssumption
    <3> QED
      BY <1>1, <2>2, <3>1, FS_EmptySet DEF Init, Accounted
  <2> QED
    BY <1>1, <2>1, <2>2, <2>3, InitInv DEF Init, AccountInv
<1>2. ASSUME FrameInv, KernelInv, Exact, [KernelStep]_vars PROVE KernelInv' /\ Exact'
  <2>1. KernelInv' /\ Typed
    BY <1>2, KernelNextInv DEF KernelInv
  <2>2. ASSUME clobbered' = {} PROVE AccountInv'
    <3>0. CASE ClearTable \/ HolderWrites \/ NullWrites
      <4>1. ForeignEffect
        BY <2>1, <3>0, ForeignStep
      <4>2. UNCHANGED <<bitmap, counters, work>> /\ clobbered = {}
        BY <2>2, <4>1 DEF ForeignEffect
      <4> QED
        BY <1>2, <4>2 DEF counters, AccountInv, Accounted, FreeLocked
    <3>1. CASE ConvertPage
      BY <1>2, <2>2, <2>1, <3>1, ConvertIsExact DEF ConvertPage
    <3>2. CASE LockBootPages
      BY <1>2, <2>2, <3>2, BootIsExact DEF LockBootPages
    <3>3. CASE WorkStep
      BY <1>2, <2>2, <3>3, WorkIsExact DEF WorkStep
    <3>4. CASE RequestPage
      BY <1>2, <2>2, <2>1, <3>4, RequestIsExact DEF RequestPage
    <3>5. CASE UnlockOldPageTables
      BY <1>2, <2>2, <3>5, UnlockIsExact DEF UnlockOldPageTables, Start
    <3>6. CASE UNCHANGED vars
      BY <1>2, <2>2, <3>6 DEF vars, counters, AccountInv, Accounted, FreeLocked
    <3> QED
      BY <1>2, <3>0, <3>1, <3>2, <3>3, <3>4, <3>5, <3>6 DEF KernelStep
  <2> QED
    BY <2>1, <2>2
<1>3. Inv => AccountingExact
  BY DEF AccountInv, AccountingExact
<1>4. ASSUME Inv, [Next]_vars PROVE Inv'
  <2>1. FrameInv'
    BY <1>4, NextInv, NextIsStep
  <2>2. ASSUME ~called' PROVE ~called /\ [KernelStep]_vars
    BY <1>4, <2>2 DEF Next, KernelNext, vars
  <2> QED
    BY <1>2, <1>4, <2>1, <2>2
<1> HIDE DEF Inv
<1> QED
  BY <1>1, <1>3, <1>4, PTL DEF Spec

=============================================================================
