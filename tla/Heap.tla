-------------------------------- MODULE Heap --------------------------------
(***************************************************************************)
(* The kernel heap of kernel/memory/heap.cpp: a doubly linked list of      *)
(* segment headers that live in the memory they describe.  seg maps the    *)
(* address of each header to its fields; a header that combine_forward     *)
(* swallows leaves the domain, so that TLC refuses to read it afterwards.  *)
(*                                                                         *)
(* Nothing interleaves with a heap call (tasks switch only in yield and no *)
(* interrupt handler allocates).  malloc is three actions, the call, the   *)
(* search that takes a segment and the expansion that precedes the second  *)
(* search, so that what lies between them can be stated.                   *)
(***************************************************************************)
EXTENDS Integers, FiniteSets

CONSTANTS
    HeapStart,      \* 0x0000100000000000
    InitPages,      \* 0x10
    PageSize,       \* 0x1000
    Header,         \* sizeof(heap_seg_header_t), 32
    Granule,        \* 0x10
    Requests,       \* the sizes malloc is called with
    MaxEnd          \* where the page frames run out

NULL == 0

HeapAssumption ==
    /\ HeapStart \in Nat \ {0} /\ InitPages \in Nat \ {0}
    /\ PageSize \in Nat \ {0} /\ Header \in Nat \ {0} /\ Granule \in Nat \ {0}
    /\ PageSize > Header
    /\ Requests \subseteq Nat \ {0}
    /\ MaxEnd \in Nat /\ HeapStart + InitPages * PageSize <= MaxEnd

ASSUME HeapSizes == HeapAssumption

VARIABLES
    seg,            \* header address -> [size, next, prev, free]
    last_seg, heap_end,
    asked,          \* the size malloc is serving, 0 outside malloc
    nullWritten,    \* NULL->prev, the word at address 16, has been overwritten
    halted          \* request_page found no frame

vars == <<seg, last_seg, heap_end, asked, nullWritten, halted>>

Segment(size, next, prev, free) ==
    [size |-> size, next |-> next, prev |-> prev, free |-> free]

Init == /\ heap_end = HeapStart + InitPages * PageSize
        /\ seg = [s \in {HeapStart} |->
                     Segment(InitPages * PageSize - Header, NULL, NULL, TRUE)]
        /\ last_seg = HeapStart
        /\ asked = 0
        /\ nullWritten = FALSE
        /\ halted = FALSE

-----------------------------------------------------------------------------
(* The list operations, as functions of the headers and last_seg.           *)

State(sg, last) == [seg |-> sg, last |-> last]

\* mutant: last_seg still points at the segment that was swallowed
CombineForwardKeepsLast(st, this) ==
    LET sg == st.seg
        n  == sg[this].next
    IN  IF n = NULL \/ ~sg[n].free THEN st
        ELSE State([s \in DOMAIN sg \ {n} |->
                       IF s = this
                       THEN Segment(sg[s].size + sg[n].size + Header, sg[n].next,
                                    sg[s].prev, sg[s].free)
                       ELSE IF s = sg[n].next THEN [sg[s] EXCEPT !.prev = this]
                       ELSE sg[s]],
                   st.last)

\* this->combine_forward(): swallow the next segment if it is free.
CombineForward(st, this) ==
    LET sg == st.seg
        n  == sg[this].next
    IN  IF n = NULL \/ ~sg[n].free THEN st
        ELSE State([s \in DOMAIN sg \ {n} |->
                       IF s = this
                       THEN Segment(sg[s].size + sg[n].size + Header, sg[n].next,
                                    sg[s].prev, sg[s].free)
                       ELSE IF s = sg[n].next THEN [sg[s] EXCEPT !.prev = this]
                       ELSE sg[s]],
                   IF n = st.last THEN this ELSE st.last)

\* mutant: the predecessor is not looked at
CombineBackwardNot(st, this) == st

\* this->combine_backward(): let a free predecessor swallow this segment.
CombineBackward(st, this) ==
    LET p == st.seg[this].prev
    IN  IF p # NULL /\ st.seg[p].free THEN CombineForward(st, p) ELSE st

\* mutant: the remainder is computed without the new segment's header
SplitForgetsHeader(st, this, size) ==
    LET sg   == st.seg
        new  == this + size + Header
    IN  State([s \in DOMAIN sg \cup {new} |->
                  IF s = new THEN Segment(sg[this].size - size, sg[this].next, this, sg[this].free)
                  ELSE IF s = this THEN Segment(size, new, sg[s].prev, sg[s].free)
                  ELSE IF s = sg[this].next THEN [sg[s] EXCEPT !.prev = new]
                  ELSE sg[s]],
              IF st.last = this THEN new ELSE st.last)

\* this->split(size), for a segment that is longer than size + Header.
Split(st, this, size) ==
    LET sg   == st.seg
        new  == this + size + Header
        rest == sg[this].size - size - Header
    IN  IF size < Granule \/ rest < Granule THEN st
        ELSE State([s \in DOMAIN sg \cup {new} |->
                       IF s = new THEN Segment(rest, sg[this].next, this, sg[this].free)
                       ELSE IF s = this THEN Segment(size, new, sg[s].prev, sg[s].free)
                       ELSE IF s = sg[this].next THEN [sg[s] EXCEPT !.prev = new]
                       ELSE sg[s]],
                   IF st.last = this THEN new ELSE st.last)

-----------------------------------------------------------------------------
(* malloc.                                                                   *)

Round(n, unit) == IF n % unit > 0 THEN n - (n % unit) + unit ELSE n

SizeUnrounded == asked                      \* mutant: not realigned
Size == Round(asked, Granule)

\* The headers in the order in which malloc's loop visits them; NULL beyond.
Walk == LET w[k \in 0 .. Cardinality(DOMAIN seg)] ==
                IF k = 0 THEN HeapStart
                ELSE IF w[k - 1] = NULL THEN NULL ELSE seg[w[k - 1]].next
        IN  w

CanTake(s) == s # NULL /\ seg[s].free /\ seg[s].size >= Size

FirstFit(s) == LET w == Walk IN
    \E k \in DOMAIN w : /\ w[k] = s /\ CanTake(s)
                        /\ \A j \in 0 .. (k - 1) : ~CanTake(w[j])

NoFit == LET w == Walk IN \A k \in DOMAIN w : ~CanTake(w[k])

Malloc(n) ==
    /\ ~halted /\ asked = 0
    /\ asked' = n
    /\ UNCHANGED <<seg, last_seg, heap_end, nullWritten, halted>>

\* The segment is split if it is longer than the request and a header; split
\* writes next->prev first, through NULL when the segment is the last one.
TakeSegment(s) ==
    /\ ~halted /\ asked # 0
    /\ FirstFit(s)
    /\ LET st == State(seg, last_seg)
           cut == IF seg[s].size > Size + Header THEN Split(st, s, Size) ELSE st
       IN  /\ seg' = [cut.seg EXCEPT ![s].free = FALSE]
           /\ last_seg' = cut.last
           /\ nullWritten' = (nullWritten \/ (cut # st /\ seg[s].next = NULL))
    /\ asked' = 0
    /\ UNCHANGED <<heap_end, halted>>

\* expand_heap((size + sizeof(heap_seg_header_t)) * 2), page by page.
GrowthRoundedDown ==                        \* mutant: whole pages of the bytes only
    (Size \div PageSize) * PageSize
Growth == Round((Size + Header) * 2, PageSize)

\* The new pages get a header and become the last segment.
AppendSegment(sg, last, at, growth) ==
    [s \in DOMAIN sg \cup {at} |->
        IF s = at THEN Segment(growth - Header, NULL, last, TRUE)
        ELSE IF s = last THEN [sg[s] EXCEPT !.next = at]
        ELSE sg[s]]

ExpandHeap ==
    /\ ~halted /\ asked # 0 /\ NoFit
    /\ heap_end + Growth <= MaxEnd
    /\ heap_end' = heap_end + Growth
    /\ LET sg == AppendSegment(seg, last_seg, heap_end, Growth)
           st == CombineBackward(State(sg, heap_end), heap_end)
       IN  seg' = st.seg /\ last_seg' = st.last
    /\ UNCHANGED <<asked, nullWritten, halted>>

\* request_page stops the machine inside expand_heap: the pages that were left
\* are mapped, heap_end is behind them, the list knows nothing of them.
OutOfFrames ==
    /\ ~halted /\ asked # 0 /\ NoFit
    /\ heap_end + Growth > MaxEnd
    /\ heap_end' = heap_end + ((MaxEnd - heap_end) \div PageSize) * PageSize
    /\ halted' = TRUE
    /\ UNCHANGED <<seg, last_seg, asked, nullWritten>>

-----------------------------------------------------------------------------
\* free(s + Header): the caller frees what it holds.
Free(s) ==
    /\ ~halted /\ asked = 0
    /\ ~seg[s].free
    /\ LET freed   == State([seg EXCEPT ![s].free = TRUE], last_seg)
           forward == CombineForward(freed, s)
           st      == CombineBackward(forward, s)
       IN  seg' = st.seg /\ last_seg' = st.last
    /\ UNCHANGED <<heap_end, asked, nullWritten, halted>>

Next == \/ \E n \in Requests : Malloc(n)
        \/ \E s \in DOMAIN seg : TakeSegment(s)
        \/ ExpandHeap
        \/ OutOfFrames
        \/ \E s \in DOMAIN seg : Free(s)

Spec == Init /\ [][Next]_vars

FairSpec == Spec /\ WF_vars(\E s \in DOMAIN seg : TakeSegment(s))
                 /\ WF_vars(ExpandHeap) /\ WF_vars(OutOfFrames)

-----------------------------------------------------------------------------
(* Properties.                                                              *)

Headers == DOMAIN seg

TypeOK == /\ Headers \subseteq Nat \ {NULL}
          /\ seg \in [Headers -> [size : Nat, next : Headers \cup {NULL},
                                  prev : Headers \cup {NULL}, free : BOOLEAN]]
          /\ last_seg \in Headers
          /\ heap_end \in Nat
          /\ asked \in Requests \cup {0}
          /\ nullWritten \in BOOLEAN
          /\ halted \in BOOLEAN

EndOf(sg, s) == s + Header + sg[s].size

\* The links agree: prev undoes next, the first header is at heap_start, the
\* only header without a successor is last_seg (expand_heap appends there).
LinksOK(sg, last) ==
    /\ HeapStart \in DOMAIN sg /\ last \in DOMAIN sg
    /\ \A s \in DOMAIN sg :
          /\ sg[s].next = NULL <=> s = last
          /\ sg[s].prev = NULL <=> s = HeapStart
          /\ sg[s].next # NULL => /\ sg[s].next \in DOMAIN sg
                                  /\ sg[sg[s].next].prev = s
          /\ sg[s].prev # NULL => /\ sg[s].prev \in DOMAIN sg
                                  /\ sg[sg[s].prev].next = s

\* The segments tile the heap: each ends where its successor's header starts,
\* the last one at heap_end, and no two overlap.
TilesOK(sg, end) ==
    /\ \A s \in DOMAIN sg :
          EndOf(sg, s) = IF sg[s].next = NULL THEN end ELSE sg[s].next
    /\ \A s, t \in DOMAIN sg : s < t => EndOf(sg, s) <= t
    /\ \A s \in DOMAIN sg : HeapStart <= s /\ EndOf(sg, s) <= end

\* Together: no sequence of malloc and free loses a byte of the heap, and no
\* block overlaps a header or another block, as long as the kernel runs.
ListOK == ~halted => LinksOK(seg, last_seg) /\ TilesOK(seg, heap_end)

\* free() leaves no two free segments side by side, and neither do malloc and
\* expand_heap: a request is refused only if no merging could have met it.
NoAdjacentFree ==
    \A s \in Headers : seg[s].free /\ seg[s].next # NULL => ~seg[seg[s].next].free

\* Every call of malloc returns or stops the machine for want of frames.
MallocReturns == asked # 0 ~> (asked = 0 \/ halted)

\* The heap a caller sees is an Arena.
Blocks == [a \in {s + Header : s \in {h \in Headers : ~seg[h].free}} |->
              seg[a - Header].size]

A == INSTANCE Arena WITH Low <- HeapStart, blocks <- Blocks, end <- heap_end,
                         wanted <- asked

\* Every block that malloc returns lies in mapped memory, is as long as the
\* caller (and calloc's memset) needs, overlaps no other, and changes only when
\* it is freed, whatever splitting and merging goes on around it.
ImplementsArena == A!ArenaSpec

=============================================================================
