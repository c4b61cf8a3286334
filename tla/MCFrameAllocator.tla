-------------------------- MODULE MCFrameAllocator --------------------------
(* Machines with pages of two bytes.  MCMmap is laid out like a PC: usable   *)
(* memory that ends in the middle of a page, the firmware's data after it,   *)
(* a hole no entry describes (the video memory), the firmware's ROM, then    *)
(* usable memory again: 20 pages, the bitmap has 24 bits and lies in frames  *)
(* 0 (bits 0 to 15) and 1.  MCSmall has the same in 10 pages and a bitmap of *)
(* 16 bits, all in frame 0, for the run that makes every call of memory.h.   *)
EXTENDS FrameAllocator

Entry(base, size, type) == [base |-> base, size |-> size, type |-> type]

MCMmap == << Entry(0, 13, 1), Entry(13, 1, 2), Entry(20, 4, 2), Entry(24, 16, 1) >>

MCSmall == << Entry(0, 7, 1), Entry(7, 3, 2), Entry(12, 8, 1) >>
\* An odd address inside memory and one outside.
MCAddrs == {15, 40}
MCCounts == {0, 2}

\* A cleared byte, and one with two bits set.
MCValues == {{}, {6, 7}}
MCOneValue == {{7}}
=============================================================================
