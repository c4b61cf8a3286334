------------------------------- MODULE MCHeap -------------------------------
(* A heap of one page of 16 bytes at 100, headers of four, granules of two;  *)
(* it may grow up to address 160.  The requests are odd, exactly met by what *)
(* a split leaves, and more than the first page holds.                       *)
EXTENDS Heap
MCRequests == {3, 6, 14}
=============================================================================
