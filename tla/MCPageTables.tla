---------------------------- MODULE MCPageTables ----------------------------
(* Tables of four entries: 256 pages, of which the first sixteen are mapped  *)
(* to themselves, and four frames of memory behind them; 14 is locked.       *)
EXTENDS PageTables

CONSTANTS none

Memory == (1 .. 19) \ {14}
Mmio == {21}
Sdts == {22}
WatchedPages == {3, 64}
Unmapped == {3, 40}

=============================================================================
