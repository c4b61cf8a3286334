------------------------------- MODULE MCDisk -------------------------------
(* A drive of three sectors.                                                *)
EXTENDS Disk

ThreeSectors == 0 .. 2
FewOps == {[write |-> TRUE, lba |-> 1, sectors |-> 2], [write |-> FALSE, lba |-> 2, sectors |-> 1]}
Supported == {"PATA", "PATAPI", "SATAPI", "none"}
=============================================================================
