-------------------------------- MODULE MCVfs --------------------------------
(* Three drives, a directory that the drives are in, one that is not there   *)
(* yet, and an archive with a file named like a drive.                       *)
EXTENDS Vfs

CONSTANTS disk1, disk2, disk3, none

ThreeDrives == <<disk1, disk2, disk3>>
SomeTypes == {"PATA", "SATAPI", "UNKNOWN"}
Hd == <<"hda", "hdb", "hdc">>
Cd == <<"cda", "cdb", "cdc">>
SomePaths == {<<"dev", "hdb">>, <<"dev">>, <<"mnt">>}
Files == <<"f", "hdb">>
=============================================================================
