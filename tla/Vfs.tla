--------------------------------- MODULE Vfs ---------------------------------
(***************************************************************************)
(* The tree of kernel/fs/vfs.cpp, and init_disk of kernel.cpp, which fills *)
(* it.  vfs_get_tree_node copies the node it finds to where its caller     *)
(* points, and every caller passes 0: the object at address 0 takes part   *)
(* as node 0, next to its use as the null pointer.                         *)
(***************************************************************************)
EXTENDS Integers, Sequences, FiniteSets, FiniteSetsExt, SequencesExt

CONSTANTS
    Drives,         \* the drives that init_disk looks for, in order
    Types,          \* the types they may turn out to have
    HdNames, CdNames,
    Paths,          \* the paths of later calls, as sequences of names
    Tar,            \* the names of the files of a USTAR archive
    MaxCalls,       \* bound: how many later calls there are
    NoDevice

ASSUME VfsSizes == MaxCalls \in Nat /\ Len(HdNames) >= Len(Drives) /\ Len(CdNames) >= Len(Drives)

\* The names are /dev/hda, /dev/hdb, ... and /dev/cda, /dev/cdb, ...
ASSUME VfsNames == /\ \A l \in {Drives, Tar, HdNames, CdNames} \cup Paths : l \in Seq(Range(l))
                   /\ IsInjective(HdNames) /\ IsInjective(CdNames)
                   /\ Range(HdNames) \cap Range(CdNames) = {}

VARIABLES
    vfs,            \* node: address -> node; entry: address -> vfs_entry_t; nodes
    types,          \* the types of the drives, as far as init_disk has got
    select,         \* the index of the drive it returns, 0: none yet
    ret,            \* what the last call returned
    calls,
    added           \* history: the device added last under each path

vars == <<vfs, types, select, ret, calls, added>>

Null == 0
Root == 1

NewNode(v) == [value |-> v, next |-> Null, children |-> Null, childs |-> 0]

-----------------------------------------------------------------------------
(* VFS_TREE.                                                                 *)

\* The children of node p in the order of their next pointers.
Children(st, p) ==
    LET w[k \in 0 .. Cardinality(DOMAIN st.node)] ==
            IF k = 0 THEN <<>>
            ELSE LET seen == w[k - 1]
                     c == IF seen = <<>> THEN st.node[p].children ELSE st.node[Last(seen)].next
                 IN  IF c = Null THEN seen ELSE Append(seen, c)
    IN  w[Cardinality(DOMAIN st.node)]

NameOf(st, n) == st.entry[st.node[n].value].name

\* get_child: the first one of that name, or Null.
GetChild(st, p, name) ==
    LET list == Children(st, p)
        k == SelectInSeq(list, LAMBDA n : st.node[n].value # Null /\ NameOf(st, n) = name)
    IN  IF k = 0 THEN Null ELSE list[k]

Fresh(f) == Max(DOMAIN f) + 1

With(f, x, v) == [k \in DOMAIN f \cup {x} |-> IF k = x THEN v ELSE f[k]]

WithEntry(st, name, file) ==
    [st EXCEPT !.entry = With(@, Fresh(@), [name |-> name, file |-> file, dev |-> NoDevice])]

\* mutant: the new child replaces the list
InsertFirst(st, p, value) ==
    LET n == Fresh(st.node)
    IN  [st EXCEPT !.node = With([@ EXCEPT ![p].children = n, ![p].childs = @ + 1], n, NewNode(value)),
                   !.nodes = @ + 1]

\* create_node, set_value, insert_child: at the end of the list.
InsertChild(st, p, value) ==
    LET n    == Fresh(st.node)
        list == Children(st, p)
        node == IF list = <<>> \/ st.node[p].childs = 0
                THEN [st.node EXCEPT ![p].children = n]
                ELSE [st.node EXCEPT ![Last(list)].next = n]
    IN  [st EXCEPT !.node = With([node EXCEPT ![p].childs = @ + 1], n, NewNode(value)),
                   !.nodes = @ + 1]

-----------------------------------------------------------------------------
(* vfs_get_tree_node.  A node that is not there is created; what its entry   *)
(* holds in file was not initialized.                                        *)

Resolve(at, name, garbage) ==
    LET st == at.st
        c  == GetChild(st, at.node, name)
        e  == WithEntry(st, name, garbage)
    IN  IF c # Null THEN [st |-> st, node |-> c]
        ELSE [st |-> InsertChild(e, at.node, Max(DOMAIN e.entry)), node |-> Fresh(st.node)]

GetTreeNode(path, garbage) ==
    LET w[k \in 0 .. Len(path)] ==
            IF k = 0 THEN [st |-> vfs, node |-> Root]
            ELSE LET at == w[k - 1] IN Resolve(at, path[k], garbage)
        end == w[Len(path)]
    IN  [end.st EXCEPT !.node[0] = end.st.node[end.node]]       \* *out = *current

\* add_device: entry->device_ptr = dev, through the copy of the node.
NotStored(st, dev) == st                        \* mutant: the pointer is not set
Stored(st, dev) == [st EXCEPT !.entry[st.node[0].value].dev = dev]

AddDevice(dev, path, garbage) ==
    /\ vfs' = Stored(GetTreeNode(path, garbage), dev)
    /\ added' = With(added, path, dev)
    /\ ret' = "SUCCESS"

\* vfs_mount_ustar: the mountpoint becomes the value of the copy, the files
\* become its children.
MountTar(st) ==
    LET point == WithEntry(st, "ustar", TRUE)
        to    == [point EXCEPT !.node[0].value = Max(DOMAIN point.entry)]
        f[k \in 0 .. Len(Tar)] ==
            IF k = 0 THEN to
            ELSE LET e == WithEntry(f[k - 1], Tar[k], TRUE) IN InsertChild(e, 0, Max(DOMAIN e.entry))
    IN  f[Len(Tar)]

-----------------------------------------------------------------------------
(* init_disk of kernel.cpp: one drive after the other.                       *)

Optical == {"PATAPI", "SATAPI"}
Fixed == {"PATA", "SATA"}

NamesStay(kind) == 1                            \* mutant: the counter is not advanced
NameIndex(kind) == 1 + Cardinality({k \in DOMAIN types : types[k] \in kind})

InitDrive(t, garbage) ==
    LET k == Len(types) + 1 IN
    /\ k <= Len(Drives)
    /\ types' = Append(types, t)
    /\ select' = IF t \in Fixed /\ select = 0 THEN k ELSE select
    /\ CASE t \in Optical -> AddDevice(Drives[k], <<"dev", CdNames[NameIndex(Optical)]>>, garbage)
         [] t \in Fixed -> AddDevice(Drives[k], <<"dev", HdNames[NameIndex(Fixed)]>>, garbage)
         [] OTHER -> UNCHANGED <<vfs, added, ret>>
    /\ UNCHANGED calls

\* With no PATA or SATA drive the kernel stops.
Running == Len(types) = Len(Drives) /\ select # 0 /\ calls < MaxCalls

-----------------------------------------------------------------------------
(* The calls that vfs.h offers.                                              *)

add_device(dev, path, garbage) ==
    /\ Running /\ calls' = calls + 1
    /\ AddDevice(dev, path, garbage)
    /\ UNCHANGED <<types, select>>

vfs_get_file(path, garbage) ==
    /\ Running /\ calls' = calls + 1
    /\ vfs' = GetTreeNode(path, garbage) /\ ret' = "SUCCESS"
    /\ UNCHANGED <<types, select, added>>

vfs_mount(path, impl, garbage) ==
    /\ Running /\ calls' = calls + 1
    /\ LET st == GetTreeNode(path, garbage)
           used == st.entry[st.node[0].value].file
       IN  /\ ret' = IF used THEN "EUSED" ELSE IF impl = "USTAR" THEN "SUCCESS" ELSE "EINVAL"
           /\ vfs' = IF ret' = "SUCCESS" THEN MountTar(st) ELSE st
    /\ UNCHANGED <<types, select, added>>

\* A path that does not start with '/': ERELATIVE, before anything is done.
relative_path ==
    /\ Running /\ calls' = calls + 1
    /\ ret' = "ERELATIVE"
    /\ UNCHANGED <<vfs, types, select, added>>

-----------------------------------------------------------------------------
\* install_vfs; at address 0 is what the firmware left there.
Init == /\ vfs = [node |-> [n \in 0 .. Root |-> NewNode(n)],
                  entry |-> [n \in {1} |-> [name |-> "[root]", file |-> FALSE, dev |-> NoDevice]],
                  nodes |-> 0]
        /\ types = <<>> /\ select = 0 /\ ret = "SUCCESS" /\ calls = 0
        /\ added = [p \in {} |-> NoDevice]

Next == \/ relative_path
        \/ \E garbage \in BOOLEAN :
            \/ \E t \in Types : InitDrive(t, garbage)
            \/ \E p \in Paths : \/ \E d \in Range(Drives) : add_device(d, p, garbage)
                                \/ vfs_get_file(p, garbage)
                                \/ \E impl \in {"USTAR", "other"} : vfs_mount(p, impl, garbage)

Spec == Init /\ [][Next]_vars

-----------------------------------------------------------------------------
(* Properties.                                                              *)

\* The node a path leads to, Null where one of its names is missing.
Find(path) ==
    LET w[k \in 0 .. Len(path)] ==
            IF k = 0 THEN Root
            ELSE LET at == w[k - 1] IN IF at = Null THEN Null ELSE GetChild(vfs, at, path[k])
    IN  w[Len(path)]

DeviceAt(path) == LET n == Find(path)
                  IN  IF n = Null THEN NoDevice ELSE vfs.entry[vfs.node[n].value].dev

Nodes == DOMAIN vfs.node \ {0}

TypeOK == /\ 0 \in DOMAIN vfs.node /\ Root \in Nodes
          /\ \A n \in Nodes : /\ vfs.node[n].value \in DOMAIN vfs.entry
                              /\ {vfs.node[n].next, vfs.node[n].children} \subseteq Nodes \cup {Null}
          /\ select \in 0 .. Len(types) /\ Len(types) <= Len(Drives)
          /\ ret \in {"SUCCESS", "EUSED", "EINVAL", "ERELATIVE"} /\ calls \in 0 .. MaxCalls

\* The lists form a forest: no node is in two lists or in one list twice, the
\* copy at address 0 is in none, and each list ends.
ForestOK ==
    /\ TypeOK
    /\ \A n \in Nodes : Cardinality({m \in Nodes : vfs.node[m].next = n}
                                  \cup {m \in Nodes : vfs.node[m].children = n}) <= 1
    /\ \A n \in Nodes : LET c == Children(vfs, n) IN IsInjective(c) /\ (c # <<>> => vfs.node[Last(c)].next = Null)
    /\ \A n \in Nodes : vfs.node[n].childs <= Len(Children(vfs, n))

\* Whatever was looked up, added or mounted since, a device is found under the
\* name it was added with, until another one is added there.
DevicesFound == \A p \in DOMAIN added : DeviceAt(p) = added[p]

\* When init_disk is done every drive it found has a name of its own, and the
\* one it returns is the first under /dev/hda.
DrivesNamed ==
    Len(types) = Len(Drives) /\ calls = 0 =>
        /\ \A k \in DOMAIN types : types[k] \in Optical \cup Fixed =>
              \E n \in Range(IF types[k] \in Fixed THEN HdNames ELSE CdNames) :
                 DeviceAt(<<"dev", n>>) = Drives[k]
        /\ select # 0 => DeviceAt(<<"dev", HdNames[1]>>) = Drives[select]
=============================================================================
