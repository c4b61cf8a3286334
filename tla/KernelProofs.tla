---------------------------- MODULE KernelProofs ----------------------------
(***************************************************************************)
(* What kernel.cpp relies on: the tree of names under which init_disk puts  *)
(* the drives and from which the kernel reads, for any drives, any names    *)
(* and any sequence of calls, and the menu in which it selects a mode, for  *)
(* any number of modes and any length of the sleep.                        *)
(***************************************************************************)
EXTENDS Vfs, VgaSelect, WellFoundedInduction, FiniteSetTheorems, TLAPS

-----------------------------------------------------------------------------
(* Induction over numbers, by sets, and the functions that recursion defines. *)

\* A set of numbers that is not empty has a least element.
LEMMA Least ==
  ASSUME NEW K \in SUBSET Nat, K # {}
  PROVE  \E k \in K : \A j \in K : k <= j
<1> DEFINE R == OpToRel(<, Nat)
<1>1. IsWellFoundedOn(R, Nat)
  BY NatLessThanWellFounded
<1>2. \A x, y \in Nat : <<y, x>> \in R <=> y < x
  BY DEF OpToRel
<1> HIDE DEF R
<1>3. \E x \in K : \A y \in K : <<y, x>> \notin R
  BY <1>1, WFMin, Zenon
<1>4. PICK x \in K : \A y \in K : <<y, x>> \notin R
  BY <1>3
<1>5. \A y \in K : ~(y < x)
  BY <1>2, <1>4
<1>6. \A y \in K : x <= y
  BY <1>5
<1> QED
  BY <1>6

\* A set of numbers that holds 0 and the successor of each of its elements is Nat.
LEMMA Successors ==
  ASSUME NEW K \in SUBSET Nat, 0 \in K, \A k \in K : k + 1 \in K
  PROVE  K = Nat
<1> SUFFICES ASSUME Nat \ K # {} PROVE FALSE
  OBVIOUS
<1>1. PICK n \in Nat \ K : \A j \in Nat \ K : n <= j
  BY Least
<1>2. n # 0 /\ n - 1 \in Nat /\ n - 1 < n /\ (n - 1) + 1 = n
  BY <1>1
<1>3. n - 1 \in K
  BY <1>1, <1>2
<1> QED
  BY <1>1, <1>2, <1>3

\* What n steps make of x, step k of them being F[k, _]; there is such a function.
Histories(P, n, x, F) ==
  {h \in [0 .. n -> P] : \A k \in 0 .. n : h[k] = IF k = 0 THEN x ELSE F[<<k, h[k - 1]>>]}

LEMMA HistoryExists ==
  ASSUME NEW P, NEW x \in P, NEW F \in [Nat \X P -> P], NEW n \in Nat
  PROVE  Histories(P, n, x, F) # {}
<1> DEFINE T == {m \in Nat : Histories(P, m, x, F) # {}}
<1>1. 0 \in T
  <2> DEFINE h == [k \in 0 .. 0 |-> x]
  <2>1. h \in Histories(P, 0, x, F)
    BY DEF Histories
  <2> QED
    BY <2>1
<1>2. ASSUME NEW m \in T PROVE m + 1 \in T
  <2>1. PICK f \in [0 .. m -> P] : \A k \in 0 .. m : f[k] = IF k = 0 THEN x ELSE F[<<k, f[k - 1]>>]
    BY DEF Histories
  <2>2. m \in Nat /\ m + 1 \in Nat /\ m \in 0 .. m /\ (m + 1) - 1 = m /\ m + 1 # 0
    OBVIOUS
  <2> DEFINE v == F[<<m + 1, f[m]>>]
             h == [k \in 0 .. (m + 1) |-> IF k = m + 1 THEN v ELSE f[k]]
  <2>3. v \in P
    <3>1. <<m + 1, f[m]>> \in Nat \X P
      BY <2>1, <2>2
    <3> QED
      BY <3>1
  <2>4. h \in [0 .. (m + 1) -> P]
    <3> HIDE DEF v
    <3>1. \A k \in 0 .. (m + 1) : k # m + 1 => k \in 0 .. m
      BY <2>2
    <3> QED
      BY <2>1, <2>3, <3>1
  <2>5. \A k \in 0 .. m : h[k] = f[k]
    BY <2>2
  <2>6. h[m + 1] = v
    BY <2>2
  <2> HIDE DEF h
  <2>7. ASSUME NEW k \in 0 .. (m + 1)
        PROVE  h[k] = IF k = 0 THEN x ELSE F[<<k, h[k - 1]>>]
    <3>1. CASE k = m + 1
      BY <2>2, <2>5, <2>6, <3>1
    <3>2. CASE k # m + 1
      <4>1. k \in 0 .. m
        BY <2>2, <3>2
      <4>2. k # 0 => k - 1 \in 0 .. m
        BY <2>2, <4>1
      <4> QED
        BY <2>1, <2>5, <4>1, <4>2
    <3> QED
      BY <3>1, <3>2
  <2>8. h \in Histories(P, m + 1, x, F)
    BY <2>4, <2>7 DEF Histories
  <2> QED
    BY <2>2, <2>8
<1>3. T \subseteq Nat
  OBVIOUS
<1> HIDE DEF T
<1>4. n \in T
  BY <1>1, <1>2, <1>3, Successors
<1> QED
  BY <1>4 DEF T

-----------------------------------------------------------------------------

-----------------------------------------------------------------------------
(* The tree that a state of the store holds.                                 *)

Names == {"[root]", "ustar", "dev"} \cup UNION {Range(l) : l \in {Tar, HdNames, CdNames} \cup Paths}
Devices == Range(Drives) \cup {NoDevice}

NodeRec == [value : Nat, next : Nat, children : Nat, childs : Nat]
EntryRec == [name : Names, file : BOOLEAN, dev : Devices]
Stores == [node : UNION {[0 .. n -> NodeRec] : n \in Nat},
           entry : UNION {[1 .. n -> EntryRec] : n \in Nat},
           nodes : Nat]

NodesOf(st) == DOMAIN st.node \ {0}

\* Nodes point to younger ones: no chain of pointers comes back.
Pointers(st) ==
  /\ Root \in DOMAIN st.node /\ 1 \in DOMAIN st.entry
  /\ \A p \in DOMAIN st.node :
        /\ st.node[p].next \in DOMAIN st.node /\ st.node[p].children \in DOMAIN st.node
        /\ st.node[p].children # Null => st.node[p].childs # 0
  /\ \A p \in NodesOf(st) :
        /\ st.node[p].value \in DOMAIN st.entry
        /\ st.node[p].next # Null => p < st.node[p].next
        /\ st.node[p].children # Null => p < st.node[p].children

\* No two nodes share an entry, a next one or a first child.
Apart(st) ==
  /\ \A p, q \in NodesOf(st) : p # q =>
        /\ st.node[p].value # st.node[q].value
        /\ st.node[p].next = st.node[q].next => st.node[p].next = Null
        /\ st.node[p].children = st.node[q].children => st.node[p].children = Null
  /\ \A p, q \in NodesOf(st) : st.node[p].next = st.node[q].children => st.node[p].next = Null

\* Every node has one path, whatever its parent: B is the part above its name.
PathOf(st, B, n) == IF n = Root THEN <<>> ELSE Append(B[n], NameOf(st, n))
Labels(st, B) ==
  /\ B \in [NodesOf(st) -> Seq(Names)]
  /\ \A p \in NodesOf(st) :
        /\ st.node[p].next # Null => B[st.node[p].next] = B[p]
        /\ st.node[p].children # Null => B[st.node[p].children] = PathOf(st, B, p)

Tree(st) == st \in Stores /\ Pointers(st) /\ Apart(st) /\ \E B : Labels(st, B)

\* The parent's count is no more than its list: what was appended through a copy
\* of the parent is not in it.
Counted(st) == \A p \in NodesOf(st) : st.node[p].childs <= Len(Children(st, p))

Good(st) == Tree(st) /\ Counted(st)

\* s is the beginning of the list of p, and the list itself.
IsChain(st, p, s) ==
  /\ s \in Seq(NodesOf(st))
  /\ Len(s) > 0 => s[1] = st.node[p].children
  /\ \A i \in 1 .. Len(s) - 1 : s[i + 1] = st.node[s[i]].next
  /\ \A i \in 1 .. Len(s) : i <= s[i]
  /\ \A i, j \in 1 .. Len(s) : i < j => s[i] < s[j]
Ends(st, p, s) == IF Len(s) = 0 THEN st.node[p].children = Null ELSE st.node[s[Len(s)]].next = Null
IsList(st, p, s) == IsChain(st, p, s) /\ Ends(st, p, s)

\* The addresses of a store are the numbers up to the last one.
LEMMA StoreShape ==
  ASSUME NEW st \in Stores
  PROVE  \E n, m \in Nat : /\ st.node \in [0 .. n -> NodeRec] /\ DOMAIN st.node = 0 .. n
                           /\ st.entry \in [1 .. m -> EntryRec] /\ DOMAIN st.entry = 1 .. m
<1>1. /\ st.node \in UNION {[0 .. n -> NodeRec] : n \in Nat}
      /\ st.entry \in UNION {[1 .. n -> EntryRec] : n \in Nat}
  BY DEF Stores
<1>2. PICK n \in Nat : st.node \in [0 .. n -> NodeRec]
  BY <1>1, Zenon
<1>3. PICK m \in Nat : st.entry \in [1 .. m -> EntryRec]
  BY <1>1, Zenon
<1> QED
  BY <1>2, <1>3

LEMMA NodeTyped ==
  ASSUME NEW r \in NodeRec
  PROVE  r.value \in Nat /\ r.next \in Nat /\ r.children \in Nat /\ r.childs \in Nat
BY DEF NodeRec

LEMMA StoreMade ==
  ASSUME NEW n \in Nat, NEW m \in Nat, NEW k \in Nat,
         NEW st, st = [node |-> st.node, entry |-> st.entry, nodes |-> st.nodes],
         st.node \in [0 .. n -> NodeRec], st.entry \in [1 .. m -> EntryRec], st.nodes = k
  PROVE  st \in Stores
<1> PICK N, E : N = UNION {[0 .. i -> NodeRec] : i \in Nat} /\ E = UNION {[1 .. i -> EntryRec] : i \in Nat}
  OBVIOUS
<1>1. st.node \in N
  BY Zenon
<1>2. st.entry \in E
  BY Zenon
<1>3. st \in [node : N, entry : E, nodes : Nat]
  BY <1>1, <1>2
<1> QED
  BY <1>3 DEF Stores

LEMMA ValueWritten ==
  ASSUME NEW r \in NodeRec, NEW k \in Nat, NEW x, x = [r EXCEPT !.value = k]
  PROVE  x \in NodeRec /\ x.next = r.next /\ x.children = r.children /\ x.childs = r.childs
<1>1. r = [value |-> r.value, next |-> r.next, children |-> r.children, childs |-> r.childs]
  BY DEF NodeRec
<1>2. x = [value |-> k, next |-> r.next, children |-> r.children, childs |-> r.childs]
  BY <1>1
<1> QED
  BY <1>2, NodeTyped DEF NodeRec

\* One field of a node is written.
LEMMA NodeWritten ==
  ASSUME NEW r \in NodeRec, NEW k \in Nat
  PROVE  /\ [r EXCEPT !.value = k] \in NodeRec /\ [r EXCEPT !.next = k] \in NodeRec
         /\ [r EXCEPT !.children = k] \in NodeRec /\ [r EXCEPT !.childs = k] \in NodeRec
         /\ [r EXCEPT !.value = k].next = r.next /\ [r EXCEPT !.value = k].children = r.children
         /\ [r EXCEPT !.value = k].childs = r.childs
         /\ [r EXCEPT !.next = k].value = r.value /\ [r EXCEPT !.next = k].children = r.children
         /\ [r EXCEPT !.next = k].childs = r.childs /\ [r EXCEPT !.next = k].next = k
         /\ [r EXCEPT !.children = k].value = r.value /\ [r EXCEPT !.children = k].next = r.next
         /\ [r EXCEPT !.children = k].childs = r.childs /\ [r EXCEPT !.children = k].children = k
         /\ [r EXCEPT !.childs = k].value = r.value /\ [r EXCEPT !.childs = k].next = r.next
         /\ [r EXCEPT !.childs = k].children = r.children /\ [r EXCEPT !.childs = k].childs = k
<1>1. r = [value |-> r.value, next |-> r.next, children |-> r.children, childs |-> r.childs]
  BY DEF NodeRec
<1>2. r.value \in Nat /\ r.next \in Nat /\ r.children \in Nat /\ r.childs \in Nat
  BY NodeTyped
<1>3. [r EXCEPT !.value = k] = [value |-> k, next |-> r.next, children |-> r.children, childs |-> r.childs]
  BY <1>1
<1>4. [r EXCEPT !.next = k] = [value |-> r.value, next |-> k, children |-> r.children, childs |-> r.childs]
  BY <1>1
<1>5. [r EXCEPT !.children = k] = [value |-> r.value, next |-> r.next, children |-> k, childs |-> r.childs]
  BY <1>1
<1>6. [r EXCEPT !.childs = k] = [value |-> r.value, next |-> r.next, children |-> r.children, childs |-> k]
  BY <1>1
<1>7. /\ [r EXCEPT !.value = k] \in NodeRec
      /\ [r EXCEPT !.value = k].next = r.next /\ [r EXCEPT !.value = k].children = r.children
      /\ [r EXCEPT !.value = k].childs = r.childs
  BY <1>2, <1>3 DEF NodeRec
<1>8. /\ [r EXCEPT !.next = k] \in NodeRec
      /\ [r EXCEPT !.next = k].value = r.value /\ [r EXCEPT !.next = k].children = r.children
      /\ [r EXCEPT !.next = k].childs = r.childs /\ [r EXCEPT !.next = k].next = k
  BY <1>2, <1>4 DEF NodeRec
<1>9. /\ [r EXCEPT !.children = k] \in NodeRec
      /\ [r EXCEPT !.children = k].value = r.value /\ [r EXCEPT !.children = k].next = r.next
      /\ [r EXCEPT !.children = k].childs = r.childs /\ [r EXCEPT !.children = k].children = k
  BY <1>2, <1>5 DEF NodeRec
<1>10. /\ [r EXCEPT !.childs = k] \in NodeRec
       /\ [r EXCEPT !.childs = k].value = r.value /\ [r EXCEPT !.childs = k].next = r.next
       /\ [r EXCEPT !.childs = k].children = r.children /\ [r EXCEPT !.childs = k].childs = k
  BY <1>2, <1>6 DEF NodeRec
<1> QED
  BY <1>7, <1>8, <1>9, <1>10, Zenon

LEMMA LastAddress ==
  ASSUME NEW f, NEW m \in Nat, NEW n \in Nat, m <= n, DOMAIN f = m .. n
  PROVE  Max(DOMAIN f) = n /\ Fresh(f) = n + 1
<1>1. Max(m .. n) = n
  BY DEF Max
<1> QED
  BY <1>1 DEF Fresh

LEMMA Addresses ==
  ASSUME NEW n \in Nat
  PROVE  Cardinality(0 .. n) = n + 1
BY FS_Interval

\* A chain goes on with what its last node points to.
LEMMA ChainGoesOn ==
  ASSUME NEW st, Tree(st), NEW p \in DOMAIN st.node, NEW s, IsChain(st, p, s),
         NEW c, c = IF s = <<>> THEN st.node[p].children ELSE st.node[Last(s)].next
  PROVE  /\ c = Null <=> Ends(st, p, s)
         /\ c # Null => IsChain(st, p, Append(s, c))
<1> PICK n \in Nat : st.node \in [0 .. n -> NodeRec] /\ DOMAIN st.node = 0 .. n
  BY StoreShape DEF Tree
<1>1. s \in Seq(NodesOf(st)) /\ Len(s) \in Nat /\ NodesOf(st) = 1 .. n
  BY DEF IsChain, NodesOf
<1>2. s = <<>> <=> Len(s) = 0
  BY <1>1
<1>3. Len(s) # 0 => Last(s) = s[Len(s)] /\ s[Len(s)] \in 1 .. n
  BY <1>1, <1>2 DEF Last
<1>4. c = Null <=> Ends(st, p, s)
  BY <1>1, <1>2, <1>3 DEF Ends
<1>5. ASSUME c # Null PROVE IsChain(st, p, Append(s, c))
  <2>1. c \in 1 .. n
    <3>1. st.node[p].children \in 0 .. n
      BY DEF Tree, Pointers
    <3>2. Len(s) # 0 => st.node[s[Len(s)]].next \in 0 .. n
      BY <1>3 DEF Tree, Pointers
    <3> QED
      BY <1>2, <1>3, <1>5, <3>1, <3>2 DEF Null
  <2>2. Len(s) # 0 => s[Len(s)] < c
    <3>1. ASSUME NEW q \in 1 .. n, st.node[q].next # Null PROVE q < st.node[q].next
      BY <1>1, <3>1 DEF Tree, Pointers
    <3> QED
      BY <1>2, <1>3, <1>5, <3>1
  <2> DEFINE t == Append(s, c)
  <2>3. /\ t \in Seq(1 .. n) /\ Len(t) = Len(s) + 1 /\ t[Len(s) + 1] = c
        /\ \A i \in 1 .. Len(s) : t[i] = s[i]
    BY <1>1, <2>1
  <2> HIDE DEF t
  <2>4. \A i \in 1 .. Len(s) : s[i] \in 1 .. n /\ i <= s[i] /\ s[i] <= s[Len(s)]
    <3> TAKE i \in 1 .. Len(s)
    <3>1. s[i] \in 1 .. n /\ s[Len(s)] \in 1 .. n /\ Len(s) \in 1 .. Len(s)
      BY <1>1, <1>3
    <3>2. i <= s[i] /\ (i < Len(s) => s[i] < s[Len(s)])
      BY <3>1 DEF IsChain
    <3> QED
      BY <1>1, <3>1, <3>2
  <2>5. t[1] = st.node[p].children
    <3>1. CASE Len(s) = 0
      BY <1>2, <2>3, <3>1
    <3>2. CASE Len(s) # 0
      <4>1. 1 \in 1 .. Len(s) /\ Len(s) > 0
        BY <1>1, <3>2
      <4> QED
        BY <2>3, <4>1 DEF IsChain
    <3> QED
      BY <3>1, <3>2
  <2>6. ASSUME NEW i \in 1 .. Len(t) - 1 PROVE t[i + 1] = st.node[t[i]].next
    <3>1. CASE i = Len(s)
      BY <1>1, <1>2, <1>3, <2>3, <3>1
    <3>2. CASE i # Len(s)
      <4>1. i \in 1 .. Len(s) - 1 /\ i \in 1 .. Len(s) /\ i + 1 \in 1 .. Len(s)
        BY <1>1, <2>3, <3>2
      <4> QED
        BY <2>3, <4>1 DEF IsChain
    <3> QED
      BY <3>1, <3>2
  <2>7. ASSUME NEW i \in 1 .. Len(t) PROVE i <= t[i]
    <3>1. CASE i = Len(s) + 1
      <4>1. Len(s) # 0 => Len(s) <= s[Len(s)]
        BY <1>1, <2>4
      <4> QED
        BY <1>1, <1>3, <2>1, <2>2, <2>3, <3>1, <4>1
    <3>2. CASE i # Len(s) + 1
      <4>1. i \in 1 .. Len(s)
        BY <1>1, <2>3, <3>2
      <4> QED
        BY <2>3, <2>4, <4>1
    <3> QED
      BY <3>1, <3>2
  <2>8. ASSUME NEW i \in 1 .. Len(t), NEW j \in 1 .. Len(t), i < j PROVE t[i] < t[j]
    <3>1. i \in 1 .. Len(s) /\ Len(s) # 0
      BY <1>1, <2>3, <2>8
    <3>2. CASE j = Len(s) + 1
      BY <1>3, <2>1, <2>2, <2>3, <2>4, <3>1, <3>2
    <3>3. CASE j # Len(s) + 1
      <4>1. j \in 1 .. Len(s)
        BY <1>1, <2>3, <3>3
      <4> QED
        BY <2>3, <2>8, <3>1, <4>1 DEF IsChain
    <3> QED
      BY <3>2, <3>3
  <2> QED
    BY <1>1, <2>3, <2>5, <2>6, <2>7, <2>8 DEF IsChain, t
<1> QED
  BY <1>4, <1>5

\* A store has one list for each node.
LEMMA ListUnique ==
  ASSUME NEW st, NEW p, NEW s, NEW t, IsList(st, p, s), IsList(st, p, t)
  PROVE  s = t
<1>1. s \in Seq(NodesOf(st)) /\ t \in Seq(NodesOf(st)) /\ Len(s) \in Nat /\ Len(t) \in Nat
  BY DEF IsList, IsChain
<1>2. /\ \A i \in 1 .. Len(s) : s[i] \in NodesOf(st) /\ s[i] # Null
      /\ \A i \in 1 .. Len(t) : t[i] \in NodesOf(st) /\ t[i] # Null
  BY <1>1 DEF NodesOf, Null
<1> DEFINE K == {k \in Nat : k < Len(s) => k < Len(t) /\ s[k + 1] = t[k + 1]}
<1>3. 0 \in K
  <2>1. Len(s) = 0 <=> Len(t) = 0
    BY <1>1, <1>2 DEF IsList, IsChain, Ends
  <2> QED
    BY <1>1, <2>1 DEF IsList, IsChain
<1>4. ASSUME NEW k \in K PROVE k + 1 \in K
  <2> SUFFICES ASSUME k + 1 < Len(s) PROVE k + 1 < Len(t) /\ s[k + 2] = t[k + 2]
    OBVIOUS
  <2>1. /\ k + 1 \in 1 .. Len(s) - 1 /\ k + 2 \in 1 .. Len(s) /\ k + 1 \in 1 .. Len(t)
        /\ s[k + 1] = t[k + 1] /\ (k + 1) + 1 = k + 2
    BY <1>1
  <2>2. s[k + 2] = st.node[s[k + 1]].next /\ s[k + 2] # Null
    BY <1>2, <2>1 DEF IsList, IsChain
  <2>3. k + 1 # Len(t)
    BY <1>1, <2>1, <2>2 DEF IsList, Ends
  <2>4. k + 1 \in 1 .. Len(t) - 1
    BY <1>1, <2>1, <2>3
  <2> QED
    BY <1>1, <2>1, <2>2, <2>4 DEF IsList, IsChain
<1>5. K \subseteq Nat
  OBVIOUS
<1> HIDE DEF K
<1>6. K = Nat
  BY <1>3, <1>4, <1>5, Successors
<1>7. \A i \in 1 .. Len(s) : i <= Len(t) /\ s[i] = t[i]
  <2> TAKE i \in 1 .. Len(s)
  <2>1. i - 1 \in K /\ i - 1 < Len(s) /\ (i - 1) + 1 = i
    BY <1>1, <1>6
  <2> QED
    BY <1>1, <2>1 DEF K
<1>8. Len(s) <= Len(t)
  BY <1>1, <1>7
<1>9. Len(s) = Len(t)
  <2> SUFFICES ASSUME Len(s) < Len(t) PROVE FALSE
    BY <1>1, <1>8
  <2>1. CASE Len(s) = 0
    BY <1>1, <1>2, <2>1 DEF IsList, IsChain, Ends
  <2>2. CASE Len(s) # 0
    <3>1. Len(s) \in 1 .. Len(t) - 1 /\ Len(s) \in 1 .. Len(s) /\ Len(s) + 1 \in 1 .. Len(t)
      BY <1>1, <2>2
    <3>2. st.node[s[Len(s)]].next = Null
      BY <2>2 DEF IsList, Ends
    <3>3. t[Len(s) + 1] = st.node[t[Len(s)]].next
      BY <3>1 DEF IsList, IsChain
    <3> QED
      BY <1>2, <1>7, <3>1, <3>2, <3>3
  <2> QED
    BY <2>1, <2>2
<1> QED
  BY <1>1, <1>7, <1>9

\* Children walks to the end of the list: it takes as many steps as there are
\* addresses, and a list that grows with every step has no more nodes than that.
LEMMA ChildrenList ==
  ASSUME NEW st, Tree(st), NEW p \in DOMAIN st.node
  PROVE  IsList(st, p, Children(st, p))
<1> PICK n \in Nat : st.node \in [0 .. n -> NodeRec] /\ DOMAIN st.node = 0 .. n
  BY StoreShape DEF Tree
<1> DEFINE From(s) == IF s = <<>> THEN st.node[p].children ELSE st.node[Last(s)].next
           Longer(s) == IF From(s) = Null THEN s ELSE Append(s, From(s))
           P == {s \in Seq(NodesOf(st)) : IsChain(st, p, s)}
           F == [q \in Nat \X P |-> Longer(q[2])]
           Along(f) == f = [k \in 0 .. n + 1 |-> IF k = 0 THEN <<>> ELSE Longer(f[k - 1])]
           w == CHOOSE f : Along(f)
<1>1. Children(st, p) = w[n + 1]
  <2>1. Cardinality(DOMAIN st.node) = n + 1
    BY Addresses
  <2> QED
    BY <2>1, Zenon DEF Children
<1>2. ASSUME NEW s \in P PROVE Longer(s) \in P
  <2>1. CASE From(s) = Null
    BY <2>1
  <2>2. CASE From(s) # Null
    <3>1. IsChain(st, p, Append(s, From(s)))
      BY <2>2, ChainGoesOn
    <3> QED
      BY <2>2, <3>1 DEF IsChain
  <2> QED
    BY <2>1, <2>2
<1>3. <<>> \in P
  BY DEF IsChain
<1> HIDE DEF Longer
<1>4. F \in [Nat \X P -> P]
  <2>1. \A q \in Nat \X P : q[2] \in P
    OBVIOUS
  <2>2. \A q \in Nat \X P : Longer(q[2]) \in P
    BY <1>2, <2>1
  <2> QED
    BY <2>2
<1>5. \A k \in Nat, s \in P : F[<<k, s>>] = Longer(s)
  OBVIOUS
<1> HIDE DEF P
<1> HIDE DEF F
<1>6. Histories(P, n + 1, <<>>, F) # {}
  <2>1. n + 1 \in Nat
    OBVIOUS
  <2> QED
    BY <1>3, <1>4, <2>1, HistoryExists
<1>7. PICK h \in [0 .. n + 1 -> P] : \A k \in 0 .. n + 1 : h[k] = IF k = 0 THEN <<>> ELSE F[<<k, h[k - 1]>>]
  BY <1>6 DEF Histories
<1>8. ASSUME NEW k \in 0 .. n + 1 PROVE h[k] = IF k = 0 THEN <<>> ELSE Longer(h[k - 1])
  <2>1. k # 0 => k \in Nat /\ k - 1 \in 0 .. n + 1
    OBVIOUS
  <2>2. k # 0 => h[k - 1] \in P
    BY <1>7, <2>1
  <2> QED
    BY <1>5, <1>7, <2>1, <2>2
<1>9. Along(h)
  BY <1>7, <1>8
<1> PICK u : u = w
  OBVIOUS
<1>10. Along(u)
  <2> HIDE DEF Along
  <2> QED
    BY <1>9
<1>11. Children(st, p) = u[n + 1]
  BY <1>1
<1> HIDE DEF w
<1> DEFINE K == {k \in Nat : k <= n + 1 => u[k] \in P /\ (Ends(st, p, u[k]) \/ Len(u[k]) = k)}
<1>12. 0 \in K
  BY <1>3, <1>10
<1>13. ASSUME NEW k \in K PROVE k + 1 \in K
  <2> SUFFICES ASSUME k + 1 <= n + 1
               PROVE  u[k + 1] \in P /\ (Ends(st, p, u[k + 1]) \/ Len(u[k + 1]) = k + 1)
    OBVIOUS
  <2>1. /\ k + 1 \in 0 .. n + 1 /\ k + 1 # 0 /\ (k + 1) - 1 = k
        /\ u[k] \in P /\ (Ends(st, p, u[k]) \/ Len(u[k]) = k)
    OBVIOUS
  <2>2. u[k + 1] = Longer(u[k])
    BY <1>10, <2>1
  <2>3. IsChain(st, p, u[k])
    BY <2>1 DEF P
  <2>4. From(u[k]) = Null <=> Ends(st, p, u[k])
    BY <2>3, ChainGoesOn
  <2> HIDE DEF From
  <2>5. CASE From(u[k]) = Null
    BY <2>1, <2>2, <2>4, <2>5 DEF Longer
  <2>6. CASE From(u[k]) # Null
    <3>1. Len(Append(u[k], From(u[k]))) = Len(u[k]) + 1
      BY <2>1 DEF P
    <3> QED
      BY <1>2, <2>1, <2>2, <2>4, <2>6, <3>1 DEF Longer
  <2> QED
    BY <2>5, <2>6
<1>14. K \subseteq Nat
  OBVIOUS
<1> HIDE DEF K
<1>15. K = Nat
  BY <1>12, <1>13, <1>14, Successors
<1>16. u[n + 1] \in P /\ (Ends(st, p, u[n + 1]) \/ Len(u[n + 1]) = n + 1)
  BY <1>15 DEF K
<1>17. IsChain(st, p, u[n + 1])
  BY <1>16 DEF P
<1>18. Len(u[n + 1]) # n + 1
  <2> SUFFICES ASSUME Len(u[n + 1]) = n + 1 PROVE FALSE
    OBVIOUS
  <2>1. n + 1 \in 1 .. Len(u[n + 1])
    OBVIOUS
  <2>2. u[n + 1][n + 1] \in NodesOf(st)
    BY <1>17, <2>1 DEF IsChain
  <2>3. n + 1 <= u[n + 1][n + 1]
    BY <1>17, <2>1 DEF IsChain
  <2> QED
    BY <2>2, <2>3 DEF NodesOf
<1> QED
  BY <1>11, <1>16, <1>17, <1>18 DEF IsList

\* What a list is made of.
LEMMA ListFacts ==
  ASSUME NEW st, Tree(st), NEW p \in DOMAIN st.node, NEW s, s = Children(st, p)
  PROVE  /\ s \in Seq(NodesOf(st)) /\ IsInjective(s)
         /\ s = <<>> <=> st.node[p].children = Null
         /\ s # <<>> => /\ s[1] = st.node[p].children /\ Last(s) = s[Len(s)]
                        /\ Last(s) \in NodesOf(st) /\ st.node[Last(s)].next = Null
         /\ \A i \in 1 .. Len(s) - 1 : s[i + 1] = st.node[s[i]].next /\ st.node[s[i]].next # Null
<1>1. IsList(st, p, s)
  BY ChildrenList
<1>2. s \in Seq(NodesOf(st)) /\ Len(s) \in Nat
  BY <1>1 DEF IsList, IsChain
<1>3. \A i \in 1 .. Len(s) : s[i] \in NodesOf(st) /\ s[i] # Null
  BY <1>2 DEF NodesOf, Null
<1>4. s = <<>> <=> Len(s) = 0
  BY <1>2
<1>5. s = <<>> <=> st.node[p].children = Null
  <2>1. CASE Len(s) = 0
    BY <1>1, <1>4, <2>1 DEF IsList, Ends
  <2>2. CASE Len(s) # 0
    <3>1. 1 \in 1 .. Len(s) /\ Len(s) > 0
      BY <1>2, <2>2
    <3> QED
      BY <1>1, <1>3, <1>4, <3>1 DEF IsList, IsChain
  <2> QED
    BY <2>1, <2>2
<1>6. ASSUME s # <<>>
      PROVE  /\ s[1] = st.node[p].children /\ Last(s) = s[Len(s)]
             /\ Last(s) \in NodesOf(st) /\ st.node[Last(s)].next = Null
  <2>1. Len(s) \in 1 .. Len(s) /\ Len(s) > 0
    BY <1>2, <1>4, <1>6
  <2>2. Last(s) = s[Len(s)]
    BY DEF Last
  <2> QED
    BY <1>1, <1>3, <2>1, <2>2 DEF IsList, IsChain, Ends
<1>7. ASSUME NEW i \in 1 .. Len(s) - 1
      PROVE  s[i + 1] = st.node[s[i]].next /\ st.node[s[i]].next # Null
  <2>1. i + 1 \in 1 .. Len(s)
    BY <1>2
  <2> QED
    BY <1>1, <1>3, <2>1 DEF IsList, IsChain
<1>8. IsInjective(s)
  <2>1. DOMAIN s = 1 .. Len(s)
    BY <1>2
  <2>2. ASSUME NEW i \in 1 .. Len(s), NEW j \in 1 .. Len(s), s[i] = s[j] PROVE i = j
    <3>1. s[i] \in DOMAIN st.node /\ s[j] \in DOMAIN st.node
      BY <1>3 DEF NodesOf
    <3>2. s[i] \in Nat /\ s[j] \in Nat
      <4> PICK n \in Nat : DOMAIN st.node = 0 .. n
        BY StoreShape DEF Tree
      <4> QED
        BY <3>1
    <3>3. (i < j => s[i] < s[j]) /\ (j < i => s[j] < s[i])
      BY <1>1 DEF IsList, IsChain
    <3> QED
      BY <2>2, <3>2, <3>3
  <2> QED
    BY <2>1, <2>2 DEF IsInjective
<1> QED
  BY <1>2, <1>5, <1>6, <1>7, <1>8

\* get_child finds the first node of that name in the list.
FirstNamed(st, s, name, k) == /\ k \in 1 .. Len(s) /\ NameOf(st, s[k]) = name
                              /\ \A j \in 1 .. k - 1 : NameOf(st, s[j]) # name

LEMMA GetChildFacts ==
  ASSUME NEW st, Tree(st), NEW p \in DOMAIN st.node, NEW name, NEW s, s = Children(st, p),
         NEW c, c = GetChild(st, p, name)
  PROVE  /\ \A k : FirstNamed(st, s, name, k) => c = s[k]
         /\ c # Null => c \in NodesOf(st) /\ \E k : FirstNamed(st, s, name, k) /\ c = s[k]
         /\ c = Null <=> \A k \in 1 .. Len(s) : NameOf(st, s[k]) # name
<1>1. s \in Seq(NodesOf(st)) /\ Len(s) \in Nat
  BY ListFacts
<1>2. \A k \in 1 .. Len(s) : s[k] \in NodesOf(st) /\ s[k] # Null /\ st.node[s[k]].value # Null
  <2> PICK m \in Nat : DOMAIN st.entry = 1 .. m
    BY StoreShape DEF Tree
  <2> TAKE k \in 1 .. Len(s)
  <2>1. s[k] \in NodesOf(st)
    BY <1>1
  <2>2. st.node[s[k]].value \in 1 .. m
    BY <2>1 DEF Tree, Pointers
  <2> QED
    BY <2>1, <2>2 DEF NodesOf, Null
<1> DEFINE I == {i \in 1 .. Len(s) : st.node[s[i]].value # Null /\ NameOf(st, s[i]) = name}
           k0 == IF I # {} THEN Min(I) ELSE 0
<1>3. c = IF k0 = 0 THEN Null ELSE s[k0]
  BY Zenon DEF GetChild, SelectInSeq
<1>4. I = {i \in 1 .. Len(s) : NameOf(st, s[i]) = name}
  BY <1>2
<1>5. I # {} => k0 \in I /\ \A j \in I : k0 <= j
  <2> SUFFICES ASSUME I # {} PROVE k0 \in I /\ \A j \in I : k0 <= j
    OBVIOUS
  <2>1. I \subseteq Nat
    BY <1>1
  <2>2. \E k \in I : \A j \in I : k <= j
    <3> HIDE DEF I
    <3> QED
      BY <2>1, Least
  <2>3. k0 = CHOOSE k \in I : \A j \in I : k <= j
    BY Zenon DEF Min
  <2> HIDE DEF I, k0
  <2> QED
    BY <2>2, <2>3, Zenon
<1>6. I = {} => k0 = 0
  OBVIOUS
<1> HIDE DEF k0
<1>7. I # {} => FirstNamed(st, s, name, k0) /\ c = s[k0] /\ c # Null
  <2> SUFFICES ASSUME I # {} PROVE FirstNamed(st, s, name, k0) /\ c = s[k0] /\ c # Null
    OBVIOUS
  <2>1. k0 \in 1 .. Len(s) /\ NameOf(st, s[k0]) = name
    BY <1>4, <1>5
  <2>2. ASSUME NEW j \in 1 .. k0 - 1 PROVE NameOf(st, s[j]) # name
    <3>1. j \in 1 .. Len(s) /\ ~(k0 <= j)
      BY <1>1, <2>1
    <3>2. j \notin I
      BY <1>5, <3>1
    <3> QED
      BY <1>4, <3>1, <3>2
  <2>3. c = s[k0]
    BY <1>3, <2>1
  <2> QED
    BY <1>2, <2>1, <2>2, <2>3 DEF FirstNamed
<1>8. I = {} => c = Null
  BY <1>3, <1>6
<1>9. ASSUME NEW k, FirstNamed(st, s, name, k) PROVE c = s[k]
  <2>1. k \in I /\ k \in 1 .. Len(s)
    BY <1>4, <1>9 DEF FirstNamed
  <2>2. k0 \in 1 .. Len(s) /\ k0 <= k /\ NameOf(st, s[k0]) = name
    BY <1>4, <1>5, <2>1
  <2>3. ~(k0 \in 1 .. k - 1)
    BY <1>9, <2>2 DEF FirstNamed
  <2>4. k0 = k
    BY <1>1, <2>1, <2>2, <2>3
  <2> QED
    BY <1>7, <2>1, <2>4
<1>10. c = Null <=> \A k \in 1 .. Len(s) : NameOf(st, s[k]) # name
  BY <1>4, <1>7, <1>8
<1>11. c # Null => c \in NodesOf(st) /\ \E k : FirstNamed(st, s, name, k) /\ c = s[k]
  <2>1. c # Null => FirstNamed(st, s, name, k0) /\ c = s[k0]
    BY <1>7, <1>8
  <2> QED
    BY <1>2, <2>1 DEF FirstNamed
<1> QED
  BY <1>9, <1>10, <1>11

LEMMA FoundFirst ==
  ASSUME NEW st, Tree(st), NEW p \in DOMAIN st.node, NEW name,
         NEW k, FirstNamed(st, Children(st, p), name, k)
  PROVE  GetChild(st, p, name) = Children(st, p)[k]
BY GetChildFacts

-----------------------------------------------------------------------------
(* Growing.                                                                  *)

\* What is there stays there: the entries, the entry of each node, and the
\* beginning of each list.  The copy at address 0 may change.
Prefix(s, t) == Len(s) <= Len(t) /\ \A i \in 1 .. Len(s) : t[i] = s[i]
Grows(st, new) ==
  /\ DOMAIN st.node \subseteq DOMAIN new.node /\ DOMAIN st.entry \subseteq DOMAIN new.entry
  /\ \A v \in DOMAIN st.entry : new.entry[v] = st.entry[v]
  /\ \A n \in NodesOf(st) : /\ new.node[n].value = st.node[n].value
                            /\ Prefix(Children(st, n), Children(new, n))

\* All that get_child sees of it.
Keeps(st, new) ==
  /\ DOMAIN st.node \subseteq DOMAIN new.node
  /\ \A n \in NodesOf(st) : /\ NameOf(new, n) = NameOf(st, n)
                            /\ Prefix(Children(st, n), Children(new, n))

LEMMA GrowsKeeps ==
  ASSUME NEW st, NEW new, Tree(st), Grows(st, new)
  PROVE  Keeps(st, new)
<1>1. ASSUME NEW n \in NodesOf(st) PROVE NameOf(new, n) = NameOf(st, n)
  <2>1. st.node[n].value \in DOMAIN st.entry
    BY DEF Tree, Pointers
  <2> QED
    BY <2>1 DEF Grows, NameOf
<1> QED
  BY <1>1 DEF Grows, Keeps

LEMMA GrowsReflexive ==
  ASSUME NEW st, Tree(st)
  PROVE  Grows(st, st)
<1>1. \A n \in NodesOf(st) : n \in DOMAIN st.node
  BY DEF NodesOf
<1>2. \A n \in NodesOf(st) : Len(Children(st, n)) \in Nat
  BY <1>1, ListFacts
<1> QED
  BY <1>2 DEF Grows, Prefix

LEMMA GrowsTransitive ==
  ASSUME NEW a, NEW b, NEW c, Tree(a), Tree(b), Tree(c), Grows(a, b), Grows(b, c)
  PROVE  Grows(a, c)
<1>1. NodesOf(a) \subseteq NodesOf(b) /\ NodesOf(b) \subseteq NodesOf(c)
  BY DEF Grows, NodesOf
<1>2. ASSUME NEW n \in NodesOf(a) PROVE Prefix(Children(a, n), Children(c, n))
  <2>1. n \in DOMAIN a.node /\ n \in DOMAIN b.node /\ n \in DOMAIN c.node /\ n \in NodesOf(b)
    BY <1>1 DEF NodesOf
  <2>2. /\ Len(Children(a, n)) \in Nat /\ Len(Children(b, n)) \in Nat /\ Len(Children(c, n)) \in Nat
    BY <2>1, ListFacts
  <2>3. Prefix(Children(a, n), Children(b, n)) /\ Prefix(Children(b, n), Children(c, n))
    BY <2>1 DEF Grows
  <2>4. \A i \in 1 .. Len(Children(a, n)) : i \in 1 .. Len(Children(b, n))
    BY <2>2, <2>3 DEF Prefix
  <2> QED
    BY <2>2, <2>3, <2>4 DEF Prefix
<1>3. \A n \in NodesOf(a) : c.node[n].value = a.node[n].value
  BY <1>1 DEF Grows
<1>4. \A v \in DOMAIN a.entry : c.entry[v] = a.entry[v]
  BY DEF Grows
<1> QED
  BY <1>2, <1>3, <1>4 DEF Grows

\* A child that was found is found again.
LEMMA KeepsFinds ==
  ASSUME NEW st, NEW new, Tree(st), Tree(new), Keeps(st, new), NEW p \in NodesOf(st), NEW name,
         GetChild(st, p, name) # Null
  PROVE  GetChild(new, p, name) = GetChild(st, p, name)
<1> PICK s, t : s = Children(st, p) /\ t = Children(new, p)
  OBVIOUS
<1>1. p \in DOMAIN st.node /\ p \in DOMAIN new.node
  BY DEF NodesOf, Keeps
<1>2. s \in Seq(NodesOf(st)) /\ t \in Seq(NodesOf(new)) /\ Len(s) \in Nat /\ Len(t) \in Nat
  BY <1>1, ListFacts
<1>3. PICK k : FirstNamed(st, s, name, k) /\ GetChild(st, p, name) = s[k]
  BY <1>1, GetChildFacts
<1>4. Len(s) <= Len(t) /\ \A i \in 1 .. Len(s) : t[i] = s[i]
  BY DEF Keeps, Prefix
<1>5. \A i \in 1 .. Len(s) : NameOf(new, t[i]) = NameOf(st, s[i])
  <2> TAKE i \in 1 .. Len(s)
  <2>1. s[i] \in NodesOf(st) /\ t[i] = s[i]
    BY <1>2, <1>4
  <2> QED
    BY <2>1 DEF Keeps
<1>6. k \in 1 .. Len(s) /\ k \in 1 .. Len(t)
  BY <1>2, <1>3, <1>4 DEF FirstNamed
<1>7. FirstNamed(new, t, name, k)
  <2>1. \A j \in 1 .. k - 1 : j \in 1 .. Len(s)
    BY <1>2, <1>6
  <2> QED
    BY <1>3, <1>5, <1>6, <2>1 DEF FirstNamed
<1>8. GetChild(new, p, name) = t[k]
  BY <1>1, <1>7, GetChildFacts
<1> QED
  BY <1>3, <1>4, <1>6, <1>8

\* A chain whose pointers did not change is still one.
LEMMA ChainKept ==
  ASSUME NEW st, NEW new, NodesOf(st) \subseteq NodesOf(new), NEW p, NEW s, IsChain(st, p, s),
         Len(s) > 0 => new.node[p].children = st.node[p].children,
         \A i \in 1 .. Len(s) - 1 : new.node[s[i]].next = st.node[s[i]].next
  PROVE  IsChain(new, p, s)
<1>1. s \in Seq(NodesOf(new))
  BY DEF IsChain
<1> QED
  BY <1>1 DEF IsChain

LEMMA ListKept ==
  ASSUME NEW st, NEW new, Tree(st), Tree(new), NodesOf(st) \subseteq NodesOf(new),
         NEW p \in NodesOf(st), NEW s, s = Children(st, p),
         new.node[p].children = st.node[p].children,
         \A i \in 1 .. Len(s) : new.node[s[i]].next = st.node[s[i]].next
  PROVE  Children(new, p) = s
<1>1. p \in DOMAIN st.node /\ p \in DOMAIN new.node
  BY DEF NodesOf
<1>2. IsList(st, p, s) /\ IsList(new, p, Children(new, p))
  BY <1>1, ChildrenList
<1>3. s \in Seq(NodesOf(st)) /\ Len(s) \in Nat
  BY <1>1, ListFacts
<1>4. \A i \in 1 .. Len(s) - 1 : i \in 1 .. Len(s)
  BY <1>3
<1>5. IsChain(new, p, s)
  BY <1>2, <1>4, ChainKept DEF IsList
<1>6. Ends(new, p, s)
  <2>1. Len(s) # 0 => Len(s) \in 1 .. Len(s)
    BY <1>3
  <2> QED
    BY <1>2, <2>1 DEF IsList, Ends
<1> QED
  BY <1>2, <1>5, <1>6, ListUnique DEF IsList

\* The node c comes to the end of the list s of p.
Linked(st, new, p, s, c) ==
  /\ Tree(st) /\ Tree(new) /\ NodesOf(st) \subseteq NodesOf(new)
  /\ p \in NodesOf(st) /\ s = Children(st, p)
  /\ c \in NodesOf(new) /\ new.node[c].next = Null
  /\ IF s = <<>> THEN new.node[p].children = c
                 ELSE new.node[p].children = st.node[p].children /\ new.node[Last(s)].next = c
  /\ \A i \in 1 .. Len(s) - 1 : new.node[s[i]].next = st.node[s[i]].next

LEMMA ListGrown ==
  ASSUME NEW st, NEW new, NEW p, NEW s, NEW c, Linked(st, new, p, s, c)
  PROVE  Children(new, p) = Append(s, c)
<1> USE DEF Linked
<1>1. p \in DOMAIN st.node /\ p \in DOMAIN new.node /\ c # Null
  BY DEF NodesOf, Null
<1>2. IsList(st, p, s) /\ IsList(new, p, Children(new, p))
  BY <1>1, ChildrenList
<1>3. s \in Seq(NodesOf(new)) /\ Len(s) \in Nat /\ (s = <<>> <=> Len(s) = 0)
  <2>1. s \in Seq(NodesOf(st))
    BY <1>1, ListFacts
  <2> QED
    BY <2>1
<1>4. IsChain(new, p, s)
  BY <1>2, <1>3, ChainKept DEF IsList
<1>5. c = IF s = <<>> THEN new.node[p].children ELSE new.node[Last(s)].next
  OBVIOUS
<1>6. IsChain(new, p, Append(s, c))
  BY <1>1, <1>4, <1>5, ChainGoesOn
<1>7. Ends(new, p, Append(s, c))
  <2>1. Len(Append(s, c)) = Len(s) + 1 /\ Append(s, c)[Len(s) + 1] = c
    BY <1>3
  <2> QED
    BY <1>3, <2>1 DEF Ends
<1> QED
  BY <1>2, <1>6, <1>7, ListUnique DEF IsList

\* The tree is in the nodes but for the copy, and in the names of their entries.
LEMMA SameTree ==
  ASSUME NEW st, Good(st), NEW new \in Stores, DOMAIN new.node = DOMAIN st.node,
         \A q \in NodesOf(st) : new.node[q] = st.node[q],
         DOMAIN st.entry \subseteq DOMAIN new.entry,
         \A v \in DOMAIN st.entry : new.entry[v].name = st.entry[v].name,
         new.node[0].next \in DOMAIN st.node, new.node[0].children \in DOMAIN st.node,
         new.node[0].children # Null => new.node[0].childs # 0
  PROVE  /\ Good(new) /\ NodesOf(new) = NodesOf(st)
         /\ \A q \in NodesOf(st) : Children(new, q) = Children(st, q)
<1>1. Tree(st) /\ Pointers(st) /\ Apart(st) /\ Counted(st)
  BY DEF Good, Tree
<1>2. NodesOf(new) = NodesOf(st)
  BY DEF NodesOf
<1>3. Pointers(new)
  <2>1. ASSUME NEW q \in DOMAIN st.node
        PROVE  /\ new.node[q].next \in DOMAIN st.node /\ new.node[q].children \in DOMAIN st.node
               /\ new.node[q].children # Null => new.node[q].childs # 0
    <3>1. CASE q = 0
      BY <3>1
    <3>2. CASE q # 0
      <4>1. new.node[q] = st.node[q]
        BY <3>2 DEF NodesOf
      <4> QED
        BY <1>1, <4>1 DEF Pointers
    <3> QED
      BY <3>1, <3>2
  <2>2. Root \in DOMAIN st.node /\ 1 \in DOMAIN new.entry
    BY <1>1 DEF Pointers
  <2>3. ASSUME NEW q \in NodesOf(st)
        PROVE  /\ new.node[q].value \in DOMAIN new.entry
               /\ new.node[q].next # Null => q < new.node[q].next
               /\ new.node[q].children # Null => q < new.node[q].children
    BY <1>1 DEF Pointers
  <2> QED
    BY <1>2, <2>1, <2>2, <2>3 DEF Pointers
<1>4. Apart(new)
  BY <1>1, <1>2 DEF Apart
<1>5. \E B : Labels(new, B)
  <2> PICK B : Labels(st, B)
    BY DEF Good, Tree
  <2>1. ASSUME NEW q \in NodesOf(st) PROVE PathOf(new, B, q) = PathOf(st, B, q)
    <3>1. st.node[q].value \in DOMAIN st.entry /\ new.node[q] = st.node[q]
      BY <1>1 DEF Pointers
    <3> QED
      BY <3>1 DEF PathOf, NameOf
  <2>2. Labels(new, B)
    BY <1>2, <2>1 DEF Labels
  <2> QED
    BY <2>2
<1>6. Tree(new)
  BY <1>3, <1>4, <1>5 DEF Tree
<1>7. ASSUME NEW q \in NodesOf(st) PROVE Children(new, q) = Children(st, q)
  <2> PICK s : s = Children(st, q)
    OBVIOUS
  <2>1. s \in Seq(NodesOf(st))
    <3>1. q \in DOMAIN st.node
      BY DEF NodesOf
    <3> QED
      BY <1>1, <3>1, ListFacts
  <2>2. \A i \in 1 .. Len(s) : new.node[s[i]].next = st.node[s[i]].next
    BY <2>1
  <2>3. new.node[q].children = st.node[q].children /\ NodesOf(st) \subseteq NodesOf(new)
    BY <1>2
  <2> QED
    BY <1>1, <1>6, <2>2, <2>3, ListKept
<1>8. Counted(new)
  BY <1>1, <1>2, <1>7 DEF Counted
<1> QED
  BY <1>2, <1>6, <1>7, <1>8 DEF Good

LEMMA SameTreeGrows ==
  ASSUME NEW st, Good(st), NEW new, DOMAIN st.node \subseteq DOMAIN new.node,
         \A q \in NodesOf(st) : /\ new.node[q].value = st.node[q].value
                                /\ Children(new, q) = Children(st, q),
         DOMAIN st.entry \subseteq DOMAIN new.entry,
         \A v \in DOMAIN st.entry : new.entry[v] = st.entry[v]
  PROVE  Grows(st, new)
<1>1. \A q \in NodesOf(st) : q \in DOMAIN st.node
  BY DEF NodesOf
<1>2. \A q \in NodesOf(st) : Len(Children(st, q)) \in Nat
  BY <1>1, ListFacts DEF Good
<1> QED
  BY <1>2 DEF Grows, Prefix

\* Another value of the copy at address 0 changes no list.
Copied(st, x) == [st EXCEPT !.node[0] = x]

LEMMA OnlyTheCopy ==
  ASSUME NEW st, Good(st), NEW x \in NodeRec, NEW new, new = Copied(st, x),
         x.next \in DOMAIN st.node, x.children \in DOMAIN st.node, x.children # Null => x.childs # 0
  PROVE  Good(new) /\ Grows(st, new) /\ NodesOf(new) = NodesOf(st) /\ new.node[0] = x
<1> PICK n \in Nat, m \in Nat : /\ st.node \in [0 .. n -> NodeRec] /\ DOMAIN st.node = 0 .. n
                                /\ st.entry \in [1 .. m -> EntryRec] /\ DOMAIN st.entry = 1 .. m
  BY StoreShape DEF Good, Tree
<1>1. st \in Stores
  BY DEF Good, Tree
<1>2. new.node = [st.node EXCEPT ![0] = x] /\ new.entry = st.entry /\ new.nodes = st.nodes
  BY <1>1 DEF Stores, Copied
<1>3. /\ new.node \in [0 .. n -> NodeRec] /\ DOMAIN new.node = 0 .. n /\ new.node[0] = x
      /\ \A q \in 1 .. n : new.node[q] = st.node[q]
  BY <1>2
<1>4. NodesOf(st) = 1 .. n
  BY DEF NodesOf
<1>5. new \in Stores
  <2>1. st.nodes \in Nat /\ new = [node |-> new.node, entry |-> new.entry, nodes |-> new.nodes]
    BY <1>1 DEF Stores, Copied
  <2> QED
    BY <1>2, <1>3, <2>1, StoreMade
<1>6. /\ Good(new) /\ NodesOf(new) = NodesOf(st)
      /\ \A q \in NodesOf(st) : Children(new, q) = Children(st, q)
  <2>1. DOMAIN new.node = DOMAIN st.node /\ \A q \in NodesOf(st) : new.node[q] = st.node[q]
    BY <1>3, <1>4
  <2>2. /\ DOMAIN st.entry \subseteq DOMAIN new.entry
        /\ \A v \in DOMAIN st.entry : new.entry[v].name = st.entry[v].name
    BY <1>2
  <2>3. /\ new.node[0].next \in DOMAIN st.node /\ new.node[0].children \in DOMAIN st.node
        /\ new.node[0].children # Null => new.node[0].childs # 0
    BY <1>3
  <2> QED
    BY <1>5, <2>1, <2>2, <2>3, SameTree, Zenon
<1>7. Grows(st, new)
  <2>1. /\ DOMAIN st.node \subseteq DOMAIN new.node /\ DOMAIN st.entry \subseteq DOMAIN new.entry
        /\ \A v \in DOMAIN st.entry : new.entry[v] = st.entry[v]
    BY <1>2, <1>3
  <2>2. \A q \in NodesOf(st) : /\ new.node[q].value = st.node[q].value
                               /\ Children(new, q) = Children(st, q)
    BY <1>3, <1>4, <1>6
  <2> QED
    BY <2>1, <2>2, SameTreeGrows, Zenon
<1> QED
  BY <1>3, <1>6, <1>7, Zenon

\* get_tree_node gives the caller a copy of the node.
LEMMA NodeCopied ==
  ASSUME NEW st, Good(st), NEW n \in NodesOf(st)
  PROVE  /\ Good(Copied(st, st.node[n])) /\ Grows(st, Copied(st, st.node[n]))
         /\ NodesOf(Copied(st, st.node[n])) = NodesOf(st) /\ Copied(st, st.node[n]).node[0] = st.node[n]
<1> PICK new : new = Copied(st, st.node[n])
  OBVIOUS
<1>1. PICK x : x = st.node[n]
  OBVIOUS
<1>2. n \in DOMAIN st.node /\ Tree(st)
  BY DEF Good, NodesOf
<1>3. x \in NodeRec
  BY <1>1, <1>2, StoreShape DEF Tree
<1>4. x.next \in DOMAIN st.node /\ x.children \in DOMAIN st.node /\ (x.children # Null => x.childs # 0)
  BY <1>1, <1>2 DEF Tree, Pointers
<1>5. new = Copied(st, x)
  BY <1>1
<1>6. Good(new) /\ Grows(st, new) /\ NodesOf(new) = NodesOf(st) /\ new.node[0] = x
  BY <1>3, <1>4, <1>5, OnlyTheCopy
<1> QED
  BY <1>1, <1>6

\* A device that is stored in an entry changes no list and no name.
LEMMA OnlyTheDevice ==
  ASSUME NEW st, Good(st), NEW v \in DOMAIN st.entry, v = st.node[0].value, NEW dev \in Devices,
         NEW new, new = Stored(st, dev)
  PROVE  /\ Good(new) /\ new.node = st.node /\ DOMAIN new.entry = DOMAIN st.entry
         /\ \A q \in NodesOf(st) : Children(new, q) = Children(st, q)
         /\ \A u \in DOMAIN st.entry : /\ new.entry[u].name = st.entry[u].name
                                       /\ new.entry[u].dev = IF u = v THEN dev ELSE st.entry[u].dev
<1> PICK n \in Nat, m \in Nat : /\ st.node \in [0 .. n -> NodeRec] /\ DOMAIN st.node = 0 .. n
                                /\ st.entry \in [1 .. m -> EntryRec] /\ DOMAIN st.entry = 1 .. m
  BY StoreShape DEF Good, Tree
<1>1. st \in Stores /\ Pointers(st)
  BY DEF Good, Tree
<1>2. /\ new.node = st.node /\ new.nodes = st.nodes
      /\ new.entry = [st.entry EXCEPT ![v] = [st.entry[v] EXCEPT !.dev = dev]]
  BY <1>1 DEF Stores, Stored
<1> DEFINE e == [st.entry[v] EXCEPT !.dev = dev]
<1>3. e \in EntryRec /\ e.name = st.entry[v].name /\ e.dev = dev
  <2>1. st.entry[v] \in EntryRec
    OBVIOUS
  <2> QED
    BY <2>1 DEF EntryRec
<1> HIDE DEF e
<1>4. /\ new.entry \in [1 .. m -> EntryRec] /\ DOMAIN new.entry = 1 .. m
      /\ \A u \in 1 .. m : new.entry[u] = IF u = v THEN e ELSE st.entry[u]
  <2>1. new.entry = [st.entry EXCEPT ![v] = e]
    BY <1>2 DEF e
  <2> QED
    BY <1>3, <2>1
<1>5. \A u \in 1 .. m : /\ new.entry[u].name = st.entry[u].name
                        /\ new.entry[u].dev = IF u = v THEN dev ELSE st.entry[u].dev
  <2> TAKE u \in 1 .. m
  <2>1. CASE u = v
    BY <1>3, <1>4, <2>1
  <2>2. CASE u # v
    BY <1>4, <2>2
  <2> QED
    BY <2>1, <2>2
<1>6. new \in Stores
  <2>1. st.nodes \in Nat /\ new = [node |-> new.node, entry |-> new.entry, nodes |-> new.nodes]
    BY <1>1 DEF Stores, Stored
  <2> QED
    BY <1>2, <1>4, <2>1, StoreMade
<1>7. /\ st.node[0].next \in DOMAIN st.node /\ st.node[0].children \in DOMAIN st.node
      /\ st.node[0].children # Null => st.node[0].childs # 0
  <2>1. 0 \in DOMAIN st.node
    OBVIOUS
  <2> QED
    BY <1>1, <2>1 DEF Pointers
<1>8. DOMAIN new.entry = DOMAIN st.entry
  BY <1>4
<1>9. \A u \in DOMAIN st.entry : /\ new.entry[u].name = st.entry[u].name
                                 /\ new.entry[u].dev = IF u = v THEN dev ELSE st.entry[u].dev
  BY <1>5
<1>10. Good(new) /\ \A q \in NodesOf(st) : Children(new, q) = Children(st, q)
  <2>1. /\ DOMAIN new.node = DOMAIN st.node /\ DOMAIN st.entry \subseteq DOMAIN new.entry
        /\ \A u \in DOMAIN st.entry : new.entry[u].name = st.entry[u].name
    BY <1>2, <1>8, <1>9
  <2>2. /\ \A q \in NodesOf(st) : new.node[q] = st.node[q]
        /\ new.node[0].next \in DOMAIN st.node /\ new.node[0].children \in DOMAIN st.node
        /\ new.node[0].children # Null => new.node[0].childs # 0
    BY <1>2, <1>7
  <2> QED
    BY <1>6, <2>1, <2>2, SameTree
<1> QED
  BY <1>2, <1>8, <1>9, <1>10, Zenon

\* A new entry is no node's.
LEMMA EntryAdded ==
  ASSUME NEW st, Good(st), NEW name \in Names, NEW file \in BOOLEAN,
         NEW e, e = WithEntry(st, name, file), NEW v, v = Max(DOMAIN e.entry)
  PROVE  /\ Good(e) /\ Grows(st, e) /\ e.node = st.node
         /\ v \in DOMAIN e.entry /\ v # Null /\ e.entry[v].name = name
         /\ \A q \in NodesOf(e) : e.node[q].value # v
<1> PICK n \in Nat, m \in Nat : /\ st.node \in [0 .. n -> NodeRec] /\ DOMAIN st.node = 0 .. n
                                /\ st.entry \in [1 .. m -> EntryRec] /\ DOMAIN st.entry = 1 .. m
  BY StoreShape DEF Good, Tree
<1>1. st \in Stores /\ Pointers(st) /\ m >= 1
  BY DEF Good, Tree, Pointers
<1> DEFINE r == [name |-> name, file |-> file, dev |-> NoDevice]
<1>2. r \in EntryRec /\ r.name = name
  BY DEF EntryRec, Devices
<1>3. Fresh(st.entry) = m + 1
  BY <1>1, LastAddress
<1>4. e.node = st.node /\ e.nodes = st.nodes /\ e.entry = With(st.entry, m + 1, r)
  BY <1>1, <1>3 DEF WithEntry, Stores
<1> HIDE DEF r
<1>5. /\ e.entry \in [1 .. m + 1 -> EntryRec] /\ DOMAIN e.entry = 1 .. m + 1
      /\ e.entry[m + 1] = r /\ \A u \in 1 .. m : e.entry[u] = st.entry[u]
  <2>1. 1 .. m + 1 = (1 .. m) \cup {m + 1}
    OBVIOUS
  <2> QED
    BY <1>2, <1>4, <2>1 DEF With
<1>6. v = m + 1
  <2>1. m + 1 \in Nat /\ 1 \in Nat /\ 1 <= m + 1
    OBVIOUS
  <2> QED
    BY <1>5, <2>1, LastAddress
<1>7. e \in Stores
  <2>1. st.nodes \in Nat /\ e = [node |-> e.node, entry |-> e.entry, nodes |-> e.nodes]
    BY <1>1 DEF Stores, WithEntry
  <2>2. m + 1 \in Nat
    OBVIOUS
  <2>3. e.entry \in UNION {[1 .. k -> EntryRec] : k \in Nat}
    BY <1>5, <2>2
  <2> QED
    BY <1>4, <2>1, <2>3 DEF Stores
<1>8. /\ st.node[0].next \in DOMAIN st.node /\ st.node[0].children \in DOMAIN st.node
      /\ st.node[0].children # Null => st.node[0].childs # 0
  <2>1. 0 \in DOMAIN st.node
    OBVIOUS
  <2> QED
    BY <1>1, <2>1 DEF Pointers
<1>9. DOMAIN st.entry \subseteq DOMAIN e.entry
  BY <1>5
<1>10. /\ Good(e) /\ NodesOf(e) = NodesOf(st)
       /\ \A q \in NodesOf(st) : Children(e, q) = Children(st, q)
  BY <1>4, <1>5, <1>7, <1>8, <1>9, SameTree
<1>11. Grows(st, e)
  BY <1>4, <1>5, <1>9, <1>10, SameTreeGrows
<1>12. ASSUME NEW q \in NodesOf(e) PROVE e.node[q].value # v
  <2>1. st.node[q].value \in 1 .. m
    BY <1>1, <1>10 DEF Pointers
  <2> QED
    BY <1>4, <1>6, <2>1
<1> QED
  BY <1>2, <1>4, <1>5, <1>6, <1>10, <1>11, <1>12 DEF Null

\* What create_node, set_value and insert_child write.
Inserted(st, new, p, v, s, n) ==
  /\ new \in Stores /\ DOMAIN new.node = 0 .. n + 1 /\ new.entry = st.entry
  /\ Fresh(st.node) = n + 1 /\ new.node[n + 1] = NewNode(v)
  /\ \A q \in 0 .. n :
       /\ new.node[q].value = st.node[q].value
       /\ new.node[q].childs = IF q = p THEN st.node[q].childs + 1 ELSE st.node[q].childs
       /\ new.node[q].children = IF q = p /\ s = <<>> THEN n + 1 ELSE st.node[q].children
       /\ new.node[q].next = IF s # <<>> /\ q = Last(s) THEN n + 1 ELSE st.node[q].next

LEMMA InsertWrites ==
  ASSUME NEW st, Good(st), NEW p \in DOMAIN st.node, NEW v \in DOMAIN st.entry,
         NEW new, new = InsertChild(st, p, v), NEW s, s = Children(st, p),
         NEW n \in Nat, DOMAIN st.node = 0 .. n
  PROVE  Inserted(st, new, p, v, s, n)
<1> SUFFICES /\ new \in Stores /\ DOMAIN new.node = 0 .. n + 1 /\ new.entry = st.entry
             /\ Fresh(st.node) = n + 1 /\ new.node[n + 1] = NewNode(v)
             /\ \A q \in 0 .. n :
                  /\ new.node[q].value = st.node[q].value
                  /\ new.node[q].childs = IF q = p THEN st.node[q].childs + 1 ELSE st.node[q].childs
                  /\ new.node[q].children = IF q = p /\ s = <<>> THEN n + 1 ELSE st.node[q].children
                  /\ new.node[q].next = IF s # <<>> /\ q = Last(s) THEN n + 1 ELSE st.node[q].next
  BY Zenon DEF Inserted
<1> PICK n1 \in Nat, m \in Nat : /\ st.node \in [0 .. n1 -> NodeRec] /\ DOMAIN st.node = 0 .. n1
                                 /\ st.entry \in [1 .. m -> EntryRec] /\ DOMAIN st.entry = 1 .. m
  BY StoreShape DEF Good, Tree
<1>1. st \in Stores /\ Tree(st) /\ Pointers(st) /\ st.node \in [0 .. n -> NodeRec]
  BY DEF Good, Tree
<1>2. Fresh(st.node) = n + 1
  BY LastAddress
<1>3. s = <<>> <=> st.node[p].children = Null
  BY <1>1, ListFacts
<1>4. s # <<>> => st.node[p].childs # 0 /\ Last(s) \in 0 .. n
  <2>1. s # <<>> => Last(s) \in NodesOf(st)
    BY <1>1, ListFacts
  <2> QED
    BY <1>1, <1>3, <2>1 DEF Pointers, NodesOf
<1> DEFINE linked == IF s = <<>> THEN [st.node EXCEPT ![p] = [st.node[p] EXCEPT !.children = n + 1]]
                     ELSE [st.node EXCEPT ![Last(s)] = [st.node[Last(s)] EXCEPT !.next = n + 1]]
           node == [linked EXCEPT ![p] = [linked[p] EXCEPT !.childs = @ + 1]]
<1>5. st.nodes \in Nat /\ new = [st EXCEPT !.node = With(node, n + 1, NewNode(v)), !.nodes = @ + 1]
  <2>1. st.nodes \in Nat
    BY <1>1 DEF Stores
  <2> DEFINE given == IF s = <<>> \/ st.node[p].childs = 0
                      THEN [st.node EXCEPT ![p].children = Fresh(st.node)]
                      ELSE [st.node EXCEPT ![Last(s)].next = Fresh(st.node)]
  <2>2. new = [st EXCEPT !.node = With([given EXCEPT ![p].childs = @ + 1], Fresh(st.node), NewNode(v)),
                         !.nodes = @ + 1]
    BY Zenon DEF InsertChild
  <2>3. given = linked
    <3>1. CASE s = <<>>
      BY <1>2, <3>1
    <3>2. CASE s # <<>>
      BY <1>2, <1>4, <3>2
    <3> QED
      BY <3>1, <3>2
  <2> QED
    BY <1>2, <2>1, <2>2, <2>3, Zenon
<1>6. /\ linked \in [0 .. n -> NodeRec]
      /\ \A q \in 0 .. n :
           /\ linked[q].value = st.node[q].value /\ linked[q].childs = st.node[q].childs
           /\ linked[q].children = IF q = p /\ s = <<>> THEN n + 1 ELSE st.node[q].children
           /\ linked[q].next = IF s # <<>> /\ q = Last(s) THEN n + 1 ELSE st.node[q].next
  <2>1. n + 1 \in Nat
    OBVIOUS
  <2>2. CASE s = <<>>
    <3> PICK o \in NodeRec : o = st.node[p]
      BY <1>1
    <3> PICK r \in NodeRec : r = [o EXCEPT !.children = n + 1]
      BY <2>1, NodeWritten, Zenon
    <3>1. linked = [st.node EXCEPT ![p] = r]
      BY <2>2
    <3>2. r.value = st.node[p].value /\ r.childs = st.node[p].childs /\ r.next = st.node[p].next /\ r.children = n + 1
      BY <2>1, NodeWritten
    <3> HIDE DEF linked
    <3>3. linked \in [0 .. n -> NodeRec] /\ \A q \in 0 .. n : linked[q] = IF q = p THEN r ELSE st.node[q]
      BY <1>1, <3>1
    <3> QED
      BY <2>2, <3>2, <3>3
  <2>3. CASE s # <<>>
    <3> PICK l \in 0 .. n : l = Last(s)
      BY <1>4, <2>3
    <3> PICK o \in NodeRec : o = st.node[l]
      BY <1>1
    <3> PICK r \in NodeRec : r = [o EXCEPT !.next = n + 1]
      BY <2>1, NodeWritten, Zenon
    <3>1. linked = [st.node EXCEPT ![l] = r]
      BY <2>3
    <3>2. r.value = st.node[l].value /\ r.childs = st.node[l].childs /\ r.children = st.node[l].children /\ r.next = n + 1
      BY <2>1, NodeWritten
    <3> HIDE DEF linked
    <3>3. linked \in [0 .. n -> NodeRec] /\ \A q \in 0 .. n : linked[q] = IF q = l THEN r ELSE st.node[q]
      BY <1>1, <3>1
    <3> QED
      BY <2>3, <3>2, <3>3
  <2> QED
    BY <2>2, <2>3
<1> HIDE DEF linked
<1>7. /\ node \in [0 .. n -> NodeRec]
      /\ \A q \in 0 .. n :
           /\ node[q].value = linked[q].value /\ node[q].children = linked[q].children
           /\ node[q].next = linked[q].next
           /\ node[q].childs = IF q = p THEN linked[q].childs + 1 ELSE linked[q].childs
  <2> PICK o \in NodeRec : o = linked[p]
    BY <1>6
  <2>1. o.childs + 1 \in Nat
    <3>1. o.childs \in Nat
      BY NodeTyped, Zenon
    <3> QED
      BY <3>1
  <2> PICK r \in NodeRec : r = [o EXCEPT !.childs = o.childs + 1]
    BY <2>1, NodeWritten, Zenon
  <2>2. node = [linked EXCEPT ![p] = r]
    OBVIOUS
  <2>3. r.value = linked[p].value /\ r.children = linked[p].children /\ r.next = linked[p].next /\ r.childs = linked[p].childs + 1
    BY <2>1, NodeWritten
  <2> HIDE DEF node
  <2>4. node \in [0 .. n -> NodeRec] /\ \A q \in 0 .. n : node[q] = IF q = p THEN r ELSE linked[q]
    BY <1>6, <2>2
  <2> QED
    BY <2>3, <2>4
<1> HIDE DEF node
<1>8. NewNode(v) \in NodeRec
  BY DEF NewNode, NodeRec, Null
<1> DEFINE grown == With(node, n + 1, NewNode(v))
<1>9. /\ grown \in [0 .. n + 1 -> NodeRec] /\ DOMAIN grown = 0 .. n + 1
      /\ grown[n + 1] = NewNode(v) /\ \A q \in 0 .. n : grown[q] = node[q]
  <2>1. 0 .. n + 1 = (0 .. n) \cup {n + 1}
    OBVIOUS
  <2> QED
    BY <1>7, <1>8, <2>1 DEF With
<1>10. new.node = grown /\ new.entry = st.entry /\ new.nodes = st.nodes + 1
       /\ new = [node |-> new.node, entry |-> new.entry, nodes |-> new.nodes]
  <2> HIDE DEF grown
  <2> QED
    BY <1>1, <1>5 DEF Stores, grown
<1> HIDE DEF grown
<1>11. new \in Stores
  <2>1. n + 1 \in Nat /\ st.nodes + 1 \in Nat
    BY <1>5
  <2>2. new.node \in UNION {[0 .. k -> NodeRec] : k \in Nat}
    BY <1>9, <1>10, <2>1
  <2>3. new.entry \in UNION {[1 .. k -> EntryRec] : k \in Nat}
    BY <1>10
  <2> QED
    BY <1>10, <2>1, <2>2, <2>3 DEF Stores
<1> QED
  BY <1>2, <1>6, <1>7, <1>9, <1>10, <1>11

\* insert_child keeps the tree: the new node is the last of the list of its parent,
\* and of the list that the parent is a copy of, when that is not empty.
LEMMA ChildInserted ==
  ASSUME NEW st, Good(st), NEW p \in DOMAIN st.node, NEW v \in DOMAIN st.entry, v # Null,
         \A q \in NodesOf(st) : st.node[q].value # v,
         NEW new, new = InsertChild(st, p, v), NEW c, c = Fresh(st.node)
  PROVE  /\ Good(new) /\ Grows(st, new) /\ new.entry = st.entry
         /\ c \in NodesOf(new) /\ new.node[c].value = v
         /\ p # 0 => Children(new, p) = Append(Children(st, p), c)
<1> PICK n \in Nat : DOMAIN st.node = 0 .. n /\ st.node \in [0 .. n -> NodeRec]
  BY StoreShape DEF Good, Tree
<1> PICK s : s = Children(st, p)
  OBVIOUS
<1>1. st \in Stores /\ Tree(st) /\ Pointers(st) /\ Apart(st) /\ Counted(st) /\ n >= 1
  BY DEF Good, Tree, Pointers, Root
<1>2. /\ new \in Stores /\ DOMAIN new.node = 0 .. n + 1 /\ new.entry = st.entry
      /\ c = n + 1 /\ new.node[n + 1] = NewNode(v)
      /\ \A q \in 0 .. n :
              /\ new.node[q].value = st.node[q].value
              /\ new.node[q].childs = IF q = p THEN st.node[q].childs + 1 ELSE st.node[q].childs
              /\ new.node[q].children = IF q = p /\ s = <<>> THEN n + 1 ELSE st.node[q].children
              /\ new.node[q].next = IF s # <<>> /\ q = Last(s) THEN n + 1 ELSE st.node[q].next
  <2>1. DOMAIN st.node = 0 .. n
    OBVIOUS
  <2>2. Inserted(st, new, p, v, s, n)
    BY <2>1, InsertWrites
  <2>3. c = n + 1
    BY <2>2 DEF Inserted
  <2> QED
    BY <2>2, <2>3, Zenon DEF Inserted
<1>3. NodesOf(st) = 1 .. n /\ NodesOf(new) = 1 .. n + 1 /\ p \in 0 .. n
  BY <1>2 DEF NodesOf
<1>4. /\ new.node[n + 1].value = v /\ new.node[n + 1].next = Null
      /\ new.node[n + 1].children = Null /\ new.node[n + 1].childs = 0
  BY <1>2 DEF NewNode
<1>5. /\ s = <<>> => st.node[p].children = Null
      /\ s # <<>> => Last(s) \in 1 .. n /\ st.node[Last(s)].next = Null
      /\ \A i \in 1 .. Len(s) - 1 : st.node[s[i]].next # Null
  <2>1. /\ s = <<>> <=> st.node[p].children = Null
        /\ s # <<>> => Last(s) \in NodesOf(st) /\ st.node[Last(s)].next = Null
        /\ \A i \in 1 .. Len(s) - 1 : st.node[s[i]].next # Null
    BY <1>1, ListFacts
  <2>2. s # <<>> => Last(s) \in 1 .. n
    BY <1>3, <2>1
  <2> QED
    BY <2>1, <2>2, Zenon
<1>6. \A q \in 0 .. n : /\ st.node[q].next \in 0 .. n /\ st.node[q].children \in 0 .. n
                        /\ st.node[q].childs \in Nat
                        /\ st.node[q].children # Null => st.node[q].childs # 0
  BY <1>1 DEF Pointers, NodeRec
<1>7. \A q \in 1 .. n : /\ st.node[q].value \in DOMAIN st.entry
                        /\ st.node[q].next # Null => q < st.node[q].next
                        /\ st.node[q].children # Null => q < st.node[q].children
  BY <1>1, <1>3 DEF Pointers
<1>8. Pointers(new)
  <2>1. ASSUME NEW q \in 0 .. n + 1
        PROVE  /\ new.node[q].next \in 0 .. n + 1 /\ new.node[q].children \in 0 .. n + 1
               /\ new.node[q].children # Null => new.node[q].childs # 0
    <3>1. CASE q = n + 1
      BY <1>4, <3>1 DEF Null
    <3>2. CASE q \in 0 .. n
      <4>1. /\ new.node[q].childs = IF q = p THEN st.node[q].childs + 1 ELSE st.node[q].childs
            /\ new.node[q].children = IF q = p /\ s = <<>> THEN n + 1 ELSE st.node[q].children
            /\ new.node[q].next = IF s # <<>> /\ q = Last(s) THEN n + 1 ELSE st.node[q].next
        BY <1>2, <3>2
      <4>2. /\ st.node[q].next \in 0 .. n /\ st.node[q].children \in 0 .. n
            /\ st.node[q].childs \in Nat /\ (st.node[q].children # Null => st.node[q].childs # 0)
        BY <1>6, <3>2
      <4>3. new.node[q].next \in 0 .. n + 1 /\ new.node[q].children \in 0 .. n + 1
        BY <4>1, <4>2
      <4>4. new.node[q].children # Null => new.node[q].childs # 0
        BY <4>1, <4>2
      <4> QED
        BY <4>3, <4>4
    <3> QED
      BY <3>1, <3>2
  <2>2. ASSUME NEW q \in 1 .. n + 1
        PROVE  /\ new.node[q].value \in DOMAIN st.entry
               /\ new.node[q].next # Null => q < new.node[q].next
               /\ new.node[q].children # Null => q < new.node[q].children
    <3>1. CASE q = n + 1
      BY <1>4, <3>1
    <3>2. CASE q \in 1 .. n
      <4>1. q \in 0 .. n /\ q < n + 1
        BY <3>2
      <4> QED
        BY <1>2, <1>7, <3>2, <4>1
    <3> QED
      BY <3>1, <3>2
  <2>3. Root \in 0 .. n + 1 /\ 1 \in DOMAIN st.entry
    BY <1>1 DEF Pointers, Root
  <2> QED
    BY <1>2, <1>3, <2>1, <2>2, <2>3 DEF Pointers
<1>9. Apart(new)
  <2>1. ASSUME NEW q \in 1 .. n
        PROVE  /\ q \in 0 .. n /\ q # n + 1 /\ new.node[q].value = st.node[q].value /\ st.node[q].value # v
               /\ new.node[q].children = n + 1 \/ new.node[q].children = st.node[q].children
               /\ new.node[q].children = n + 1 <=> q = p /\ s = <<>>
               /\ new.node[q].next = n + 1 \/ new.node[q].next = st.node[q].next
               /\ new.node[q].next = n + 1 <=> s # <<>> /\ q = Last(s)
               /\ st.node[q].next # n + 1 /\ st.node[q].children # n + 1
    <3>1. q \in 0 .. n /\ q # n + 1 /\ st.node[q].next # n + 1 /\ st.node[q].children # n + 1
      BY <1>6
    <3> QED
      BY <1>2, <1>3, <3>1
  <2>2. \A q \in 1 .. n + 1 : q = n + 1 \/ q \in 1 .. n
    OBVIOUS
  <2>3. ASSUME NEW a \in 1 .. n + 1, NEW b \in 1 .. n + 1, a # b
        PROVE  /\ new.node[a].value # new.node[b].value
               /\ new.node[a].next = new.node[b].next => new.node[a].next = Null
               /\ new.node[a].children = new.node[b].children => new.node[a].children = Null
    <3>1. CASE a = n + 1
      <4>1. b \in 1 .. n
        BY <2>2, <2>3, <3>1
      <4> QED
        BY <1>4, <2>1, <3>1, <4>1
    <3>2. CASE b = n + 1
      <4>1. a \in 1 .. n
        BY <2>2, <2>3, <3>2
      <4> QED
        BY <1>4, <2>1, <3>2, <4>1
    <3>3. CASE a \in 1 .. n /\ b \in 1 .. n
      <4>1. /\ st.node[a].value # st.node[b].value
            /\ st.node[a].next = st.node[b].next => st.node[a].next = Null
            /\ st.node[a].children = st.node[b].children => st.node[a].children = Null
        BY <1>1, <1>3, <2>3, <3>3 DEF Apart
      <4>2. new.node[a].value # new.node[b].value
        BY <2>1, <3>3, <4>1
      <4>3. new.node[a].next = new.node[b].next => new.node[a].next = Null
        BY <2>1, <2>3, <3>3, <4>1
      <4>4. new.node[a].children = new.node[b].children => new.node[a].children = Null
        BY <2>1, <2>3, <3>3, <4>1
      <4> QED
        BY <4>2, <4>3, <4>4
    <3> QED
      BY <2>2, <3>1, <3>2, <3>3
  <2>4. ASSUME NEW a \in 1 .. n + 1, NEW b \in 1 .. n + 1, new.node[a].next = new.node[b].children
        PROVE  new.node[a].next = Null
    <3>1. CASE a = n + 1 \/ b = n + 1
      BY <1>4, <2>4, <3>1
    <3>2. CASE a \in 1 .. n /\ b \in 1 .. n
      <4>1. st.node[a].next = st.node[b].children => st.node[a].next = Null
        BY <1>1, <1>3, <3>2 DEF Apart
      <4>2. CASE new.node[a].next = n + 1
        <5>1. new.node[b].children = n + 1
          BY <2>4, <4>2
        <5> QED
          BY <2>1, <3>2, <4>2, <5>1
      <4>3. CASE new.node[a].next # n + 1
        BY <2>1, <2>4, <3>2, <4>1, <4>3
      <4> QED
        BY <4>2, <4>3
    <3> QED
      BY <2>2, <3>1, <3>2
  <2> QED
    BY <1>3, <2>3, <2>4 DEF Apart
<1>10. \E B : Labels(new, B)
  <2> PICK B : Labels(st, B)
    BY DEF Good, Tree
  <2> DEFINE above == IF s # <<>> THEN B[Last(s)] ELSE IF p = 0 THEN <<>> ELSE PathOf(st, B, p)
             C == [q \in 1 .. n + 1 |-> IF q = n + 1 THEN above ELSE B[q]]
  <2>1. B \in [1 .. n -> Seq(Names)]
    BY <1>3 DEF Labels
  <2>2. \A q \in 1 .. n : PathOf(st, B, q) \in Seq(Names)
    <3> TAKE q \in 1 .. n
    <3>1. NameOf(st, q) \in Names
      <4> PICK m \in Nat : st.entry \in [1 .. m -> EntryRec] /\ DOMAIN st.entry = 1 .. m
        BY <1>1, StoreShape
      <4> QED
        BY <1>7 DEF NameOf, EntryRec
    <3>2. B[q] \in Seq(Names)
      BY <2>1
    <3> QED
      BY <3>1, <3>2 DEF PathOf
  <2>3. above \in Seq(Names)
    <3>1. s # <<>> => B[Last(s)] \in Seq(Names)
      BY <1>5, <2>1
    <3>2. p # 0 => PathOf(st, B, p) \in Seq(Names)
      BY <1>3, <2>2
    <3> QED
      BY <3>1, <3>2
  <2> HIDE DEF above
  <2>4. C \in [1 .. n + 1 -> Seq(Names)] /\ C[n + 1] = above /\ \A q \in 1 .. n : C[q] = B[q]
    <3>1. \A q \in 1 .. n + 1 : q = n + 1 \/ q \in 1 .. n
      OBVIOUS
    <3> QED
      BY <2>1, <2>3, <3>1
  <2> HIDE DEF C
  <2>5. \A q \in 1 .. n : PathOf(new, C, q) = PathOf(st, B, q)
    <3> TAKE q \in 1 .. n
    <3>1. q \in 0 .. n
      OBVIOUS
    <3>2. NameOf(new, q) = NameOf(st, q)
      BY <1>2, <3>1 DEF NameOf
    <3>3. C[q] = B[q]
      BY <2>4
    <3> QED
      BY <3>2, <3>3 DEF PathOf
  <2>6. ASSUME NEW q \in 1 .. n + 1, new.node[q].next # Null PROVE C[new.node[q].next] = C[q]
    <3>1. q \in 1 .. n /\ q \in 0 .. n
      BY <1>4, <2>6
    <3>2. CASE s # <<>> /\ q = Last(s)
      BY <1>2, <2>4, <3>1, <3>2 DEF above
    <3>3. CASE ~(s # <<>> /\ q = Last(s))
      <4>1. new.node[q].next = st.node[q].next
        BY <1>2, <3>1, <3>3
      <4>2. st.node[q].next \in 1 .. n
        BY <1>6, <2>6, <3>1, <4>1 DEF Null
      <4>3. B[st.node[q].next] = B[q]
        BY <1>3, <2>6, <3>1, <4>1 DEF Labels
      <4> QED
        BY <2>4, <3>1, <4>1, <4>2, <4>3
    <3> QED
      BY <3>2, <3>3
  <2>7. ASSUME NEW q \in 1 .. n + 1, new.node[q].children # Null
        PROVE  C[new.node[q].children] = PathOf(new, C, q)
    <3>1. q \in 1 .. n /\ q \in 0 .. n /\ q # 0
      BY <1>4, <2>7
    <3>2. CASE q = p /\ s = <<>>
      BY <1>2, <2>4, <2>5, <3>1, <3>2 DEF above
    <3>3. CASE ~(q = p /\ s = <<>>)
      <4>1. new.node[q].children = st.node[q].children
        BY <1>2, <3>1, <3>3
      <4>2. st.node[q].children \in 1 .. n
        BY <1>6, <2>7, <3>1, <4>1 DEF Null
      <4>3. B[st.node[q].children] = PathOf(st, B, q)
        BY <1>3, <2>7, <3>1, <4>1 DEF Labels
      <4> QED
        BY <2>4, <2>5, <3>1, <4>1, <4>2, <4>3
    <3> QED
      BY <3>2, <3>3
  <2>8. Labels(new, C)
    BY <1>3, <2>4, <2>6, <2>7 DEF Labels
  <2> QED
    BY <2>8
<1>11. Tree(new)
  BY <1>2, <1>8, <1>9, <1>10 DEF Tree
<1>12. ASSUME NEW q \in 1 .. n, NEW t, t = Children(st, q)
       PROVE  /\ Children(new, q) = t \/ Children(new, q) = Append(t, n + 1)
              /\ q = p => Children(new, q) = Append(t, n + 1)
  <2>1. q \in DOMAIN st.node /\ q \in NodesOf(st) /\ NodesOf(st) \subseteq NodesOf(new)
    BY <1>3
  <2>2. /\ t \in Seq(1 .. n) /\ Len(t) \in Nat /\ (t = <<>> <=> Len(t) = 0)
        /\ t # <<>> => Last(t) = t[Len(t)]
        /\ \A i \in 1 .. Len(t) - 1 : st.node[t[i]].next # Null
    <3>1. /\ t \in Seq(NodesOf(st)) /\ (t # <<>> => Last(t) = t[Len(t)])
          /\ \A i \in 1 .. Len(t) - 1 : st.node[t[i]].next # Null
      BY <1>1, <1>12, <2>1, ListFacts
    <3>2. t \in Seq(1 .. n)
      BY <1>3, <3>1
    <3> QED
      BY <3>1, <3>2
  <2>3. \A i \in 1 .. Len(t) - 1 : new.node[t[i]].next = st.node[t[i]].next
    <3> TAKE i \in 1 .. Len(t) - 1
    <3>1. i \in 1 .. Len(t)
      BY <2>2
    <3>2. t[i] \in 1 .. n /\ t[i] \in 0 .. n
      BY <2>2, <3>1
    <3>3. ~(s # <<>> /\ t[i] = Last(s))
      BY <1>5, <2>2
    <3> QED
      BY <1>2, <3>2, <3>3
  <2>4. new.node[q].children = IF q = p /\ s = <<>> THEN n + 1 ELSE st.node[q].children
    BY <1>2
  <2> DEFINE grows == IF t = <<>> THEN q = p /\ s = <<>> ELSE s # <<>> /\ Last(t) = Last(s)
  <2>5. CASE grows
    <3>1. n + 1 \in NodesOf(new) /\ new.node[n + 1].next = Null
      BY <1>3, <1>4
    <3>2. IF t = <<>> THEN new.node[q].children = n + 1
                      ELSE new.node[q].children = st.node[q].children /\ new.node[Last(t)].next = n + 1
      <4>1. CASE t = <<>>
        BY <2>4, <2>5, <4>1
      <4>2. CASE t # <<>>
        <5>1. Last(t) \in 0 .. n
          BY <1>5, <2>5, <4>2
        <5>2. new.node[Last(t)].next = n + 1
          BY <1>2, <2>5, <4>2, <5>1
        <5>3. ~(q = p /\ s = <<>>)
          BY <2>5, <4>2
        <5>4. new.node[q].children = st.node[q].children
          BY <2>4, <5>3
        <5> QED
          BY <4>2, <5>2, <5>4
      <4> QED
        BY <4>1, <4>2
    <3> HIDE DEF grows
    <3>3. Children(new, q) = Append(t, n + 1)
      <4>1. PICK d : d = n + 1
        OBVIOUS
      <4>2. /\ Tree(st) /\ Tree(new) /\ NodesOf(st) \subseteq NodesOf(new)
            /\ q \in NodesOf(st) /\ t = Children(st, q)
        BY <1>1, <1>11, <1>12, <2>1
      <4>3. d \in NodesOf(new) /\ new.node[d].next = Null
        BY <3>1, <4>1
      <4>4. Linked(st, new, q, t, d)
        BY <2>3, <3>2, <4>1, <4>2, <4>3 DEF Linked
      <4>5. Children(new, q) = Append(t, d)
        BY <4>4, ListGrown
      <4> QED
        BY <4>1, <4>5
    <3> QED
      BY <3>3
  <2>6. CASE ~grows
    <3>1. q # p
      BY <1>12, <2>6
    <3>2. \A i \in 1 .. Len(t) : new.node[t[i]].next = st.node[t[i]].next
      <4> TAKE i \in 1 .. Len(t)
      <4>1. t[i] \in 0 .. n
        BY <2>2
      <4>2. CASE i = Len(t)
        <5>1. t # <<>> /\ t[i] = Last(t)
          BY <2>2, <4>2
        <5> QED
          BY <1>2, <2>6, <4>1, <5>1
      <4>3. CASE i # Len(t)
        <5>1. i \in 1 .. Len(t) - 1
          BY <2>2, <4>3
        <5> QED
          BY <2>3, <5>1
      <4> QED
        BY <4>2, <4>3
    <3>3. new.node[q].children = st.node[q].children
      BY <2>4, <3>1
    <3> HIDE DEF grows
    <3>4. Children(new, q) = t
      BY <1>1, <1>11, <1>12, <2>1, <3>2, <3>3, ListKept
    <3> QED
      BY <3>1, <3>4
  <2> QED
    BY <2>5, <2>6
<1>13. ASSUME NEW q \in 1 .. n
       PROVE  /\ Len(Children(st, q)) \in Nat /\ Prefix(Children(st, q), Children(new, q))
              /\ q = p => Len(Children(new, q)) = Len(Children(st, q)) + 1
  <2> PICK t : t = Children(st, q)
    OBVIOUS
  <2>1. t \in Seq(1 .. n) /\ Len(t) \in Nat
    BY <1>1, <1>3, ListFacts
  <2>2. /\ Len(Append(t, n + 1)) = Len(t) + 1 /\ \A i \in 1 .. Len(t) : Append(t, n + 1)[i] = t[i]
    BY <2>1
  <2>3. Prefix(t, t) /\ Prefix(t, Append(t, n + 1))
    BY <2>1, <2>2 DEF Prefix
  <2> QED
    BY <1>12, <2>1, <2>2, <2>3
<1>14. Counted(new)
  <2>1. ASSUME NEW q \in 1 .. n PROVE new.node[q].childs <= Len(Children(new, q))
    <3>1. st.node[q].childs <= Len(Children(st, q)) /\ st.node[q].childs \in Nat
      <4>1. q \in NodesOf(st) /\ q \in 0 .. n
        BY <1>3
      <4> QED
        BY <1>1, <1>6, <4>1 DEF Counted
    <3>2. new.node[q].childs = IF q = p THEN st.node[q].childs + 1 ELSE st.node[q].childs
      BY <1>2
    <3>3. Len(Children(new, q)) \in Nat
      BY <1>3, <1>11, ListFacts
    <3>4. Len(Children(st, q)) <= Len(Children(new, q))
      BY <1>13 DEF Prefix
    <3> QED
      BY <1>13, <3>1, <3>2, <3>3, <3>4
  <2>2. Len(Children(new, n + 1)) \in Nat
    BY <1>2, <1>11, ListFacts
  <2>3. ASSUME NEW q \in 1 .. n + 1 PROVE new.node[q].childs <= Len(Children(new, q))
    <3>1. q = n + 1 \/ q \in 1 .. n
      OBVIOUS
    <3> QED
      BY <1>4, <2>1, <2>2, <3>1
  <2> QED
    BY <1>3, <2>3 DEF Counted
<1>15. Grows(st, new)
  BY <1>2, <1>3, <1>13 DEF Grows
<1>16. p # 0 => Children(new, p) = Append(Children(st, p), c)
  <2>1. p # 0 => p \in 1 .. n
    BY <1>3
  <2> QED
    BY <1>2, <1>12, <2>1
<1> QED
  BY <1>2, <1>3, <1>4, <1>11, <1>14, <1>15, <1>16 DEF Good

\* A new entry and the node for it: a file of an archive, or what vfs_get_tree_node
\* did not find.
LEMMA FileAdded ==
  ASSUME NEW st, Good(st), NEW p \in DOMAIN st.node, NEW name \in Names, NEW file \in BOOLEAN,
         NEW e, e = WithEntry(st, name, file),
         NEW new, new = InsertChild(e, p, Max(DOMAIN e.entry)), NEW c, c = Fresh(st.node)
  PROVE  /\ Good(new) /\ Grows(st, new) /\ c \in NodesOf(new)
         /\ p # 0 => Children(new, p) = Append(Children(st, p), c) /\ NameOf(new, c) = name
<1> PICK v : v = Max(DOMAIN e.entry)
  OBVIOUS
<1>1. /\ Good(e) /\ Grows(st, e) /\ e.node = st.node
      /\ v \in DOMAIN e.entry /\ v # Null /\ e.entry[v].name = name
      /\ \A q \in NodesOf(e) : e.node[q].value # v
  BY EntryAdded
<1>2. /\ Good(new) /\ Grows(e, new) /\ new.entry = e.entry
      /\ c \in NodesOf(new) /\ new.node[c].value = v
      /\ p # 0 => Children(new, p) = Append(Children(e, p), c)
  BY <1>1, ChildInserted
<1>3. Grows(st, new)
  BY <1>1, <1>2, GrowsTransitive DEF Good
<1>4. p # 0 => Children(e, p) = Children(st, p)
  <2> SUFFICES ASSUME p # 0 PROVE Children(e, p) = Children(st, p)
    OBVIOUS
  <2>1. p \in NodesOf(st) /\ NodesOf(st) \subseteq NodesOf(e) /\ Tree(st) /\ Tree(e)
    BY <1>1 DEF NodesOf, Good
  <2> QED
    BY <1>1, <2>1, ListKept
<1> QED
  BY <1>1, <1>2, <1>3, <1>4 DEF NameOf

-----------------------------------------------------------------------------
(* Paths.                                                                    *)

\* The first k names of the path lead from the root to n.
Reaches(st, path, k, n) ==
  \E h \in [0 .. k -> NodesOf(st)] :
     /\ h[0] = Root /\ h[k] = n
     /\ \A i \in 1 .. k : h[i] = GetChild(st, h[i - 1], path[i])
Leads(st, path, n) == Reaches(st, path, Len(path), n)

LEMMA RootReached ==
  ASSUME NEW st, Tree(st), NEW path
  PROVE  Reaches(st, path, 0, Root)
<1> DEFINE h == [i \in 0 .. 0 |-> Root]
<1>1. Root \in NodesOf(st)
  BY DEF Tree, Pointers, NodesOf, Root
<1>2. h \in [0 .. 0 -> NodesOf(st)] /\ h[0] = Root
  BY <1>1
<1> HIDE DEF h
<1>3. \A i \in 1 .. 0 : h[i] = GetChild(st, h[i - 1], path[i])
  OBVIOUS
<1> QED
  BY <1>2, <1>3 DEF Reaches

LEMMA ReachesOn ==
  ASSUME NEW st, NEW path, NEW k \in Nat, NEW n, Reaches(st, path, k, n),
         NEW c \in NodesOf(st), c = GetChild(st, n, path[k + 1])
  PROVE  Reaches(st, path, k + 1, c)
<1> PICK h \in [0 .. k -> NodesOf(st)] :
        /\ h[0] = Root /\ h[k] = n
        /\ \A i \in 1 .. k : h[i] = GetChild(st, h[i - 1], path[i])
  BY DEF Reaches
<1> DEFINE g1 == [i \in 0 .. k + 1 |-> IF i = k + 1 THEN c ELSE h[i]]
<1>1. g1 \in [0 .. k + 1 -> NodesOf(st)] /\ g1[k + 1] = c /\ \A i \in 0 .. k : g1[i] = h[i]
  <2>1. \A i \in 0 .. k + 1 : i = k + 1 \/ i \in 0 .. k
    OBVIOUS
  <2> QED
    BY <2>1
<1> HIDE DEF g1
<1>2. ASSUME NEW i \in 1 .. k + 1 PROVE g1[i] = GetChild(st, g1[i - 1], path[i])
  <2>1. CASE i = k + 1
    <3>1. i - 1 = k /\ k \in 0 .. k
      BY <2>1
    <3> QED
      BY <1>1, <2>1, <3>1
  <2>2. CASE i # k + 1
    <3>1. i \in 1 .. k /\ i \in 0 .. k /\ i - 1 \in 0 .. k
      BY <2>2
    <3> QED
      BY <1>1, <3>1
  <2> QED
    BY <2>1, <2>2
<1>3. g1[0] = Root
  BY <1>1
<1> QED
  BY <1>1, <1>2, <1>3 DEF Reaches

\* A path leads on to the same node whatever is added.
LEMMA KeepsReaches ==
  ASSUME NEW st, NEW new, Tree(st), Tree(new), Keeps(st, new), NEW path, NEW k \in Nat, NEW n,
         Reaches(st, path, k, n)
  PROVE  Reaches(new, path, k, n)
<1> PICK h \in [0 .. k -> NodesOf(st)] :
        /\ h[0] = Root /\ h[k] = n
        /\ \A i \in 1 .. k : h[i] = GetChild(st, h[i - 1], path[i])
  BY DEF Reaches
<1>1. h \in [0 .. k -> NodesOf(new)]
  BY DEF Keeps, NodesOf
<1>2. ASSUME NEW i \in 1 .. k PROVE h[i] = GetChild(new, h[i - 1], path[i])
  <2>1. i \in 0 .. k /\ i - 1 \in 0 .. k
    OBVIOUS
  <2>2. h[i] # Null /\ h[i - 1] \in NodesOf(st)
    BY <2>1 DEF NodesOf, Null
  <2> QED
    BY <2>2, KeepsFinds
<1> QED
  BY <1>1, <1>2 DEF Reaches

\* Nodes that are reached have the path that reached them: other paths lead
\* elsewhere.
LEMMA ChildLabelled ==
  ASSUME NEW st, Tree(st), NEW B, Labels(st, B), NEW p \in NodesOf(st), NEW s, s = Children(st, p)
  PROVE  \A i \in 1 .. Len(s) : B[s[i]] = PathOf(st, B, p)
<1>1. p \in DOMAIN st.node
  BY DEF NodesOf
<1>2. s \in Seq(NodesOf(st)) /\ Len(s) \in Nat
  BY <1>1, ListFacts
<1> DEFINE K == {k \in Nat : k + 1 <= Len(s) => B[s[k + 1]] = PathOf(st, B, p)}
<1>3. 0 \in K
  <2> SUFFICES ASSUME 1 <= Len(s) PROVE B[s[1]] = PathOf(st, B, p)
    OBVIOUS
  <2>1. s # <<>> /\ 1 \in 1 .. Len(s)
    BY <1>2
  <2>2. s[1] = st.node[p].children /\ st.node[p].children # Null
    BY <1>1, <2>1, ListFacts
  <2> QED
    BY <2>2 DEF Labels
<1>4. ASSUME NEW k \in K PROVE k + 1 \in K
  <2> SUFFICES ASSUME k + 2 <= Len(s) PROVE B[s[k + 2]] = PathOf(st, B, p)
    OBVIOUS
  <2>1. k + 1 \in 1 .. Len(s) - 1 /\ k + 1 \in 1 .. Len(s) /\ (k + 1) + 1 = k + 2
    BY <1>2
  <2>2. s[k + 2] = st.node[s[k + 1]].next /\ st.node[s[k + 1]].next # Null /\ s[k + 1] \in NodesOf(st)
    BY <1>1, <1>2, <2>1, ListFacts
  <2>3. B[s[k + 2]] = B[s[k + 1]]
    BY <2>2 DEF Labels
  <2>4. B[s[k + 1]] = PathOf(st, B, p)
    BY <2>1
  <2> QED
    BY <2>3, <2>4
<1>5. K \subseteq Nat
  OBVIOUS
<1> HIDE DEF K
<1>6. K = Nat
  BY <1>3, <1>4, <1>5, Successors
<1> TAKE i \in 1 .. Len(s)
<1>7. i - 1 \in K /\ (i - 1) + 1 = i /\ i <= Len(s)
  BY <1>2, <1>6
<1> QED
  BY <1>7 DEF K

LEMMA LeadsLabelled ==
  ASSUME NEW st, Tree(st), NEW B, Labels(st, B), NEW path \in Seq(Names), NEW n, Leads(st, path, n)
  PROVE  PathOf(st, B, n) = path
<1> PICK l \in Nat : l = Len(path)
  OBVIOUS
<1> PICK h \in [0 .. l -> NodesOf(st)] :
        /\ h[0] = Root /\ h[l] = n
        /\ \A i \in 1 .. l : h[i] = GetChild(st, h[i - 1], path[i])
  BY DEF Leads, Reaches
<1> DEFINE Path(k) == PathOf(st, B, h[k])
           K == {k \in Nat : k <= l => /\ Path(k) \in Seq(Names) /\ Len(Path(k)) = k
                                       /\ \A i \in 1 .. k : Path(k)[i] = path[i]}
<1>1. 0 \in K
  BY DEF PathOf
<1>2. ASSUME NEW k \in K PROVE k + 1 \in K
  <2> SUFFICES ASSUME k + 1 <= l
               PROVE  /\ Path(k + 1) \in Seq(Names) /\ Len(Path(k + 1)) = k + 1
                      /\ \A i \in 1 .. k + 1 : Path(k + 1)[i] = path[i]
    OBVIOUS
  <2>1. Path(k) \in Seq(Names) /\ Len(Path(k)) = k /\ \A i \in 1 .. k : Path(k)[i] = path[i]
    OBVIOUS
  <2>2. k \in Nat /\ k \in 0 .. l /\ k + 1 \in 0 .. l /\ k + 1 \in 1 .. l /\ (k + 1) - 1 = k
    OBVIOUS
  <2> PICK p \in NodesOf(st), c \in NodesOf(st) : p = h[k] /\ c = h[k + 1]
    BY <2>2
  <2>3. c = GetChild(st, p, path[k + 1]) /\ c # Null /\ p \in DOMAIN st.node
    BY <2>2 DEF NodesOf, Null
  <2> HIDE DEF K, Path
  <2> PICK s, name : s = Children(st, p) /\ name = path[k + 1]
    OBVIOUS
  <2>4. PICK i : FirstNamed(st, s, name, i) /\ c = s[i]
    BY <2>3, GetChildFacts
  <2>5. B[c] = PathOf(st, B, p) /\ NameOf(st, c) = path[k + 1]
    BY <2>4, ChildLabelled DEF FirstNamed
  <2>6. c # Root
    <3>1. i \in 1 .. Len(s) /\ s \in Seq(NodesOf(st))
      BY <2>3, <2>4, ListFacts DEF FirstNamed
    <3>2. IsList(st, p, s)
      BY <2>3, ChildrenList
    <3>3. s[1] = st.node[p].children /\ s[1] # Null /\ 1 \in 1 .. Len(s)
      <4>1. s # <<>> /\ 1 \in 1 .. Len(s)
        BY <3>1
      <4> QED
        BY <2>3, <3>1, <4>1, ListFacts
    <3>4. p < s[1] /\ (i = 1 \/ s[1] < s[i])
      <4>1. p < s[1]
        BY <3>3 DEF Tree, Pointers
      <4>2. 1 < i => s[1] < s[i]
        BY <3>1, <3>2, <3>3 DEF IsList, IsChain
      <4> QED
        BY <3>1, <4>1, <4>2
    <3>5. p \in Nat \ {0} /\ s[1] \in Nat /\ s[i] \in Nat
      <4> PICK m \in Nat : DOMAIN st.node = 0 .. m
        BY StoreShape DEF Tree
      <4>1. NodesOf(st) \subseteq Nat \ {0}
        BY DEF NodesOf
      <4>2. s[1] \in NodesOf(st) /\ s[i] \in NodesOf(st) /\ p \in NodesOf(st)
        BY <3>1, <3>3
      <4> QED
        BY <4>1, <4>2
    <3> QED
      BY <2>4, <3>4, <3>5 DEF Root
  <2>7. Path(k + 1) = Append(Path(k), path[k + 1])
    BY <2>5, <2>6 DEF PathOf, Path
  <2>8. path[k + 1] \in Names
    BY <2>2
  <2> PICK t \in Seq(Names), u \in Names : t = Path(k) /\ u = path[k + 1]
    BY <2>1, <2>8
  <2>9. /\ Append(t, u) \in Seq(Names) /\ Len(Append(t, u)) = k + 1 /\ Append(t, u)[k + 1] = u
        /\ \A j \in 1 .. k : Append(t, u)[j] = t[j]
    BY <2>1, <2>2
  <2>10. \A j \in 1 .. k + 1 : Append(t, u)[j] = path[j]
    <3> TAKE j \in 1 .. k + 1
    <3>1. j = k + 1 \/ j \in 1 .. k
      BY <2>2
    <3> QED
      BY <2>1, <2>9, <3>1
  <2> QED
    BY <2>7, <2>9, <2>10
<1>3. K \subseteq Nat
  OBVIOUS
<1> HIDE DEF K
<1>4. K = Nat
  BY <1>1, <1>2, <1>3, Successors
<1>5. Path(l) \in Seq(Names) /\ Len(Path(l)) = l /\ \A i \in 1 .. l : Path(l)[i] = path[i]
  BY <1>4 DEF K
<1> QED
  BY <1>5

LEMMA LeadsApart ==
  ASSUME NEW st, Tree(st), NEW p \in Seq(Names), NEW q \in Seq(Names), NEW n,
         Leads(st, p, n), Leads(st, q, n)
  PROVE  p = q
<1> PICK B : Labels(st, B)
  BY DEF Tree
<1> QED
  BY LeadsLabelled

-----------------------------------------------------------------------------
(* The calls.                                                                *)

\* A step of vfs_get_tree_node: the child is there afterwards.
Places == {at \in [st : Stores, node : Nat] : Good(at.st) /\ at.node \in NodesOf(at.st)}

LEMMA Resolved ==
  ASSUME NEW st, Good(st), NEW p \in NodesOf(st), NEW name \in Names, NEW garbage \in BOOLEAN,
         NEW r, r = Resolve([st |-> st, node |-> p], name, garbage)
  PROVE  r \in Places /\ Grows(st, r.st) /\ GetChild(r.st, p, name) = r.node
<1> PICK e, c : e = WithEntry(st, name, garbage) /\ c = GetChild(st, p, name)
  OBVIOUS
<1>1. r = IF c # Null THEN [st |-> st, node |-> c]
          ELSE [st |-> InsertChild(e, p, Max(DOMAIN e.entry)), node |-> Fresh(st.node)]
  BY DEF Resolve
<1>2. Tree(st) /\ p \in DOMAIN st.node /\ p # 0
  BY DEF Good, NodesOf
<1>3. ASSUME NEW a, Good(a), NEW n \in NodesOf(a) PROVE [st |-> a, node |-> n] \in Places
  <2>1. a \in Stores
    BY <1>3 DEF Good, Tree
  <2>2. n \in Nat
    BY <2>1, StoreShape DEF NodesOf
  <2> QED
    BY <1>3, <2>1, <2>2 DEF Places
<1>4. CASE c # Null
  <2>1. c \in NodesOf(st)
    BY <1>2, <1>4, GetChildFacts
  <2>2. Grows(st, st)
    BY <1>2, GrowsReflexive
  <2>3. r = [st |-> st, node |-> c] /\ r.st = st /\ r.node = c
    BY <1>1, <1>4
  <2> QED
    BY <1>3, <2>1, <2>2, <2>3
<1>5. CASE c = Null
  <2> PICK new, n : new = InsertChild(e, p, Max(DOMAIN e.entry)) /\ n = Fresh(st.node)
    OBVIOUS
  <2>1. r = [st |-> new, node |-> n] /\ r.st = new /\ r.node = n
    BY <1>1, <1>5
  <2>2. /\ Good(new) /\ Grows(st, new) /\ n \in NodesOf(new)
        /\ Children(new, p) = Append(Children(st, p), n) /\ NameOf(new, n) = name
    BY <1>2, FileAdded
  <2> PICK s, t : s = Children(st, p) /\ t = Append(s, n)
    OBVIOUS
  <2>3. s \in Seq(NodesOf(st)) /\ Len(s) \in Nat
    BY <1>2, ListFacts
  <2>4. \A i \in 1 .. Len(s) : NameOf(st, s[i]) # name
    <3>1. c = Null <=> \A k \in 1 .. Len(s) : NameOf(st, s[k]) # name
      BY <1>2, GetChildFacts
    <3> QED
      BY <1>5, <3>1
  <2>5. Len(t) = Len(s) + 1 /\ t[Len(s) + 1] = n /\ \A i \in 1 .. Len(s) : t[i] = s[i]
    BY <2>3
  <2>6. \A i \in 1 .. Len(s) : NameOf(new, t[i]) # name
    <3> TAKE i \in 1 .. Len(s)
    <3>1. s[i] \in NodesOf(st) /\ t[i] = s[i]
      BY <2>3, <2>5
    <3> QED
      BY <1>2, <2>2, <2>4, <3>1, GrowsKeeps DEF Keeps
  <2>7. FirstNamed(new, t, name, Len(s) + 1)
    <3>1. Len(s) + 1 \in 1 .. Len(t) /\ (Len(s) + 1) - 1 = Len(s)
      BY <2>3, <2>5
    <3> QED
      BY <2>2, <2>5, <2>6, <3>1 DEF FirstNamed
  <2>8. Tree(new) /\ p \in DOMAIN new.node /\ Children(new, p) = t
    BY <1>2, <2>2 DEF Good, Grows
  <2>9. GetChild(new, p, name) = n
    <3>1. FirstNamed(new, Children(new, p), name, Len(s) + 1)
      BY <2>7, <2>8
    <3>2. GetChild(new, p, name) = Children(new, p)[Len(s) + 1]
      BY <2>8, <3>1, FoundFirst
    <3> QED
      BY <2>5, <2>8, <3>2
  <2> QED
    BY <1>3, <2>1, <2>2, <2>9
<1> QED
  BY <1>4, <1>5

\* vfs_get_tree_node: what was there is still there, the path leads to a node, and
\* address 0 holds a copy of that node.
LEMMA TreeNodeFound ==
  ASSUME Good(vfs), NEW path \in Seq(Names), NEW garbage \in BOOLEAN,
         NEW new, new = GetTreeNode(path, garbage)
  PROVE  /\ Good(new) /\ Grows(vfs, new)
         /\ \E n \in NodesOf(new) : Leads(new, path, n) /\ new.node[0].value = new.node[n].value
<1> PICK l \in Nat : l = Len(path)
  OBVIOUS
<1> DEFINE start == [st |-> vfs, node |-> Root]
           Then(k, at) == Resolve(at, path[k], garbage)
           F == [q \in Nat \X Places |-> IF q[1] \in 1 .. l THEN Then(q[1], q[2]) ELSE q[2]]
           Along(f) == f = [k \in 0 .. l |-> IF k = 0 THEN start ELSE Then(k, f[k - 1])]
           w == CHOOSE f : Along(f)
           end == w[l]
<1>1. new = [end.st EXCEPT !.node[0] = end.st.node[end.node]]
  BY DEF GetTreeNode
<1>2. ASSUME NEW k \in 1 .. l, NEW at \in Places
      PROVE  Then(k, at) \in Places /\ Grows(at.st, Then(k, at).st) /\ GetChild(Then(k, at).st, at.node, path[k]) = Then(k, at).node
  <2>1. at = [st |-> at.st, node |-> at.node] /\ Good(at.st) /\ at.node \in NodesOf(at.st)
    BY DEF Places
  <2>2. path[k] \in Names
    OBVIOUS
  <2> QED
    BY <2>1, <2>2, Resolved
<1> HIDE DEF Then
<1>3. start \in Places
  <2>1. vfs \in Stores /\ Root \in NodesOf(vfs) /\ Root \in Nat
    BY DEF Good, Tree, Pointers, NodesOf, Root
  <2>2. start.st = vfs /\ start.node = Root /\ start \in [st : Stores, node : Nat]
    BY <2>1 DEF start
  <2> QED
    BY <2>1, <2>2 DEF Places
<1>4. F \in [Nat \X Places -> Places]
  <2>1. \A q \in Nat \X Places : q[1] \in Nat /\ q[2] \in Places
    OBVIOUS
  <2>2. \A q \in Nat \X Places : (IF q[1] \in 1 .. l THEN Then(q[1], q[2]) ELSE q[2]) \in Places
    BY <1>2, <2>1
  <2> QED
    BY <2>2
<1>5. \A k \in 1 .. l, at \in Places : F[<<k, at>>] = Then(k, at)
  OBVIOUS
<1> HIDE DEF F, start
<1>6. Histories(Places, l, start, F) # {}
  BY <1>3, <1>4, HistoryExists
<1>7. PICK h \in [0 .. l -> Places] : \A k \in 0 .. l : h[k] = IF k = 0 THEN start ELSE F[<<k, h[k - 1]>>]
  BY <1>6 DEF Histories
<1>8. ASSUME NEW k \in 0 .. l PROVE h[k] = IF k = 0 THEN start ELSE Then(k, h[k - 1])
  <2>1. k # 0 => k \in 1 .. l /\ k - 1 \in 0 .. l
    OBVIOUS
  <2>2. k # 0 => h[k - 1] \in Places
    BY <2>1
  <2> QED
    BY <1>5, <1>7, <2>1, <2>2
<1>9. Along(h)
  BY <1>8
<1> PICK u : u = w
  OBVIOUS
<1>10. Along(u)
  <2> HIDE DEF Along
  <2> QED
    BY <1>9
<1> PICK a : a = u[l]
  OBVIOUS
<1>11. new = Copied(a.st, a.st.node[a.node])
  BY <1>1 DEF Copied
<1> HIDE DEF w
<1> DEFINE K == {k \in Nat : k <= l => /\ u[k] \in Places /\ Grows(vfs, u[k].st)
                                       /\ Reaches(u[k].st, path, k, u[k].node)}
<1>12. 0 \in K
  <2>1. u[0] = start
    BY <1>10
  <2>2. start.st = vfs /\ start.node = Root
    BY DEF start
  <2> QED
    BY <1>3, <2>1, <2>2, GrowsReflexive, RootReached DEF Good
<1>13. ASSUME NEW k \in K PROVE k + 1 \in K
  <2> SUFFICES ASSUME k + 1 <= l
               PROVE  /\ u[k + 1] \in Places /\ Grows(vfs, u[k + 1].st)
                      /\ Reaches(u[k + 1].st, path, k + 1, u[k + 1].node)
    OBVIOUS
  <2>1. /\ k \in Nat /\ k + 1 \in 0 .. l /\ k + 1 \in 1 .. l /\ k + 1 # 0 /\ (k + 1) - 1 = k
        /\ u[k] \in Places /\ Grows(vfs, u[k].st) /\ Reaches(u[k].st, path, k, u[k].node)
    OBVIOUS
  <2> PICK b, c : b = u[k] /\ c = u[k + 1]
    OBVIOUS
  <2>2. c = Then(k + 1, b)
    BY <1>10, <2>1
  <2> HIDE DEF K, Along
  <2>3. c \in Places /\ Grows(b.st, c.st) /\ GetChild(c.st, b.node, path[k + 1]) = c.node
    BY <1>2, <2>1, <2>2
  <2>4. /\ Tree(b.st) /\ Tree(c.st) /\ c.node \in NodesOf(c.st)
    BY <2>1, <2>3 DEF Places, Good
  <2>5. Tree(vfs)
    BY DEF Good
  <2>6. Grows(vfs, c.st)
    BY <2>1, <2>3, <2>4, <2>5, GrowsTransitive
  <2>7. Reaches(c.st, path, k, b.node)
    BY <2>1, <2>3, <2>4, GrowsKeeps, KeepsReaches
  <2>8. Reaches(c.st, path, k + 1, c.node)
    BY <2>1, <2>3, <2>4, <2>7, ReachesOn
  <2> QED
    BY <2>3, <2>6, <2>8
<1>14. K \subseteq Nat
  OBVIOUS
<1> HIDE DEF K
<1>15. K = Nat
  BY <1>12, <1>13, <1>14, Successors
<1>16. a \in Places /\ Grows(vfs, a.st) /\ Leads(a.st, path, a.node)
  BY <1>15 DEF K, Leads
<1> HIDE DEF Along
<1> PICK st, n : st = a.st /\ n = a.node
  OBVIOUS
<1>17. Good(st) /\ Tree(st) /\ Tree(vfs) /\ n \in NodesOf(st) /\ n \in DOMAIN st.node
  BY <1>16 DEF Places, Good, NodesOf
<1> PICK x : x = st.node[n]
  OBVIOUS
<1>19. Good(new) /\ Grows(st, new) /\ NodesOf(new) = NodesOf(st) /\ new.node[0] = x
  <2>1. new = Copied(st, st.node[n])
    BY <1>11
  <2> QED
    <3>1. /\ Good(Copied(st, st.node[n])) /\ Grows(st, Copied(st, st.node[n]))
          /\ NodesOf(Copied(st, st.node[n])) = NodesOf(st) /\ Copied(st, st.node[n]).node[0] = st.node[n]
      BY <1>17, NodeCopied, SMTT(60)
    <3> QED
      BY <2>1, <3>1
<1>20. new.node[n].value = x.value
  <2>1. \A q \in NodesOf(st) : new.node[q].value = st.node[q].value
    BY <1>19 DEF Grows
  <2>2. new.node[n].value = st.node[n].value
    BY <1>17, <2>1
  <2> QED
    BY <2>2
<1>21. Leads(new, path, n)
  <2>1. Tree(new)
    BY <1>19 DEF Good
  <2> QED
    BY <1>16, <1>17, <1>19, <2>1, GrowsKeeps, KeepsReaches DEF Leads
<1>22. Grows(vfs, new)
  BY <1>16, <1>17, <1>19, GrowsTransitive DEF Good
<1> QED
  BY <1>17, <1>19, <1>20, <1>21, <1>22

\* vfs_create_mountpoint: the copy gets another entry.
Mountpoint(e) == [e EXCEPT !.node[0].value = Max(DOMAIN e.entry)]

LEMMA MountpointSet ==
  ASSUME NEW st, Good(st), NEW name \in Names, NEW file \in BOOLEAN,
         NEW e, e = WithEntry(st, name, file), NEW to, to = Mountpoint(e)
  PROVE  Good(to) /\ Grows(st, to)
<1> PICK v : v = Max(DOMAIN e.entry)
  OBVIOUS
<1>2. Good(e) /\ Grows(st, e) /\ v \in DOMAIN e.entry
  BY EntryAdded
<1>3. e \in Stores /\ Pointers(e)
  BY <1>2 DEF Good, Tree
<1> PICK n \in Nat, m \in Nat : /\ e.node \in [0 .. n -> NodeRec] /\ DOMAIN e.node = 0 .. n
                                /\ e.entry \in [1 .. m -> EntryRec] /\ DOMAIN e.entry = 1 .. m
  BY <1>3, StoreShape
<1>4. e.node[0] \in NodeRec /\ 0 \in DOMAIN e.node /\ v \in Nat
  <2>1. 0 \in 0 .. n
    OBVIOUS
  <2>2. v \in 1 .. m
    BY <1>2
  <2> QED
    BY <2>1, <2>2
<1> PICK z \in NodeRec : z = e.node[0]
  BY <1>4
<1>5. PICK y \in NodeRec : /\ y.next = z.next /\ y.children = z.children /\ y.childs = z.childs
                          /\ to = Copied(e, y)
  <2> DEFINE x == [z EXCEPT !.value = v]
  <2>1. v \in Nat
    BY <1>4
  <2>2. x = [z EXCEPT !.value = v] /\ to = Copied(e, x)
    BY DEF Copied, Mountpoint
  <2> HIDE DEF x
  <2>3. x \in NodeRec /\ x.next = z.next /\ x.children = z.children /\ x.childs = z.childs
    BY <2>1, <2>2, ValueWritten
  <2> QED
    BY <2>2, <2>3
<1>7. y.next \in DOMAIN e.node /\ y.children \in DOMAIN e.node /\ (y.children # Null => y.childs # 0)
  BY <1>3, <1>4, <1>5 DEF Pointers
<1>8. Good(to) /\ Grows(e, to)
  BY <1>2, <1>5, <1>7, OnlyTheCopy
<1> QED
  BY <1>2, <1>8, GrowsTransitive DEF Good, Tree

\* A file that is added to the copy is added to the list of the node it is a copy
\* of, or to none.
FileInCopy(x, name, file) ==
  LET e == WithEntry(x, name, file) IN InsertChild(e, 0, Max(DOMAIN e.entry))

LEMMA FileInCopyAdded ==
  ASSUME NEW x, Good(x), NEW name \in Names, NEW file \in BOOLEAN
  PROVE  Good(FileInCopy(x, name, file)) /\ Grows(x, FileInCopy(x, name, file))
<1> PICK e, y : e = WithEntry(x, name, file) /\ y = FileInCopy(x, name, file)
  OBVIOUS
<1>1. y = InsertChild(e, 0, Max(DOMAIN e.entry))
  BY DEF FileInCopy
<1>2. 0 \in DOMAIN x.node
  BY StoreShape DEF Good, Tree
<1> QED
  BY <1>1, <1>2, FileAdded

\* vfs_mount_ustar, however many files the archive has.
LEMMA TarMounted ==
  ASSUME NEW st, Good(st)
  PROVE  Good(MountTar(st)) /\ Grows(st, MountTar(st))
<1>1. Tar \in Seq(Range(Tar)) /\ Range(Tar) \subseteq Names
  BY VfsNames DEF Names
<1> PICK l \in Nat : l = Len(Tar)
  BY <1>1
<1>2. \A k \in 1 .. l : Tar[k] \in Names
  BY <1>1 DEF Range
<1> DEFINE point == WithEntry(st, "ustar", TRUE)
           to == [point EXCEPT !.node[0].value = Max(DOMAIN point.entry)]
           P == {x \in Stores : Good(x) /\ Grows(st, x)}
           AddTo(e) == InsertChild(e, 0, Max(DOMAIN e.entry))
           Then(k, x) == AddTo(WithEntry(x, Tar[k], TRUE))
           F == [q \in Nat \X P |-> IF q[1] \in 1 .. l THEN Then(q[1], q[2]) ELSE q[2]]
           Along(f) == f = [k \in 0 .. l |-> IF k = 0 THEN to ELSE Then(k, f[k - 1])]
           w == CHOOSE f : Along(f)
<1>3. MountTar(st) = w[l]
  BY DEF MountTar
<1>4. to \in P
  <2>1. to = Mountpoint(point)
    BY Zenon DEF Mountpoint
  <2>2. "ustar" \in Names /\ TRUE \in BOOLEAN
    BY Zenon DEF Names
  <2> HIDE DEF to
  <2>3. Good(to) /\ Grows(st, to)
    BY <2>1, <2>2, MountpointSet, Zenon
  <2> QED
    BY <2>3, Zenon DEF Good, Tree
<1>5. ASSUME NEW k \in 1 .. l, NEW x \in P PROVE Then(k, x) \in P
  <2>1. Good(x) /\ Grows(st, x)
    OBVIOUS
  <2>2. Then(k, x) = FileInCopy(x, Tar[k], TRUE)
    BY Zenon DEF FileInCopy
  <2> HIDE DEF Then, P
  <2>3. Good(Then(k, x)) /\ Grows(x, Then(k, x))
    BY <1>2, <2>1, <2>2, FileInCopyAdded, Zenon
  <2>4. Grows(st, Then(k, x))
    BY <2>1, <2>3, GrowsTransitive, Zenon DEF Good
  <2> QED
    BY <2>3, <2>4, Zenon DEF P, Good, Tree
<1> HIDE DEF Then, to, P
<1>6. F \in [Nat \X P -> P]
  <2>1. \A q \in Nat \X P : q[1] \in Nat /\ q[2] \in P
    OBVIOUS
  <2>2. \A q \in Nat \X P : (IF q[1] \in 1 .. l THEN Then(q[1], q[2]) ELSE q[2]) \in P
    BY <1>5, <2>1
  <2> QED
    BY <2>2
<1>7. \A k \in 1 .. l, x \in P : F[<<k, x>>] = Then(k, x)
  OBVIOUS
<1> HIDE DEF F
<1>8. Histories(P, l, to, F) # {}
  BY <1>4, <1>6, HistoryExists
<1>9. PICK h \in [0 .. l -> P] : \A k \in 0 .. l : h[k] = IF k = 0 THEN to ELSE F[<<k, h[k - 1]>>]
  BY <1>8 DEF Histories
<1>10. ASSUME NEW k \in 0 .. l PROVE h[k] = IF k = 0 THEN to ELSE Then(k, h[k - 1])
  <2>1. k # 0 => k \in 1 .. l /\ k - 1 \in 0 .. l
    OBVIOUS
  <2>2. k # 0 => h[k - 1] \in P
    BY <2>1
  <2> QED
    BY <1>7, <1>9, <2>1, <2>2
<1>11. Along(h)
  BY <1>10
<1> PICK u : u = w
  OBVIOUS
<1>12. Along(u)
  <2> HIDE DEF Along
  <2> QED
    BY <1>11
<1>13. MountTar(st) = u[l]
  BY <1>3
<1> HIDE DEF w
<1> DEFINE K == {k \in Nat : k <= l => u[k] \in P}
<1>14. 0 \in K
  BY <1>4, <1>12
<1>15. ASSUME NEW k \in K PROVE k + 1 \in K
  <2> SUFFICES ASSUME k + 1 <= l PROVE u[k + 1] \in P
    OBVIOUS
  <2>1. k + 1 \in 0 .. l /\ k + 1 \in 1 .. l /\ k + 1 # 0 /\ (k + 1) - 1 = k /\ u[k] \in P
    OBVIOUS
  <2>2. u[k + 1] = Then(k + 1, u[k])
    BY <1>12, <2>1
  <2> QED
    BY <1>5, <2>1, <2>2
<1>16. K \subseteq Nat
  OBVIOUS
<1> HIDE DEF K
<1>17. K = Nat
  BY <1>14, <1>15, <1>16, Successors
<1>18. u[l] \in P
  BY <1>17 DEF K
<1> QED
  BY <1>13, <1>18 DEF P

\* add_device, through the copy of the node: that node's device changes, no other.
LEMMA DeviceStored ==
  ASSUME NEW st, Good(st), NEW n \in NodesOf(st), st.node[0].value = st.node[n].value,
         NEW dev \in Devices, NEW new, new = Stored(st, dev)
  PROVE  /\ Good(new) /\ Keeps(st, new)
         /\ \A m \in NodesOf(st) : new.entry[new.node[m].value].dev =
                                       IF m = n THEN dev ELSE st.entry[st.node[m].value].dev
<1>1. Tree(st) /\ Pointers(st) /\ Apart(st)
  BY DEF Good, Tree
<1> PICK v \in DOMAIN st.entry : v = st.node[0].value /\ v = st.node[n].value
  BY <1>1 DEF Pointers
<1>2. /\ Good(new) /\ new.node = st.node
      /\ \A q \in NodesOf(st) : Children(new, q) = Children(st, q)
      /\ \A u \in DOMAIN st.entry : /\ new.entry[u].name = st.entry[u].name
                                    /\ new.entry[u].dev = IF u = v THEN dev ELSE st.entry[u].dev
  BY OnlyTheDevice
<1>3. \A m \in NodesOf(st) : st.node[m].value \in DOMAIN st.entry /\ (st.node[m].value = v <=> m = n)
  BY <1>1 DEF Pointers, Apart
<1>4. \A m \in NodesOf(st) : NameOf(new, m) = NameOf(st, m)
  BY <1>2, <1>3 DEF NameOf
<1>5. \A m \in NodesOf(st) : Prefix(Children(st, m), Children(new, m))
  <2>1. \A m \in NodesOf(st) : m \in DOMAIN st.node
    BY DEF NodesOf
  <2>2. \A m \in NodesOf(st) : Len(Children(st, m)) \in Nat
    BY <1>1, <2>1, ListFacts
  <2> QED
    BY <1>2, <2>2 DEF Prefix
<1>6. Keeps(st, new)
  BY <1>2, <1>4, <1>5 DEF Keeps
<1> QED
  BY <1>2, <1>3, <1>6

\* Find walks along the path.
LEMMA Found ==
  ASSUME Tree(vfs), NEW path \in Seq(Names), NEW n, Leads(vfs, path, n)
  PROVE  Find(path) = n /\ n \in NodesOf(vfs) /\ n # Null
<1> PICK l \in Nat : l = Len(path)
  OBVIOUS
<1>1. PICK h \in [0 .. l -> NodesOf(vfs)] :
         /\ h[0] = Root /\ h[l] = n
         /\ \A i \in 1 .. l : h[i] = GetChild(vfs, h[i - 1], path[i])
  BY DEF Leads, Reaches
<1> DEFINE Then(k, at) == IF at = Null THEN Null ELSE GetChild(vfs, at, path[k])
           Along(f) == f = [k \in 0 .. l |-> IF k = 0 THEN Root ELSE Then(k, f[k - 1])]
           w == CHOOSE f : Along(f)
<1>2. Find(path) = w[l]
  BY DEF Find
<1>3. \A k \in 0 .. l : h[k] \in NodesOf(vfs) /\ h[k] # Null
  BY <1>1 DEF NodesOf, Null
<1>4. ASSUME NEW k \in 0 .. l PROVE h[k] = IF k = 0 THEN Root ELSE Then(k, h[k - 1])
  <2>1. k # 0 => k \in 1 .. l /\ k - 1 \in 0 .. l
    OBVIOUS
  <2> QED
    BY <1>1, <1>3, <2>1
<1> HIDE DEF Then
<1>5. Along(h)
  BY <1>1, <1>4
<1> PICK u : u = w
  OBVIOUS
<1>6. Along(u)
  <2> HIDE DEF Along
  <2> QED
    BY <1>5
<1>7. Find(path) = u[l]
  BY <1>2
<1> HIDE DEF w
<1> DEFINE K == {k \in Nat : k <= l => u[k] = h[k]}
<1>8. 0 \in K
  BY <1>1, <1>6
<1>9. ASSUME NEW k \in K PROVE k + 1 \in K
  <2> SUFFICES ASSUME k + 1 <= l PROVE u[k + 1] = h[k + 1]
    OBVIOUS
  <2>1. k + 1 \in 0 .. l /\ k + 1 # 0 /\ (k + 1) - 1 = k /\ u[k] = h[k]
    OBVIOUS
  <2>2. u[k + 1] = Then(k + 1, u[k])
    BY <1>6, <2>1
  <2>3. h[k + 1] = Then(k + 1, h[k])
    BY <1>4, <2>1
  <2> QED
    BY <2>1, <2>2, <2>3
<1>10. K \subseteq Nat
  OBVIOUS
<1> HIDE DEF K
<1>11. K = Nat
  BY <1>8, <1>9, <1>10, Successors
<1>12. u[l] = h[l] /\ l \in 0 .. l
  BY <1>11 DEF K
<1> QED
  BY <1>1, <1>3, <1>7, <1>12

-----------------------------------------------------------------------------
(* The invariant.                                                            *)

Typed == /\ types \in Seq(Types) /\ Len(types) <= Len(Drives) /\ select \in 0 .. Len(types)
         /\ ret \in {"SUCCESS", "EUSED", "EINVAL", "ERELATIVE"} /\ calls \in 0 .. MaxCalls

\* Every device that was added is in the entry of the node its path leads to.
Device(st, n) == st.entry[st.node[n].value].dev
Held == /\ DOMAIN added \subseteq Seq(Names)
        /\ \A q \in DOMAIN added : \E n \in NodesOf(vfs) : Leads(vfs, q, n) /\ Device(vfs, n) = added[q]

\* As long as there is only init_disk, the drives of a kind have the first of its
\* names; the drive to return has /dev/hda.
DrivesOf(kind) == {k \in DOMAIN types : types[k] \in kind}
At(q, dev) == q \in DOMAIN added /\ added[q] = dev
Given(kind, names) == \A k \in DrivesOf(kind) : \E i \in 1 .. Cardinality(DrivesOf(kind)) :
                         At(<<"dev", names[i]>>, Drives[k])
Selected == IF select = 0 THEN Cardinality(DrivesOf(Fixed)) = 0
            ELSE Cardinality(DrivesOf(Fixed)) >= 1 /\ At(<<"dev", HdNames[1]>>, Drives[select])
Named == calls = 0 => Given(Fixed, HdNames) /\ Given(Optical, CdNames) /\ Selected

VfsInv == Good(vfs) /\ Typed /\ Held /\ Named

LEMMA NamesTyped ==
  /\ HdNames \in Seq(Names) /\ CdNames \in Seq(Names) /\ \A p \in Paths : p \in Seq(Names)
  /\ Drives \in Seq(Devices) /\ Range(Drives) \subseteq Devices /\ "dev" \in Names
  /\ \A i \in DOMAIN HdNames : HdNames[i] \in Names
  /\ \A i \in DOMAIN CdNames : CdNames[i] \in Names
<1>1. /\ HdNames \in Seq(Range(HdNames)) /\ CdNames \in Seq(Range(CdNames))
      /\ Drives \in Seq(Range(Drives)) /\ \A p \in Paths : p \in Seq(Range(p))
  BY VfsNames
<1>2. /\ Range(HdNames) \subseteq Names /\ Range(CdNames) \subseteq Names /\ "dev" \in Names
      /\ \A p \in Paths : Range(p) \subseteq Names
  BY DEF Names
<1>3. Range(Drives) \subseteq Devices
  BY DEF Devices
<1>4. ASSUME NEW S, NEW T, S \subseteq T, NEW s \in Seq(S) PROVE s \in Seq(T)
  BY <1>4
<1>5. \A p \in Paths : p \in Seq(Names)
  BY <1>1, <1>2, <1>4
<1>6. HdNames \in Seq(Names) /\ CdNames \in Seq(Names) /\ Drives \in Seq(Devices)
  BY <1>1, <1>2, <1>3, <1>4
<1>7. /\ \A i \in DOMAIN HdNames : HdNames[i] \in Names
      /\ \A i \in DOMAIN CdNames : CdNames[i] \in Names
  BY <1>6
<1> QED
  BY <1>2, <1>3, <1>5, <1>6, <1>7

LEMMA HeldGrows ==
  ASSUME Good(vfs), Good(vfs'), Grows(vfs, vfs'), Held, UNCHANGED added
  PROVE  Held'
<1>1. Tree(vfs) /\ Tree(vfs') /\ Pointers(vfs) /\ Keeps(vfs, vfs')
  BY GrowsKeeps DEF Good, Tree
<1>2. ASSUME NEW q \in DOMAIN added
      PROVE  \E n \in NodesOf(vfs') : Leads(vfs', q, n) /\ Device(vfs', n) = added[q]
  <2> PICK n \in NodesOf(vfs) : Leads(vfs, q, n) /\ Device(vfs, n) = added[q]
    BY DEF Held
  <2>1. n \in NodesOf(vfs')
    BY DEF Grows, NodesOf
  <2>2. Leads(vfs', q, n)
    <3>1. Len(q) \in Nat
      BY DEF Held
    <3> QED
      BY <1>1, <3>1, KeepsReaches DEF Leads
  <2>3. Device(vfs', n) = Device(vfs, n)
    <3>1. vfs.node[n].value \in DOMAIN vfs.entry
      BY <1>1 DEF Pointers
    <3> QED
      BY <3>1 DEF Grows, Device
  <2> QED
    BY <2>1, <2>2, <2>3
<1> QED
  BY <1>2 DEF Held

\* add_device: the device is under its path, and the others are where they were.
LEMMA DeviceAdded ==
  ASSUME Good(vfs), Held, NEW dev \in Devices, NEW path \in Seq(Names), NEW garbage \in BOOLEAN,
         AddDevice(dev, path, garbage)
  PROVE  /\ Good(vfs') /\ Held' /\ ret' = "SUCCESS"
         /\ At(path, dev)' /\ \A q, d : q # path /\ At(q, d) => At(q, d)'
<1> PICK g1 : g1 = GetTreeNode(path, garbage)
  OBVIOUS
<1>1. Good(g1) /\ Grows(vfs, g1)
  BY TreeNodeFound
<1>2. PICK n \in NodesOf(g1) : Leads(g1, path, n) /\ g1.node[0].value = g1.node[n].value
  BY TreeNodeFound
<1>3. vfs' = Stored(g1, dev) /\ added' = With(added, path, dev) /\ ret' = "SUCCESS"
  BY DEF AddDevice
<1> PICK new : new = vfs'
  OBVIOUS
<1>4. /\ Good(new) /\ Keeps(g1, new)
      /\ \A m \in NodesOf(g1) : Device(new, m) = IF m = n THEN dev ELSE Device(g1, m)
  BY <1>1, <1>2, <1>3, DeviceStored DEF Device
<1>5. /\ DOMAIN added' = DOMAIN added \cup {path} /\ added'[path] = dev
      /\ \A q \in DOMAIN added : q # path => added'[q] = added[q]
  BY <1>3 DEF With
<1>6. At(path, dev)' /\ \A q, d : q # path /\ At(q, d) => At(q, d)'
  BY <1>5 DEF At
<1>7. Tree(vfs) /\ Pointers(vfs) /\ Tree(g1) /\ Tree(new) /\ Keeps(vfs, g1) /\ NodesOf(g1) \subseteq NodesOf(new)
  BY <1>1, <1>4, GrowsKeeps DEF Good, Tree, Keeps, NodesOf
<1>8. ASSUME NEW q \in DOMAIN added'
      PROVE  \E m \in NodesOf(new) : Leads(new, q, m) /\ Device(new, m) = added'[q]
  <2>1. CASE q = path
    <3>1. Len(path) \in Nat
      OBVIOUS
    <3>2. Leads(new, path, n)
      BY <1>2, <1>4, <1>7, <3>1, KeepsReaches DEF Leads
    <3> QED
      BY <1>4, <1>5, <1>7, <2>1, <3>2
  <2>2. CASE q # path
    <3>1. q \in DOMAIN added /\ q \in Seq(Names) /\ Len(q) \in Nat /\ added'[q] = added[q]
      <4>1. q \in DOMAIN added
        BY <1>5, <1>8, <2>2
      <4> QED
        BY <1>5, <2>2, <4>1 DEF Held
    <3> PICK m \in NodesOf(vfs) : Leads(vfs, q, m) /\ Device(vfs, m) = added[q]
      BY <3>1 DEF Held
    <3>2. m \in NodesOf(g1)
      BY <1>7 DEF Keeps, NodesOf
    <3>3. Leads(g1, q, m)
      BY <1>7, <3>1, KeepsReaches DEF Leads
    <3>4. Leads(new, q, m)
      BY <1>4, <1>7, <3>1, <3>3, KeepsReaches DEF Leads
    <3>5. m # n
      BY <1>2, <1>7, <2>2, <3>1, <3>3, LeadsApart
    <3>6. Device(g1, m) = Device(vfs, m)
      <4>1. vfs.node[m].value \in DOMAIN vfs.entry
        BY <1>7 DEF Pointers
      <4> QED
        BY <1>1, <4>1 DEF Grows, Device
    <3> QED
      BY <1>4, <1>7, <3>1, <3>2, <3>4, <3>5, <3>6
  <2> QED
    BY <2>1, <2>2
<1>9. DOMAIN added' \subseteq Seq(Names)
  BY <1>5 DEF Held
<1> QED
  BY <1>3, <1>4, <1>6, <1>8, <1>9 DEF Held

-----------------------------------------------------------------------------

LEMMA InitGood ==
  ASSUME Init
  PROVE  Good(vfs)
<1>1. /\ vfs.node = [n \in 0 .. 1 |-> NewNode(n)] /\ vfs.nodes = 0
      /\ vfs.entry = [n \in {1} |-> [name |-> "[root]", file |-> FALSE, dev |-> NoDevice]]
      /\ vfs = [node |-> vfs.node, entry |-> vfs.entry, nodes |-> vfs.nodes]
  BY DEF Init, Root
<1>2. /\ DOMAIN vfs.node = 0 .. 1 /\ NodesOf(vfs) = {1}
      /\ \A n \in 0 .. 1 : /\ vfs.node[n] \in NodeRec /\ vfs.node[n].value = n /\ vfs.node[n].next = Null
                           /\ vfs.node[n].children = Null /\ vfs.node[n].childs = 0
  BY <1>1 DEF NodesOf, NewNode, NodeRec, Null
<1>3. vfs.entry \in [1 .. 1 -> EntryRec] /\ DOMAIN vfs.entry = 1 .. 1
  <2>1. [name |-> "[root]", file |-> FALSE, dev |-> NoDevice] \in EntryRec
    BY Zenon DEF EntryRec, Names, Devices
  <2>2. 1 .. 1 = {1}
    OBVIOUS
  <2> QED
    BY <1>1, <2>1, <2>2, Zenon
<1>4. vfs \in Stores
  <2>1. vfs.node \in [0 .. 1 -> NodeRec] /\ 0 \in Nat /\ 1 \in Nat
    BY <1>1, <1>2
  <2>2. vfs.node \in UNION {[0 .. n -> NodeRec] : n \in Nat} /\ vfs.entry \in UNION {[1 .. n -> EntryRec] : n \in Nat}
    BY <1>3, <2>1
  <2> QED
    BY <1>1, <2>1, <2>2, Zenon DEF Stores
<1>5. Pointers(vfs) /\ Apart(vfs)
  BY <1>2, <1>3 DEF Pointers, Apart, Null, Root
<1>6. \E B : Labels(vfs, B)
  <2> DEFINE B == [q \in {1} |-> <<>>]
  <2>1. B \in [{1} -> Seq(Names)]
    OBVIOUS
  <2>2. Labels(vfs, B)
    BY <1>2, <2>1 DEF Labels
  <2> QED
    BY <2>2
<1>7. Tree(vfs)
  BY <1>4, <1>5, <1>6 DEF Tree
<1>8. Counted(vfs)
  <2>1. Len(Children(vfs, 1)) \in Nat
    BY <1>2, <1>7, ListFacts
  <2> QED
    BY <1>2, <2>1 DEF Counted
<1> QED
  BY <1>7, <1>8 DEF Good

LEMMA InitVfsInv ==
  ASSUME Init
  PROVE  VfsInv
<1>1. Good(vfs)
  BY InitGood
<1>2. types = <<>> /\ select = 0 /\ ret = "SUCCESS" /\ calls = 0 /\ DOMAIN added = {}
  BY DEF Init
<1>3. Typed
  <2>1. Len(Drives) \in Nat
    BY NamesTyped
  <2> QED
    BY <1>2, <2>1, VfsSizes DEF Typed
<1>4. Held
  BY <1>2 DEF Held
<1>5. \A kind : DrivesOf(kind) = {}
  BY <1>2 DEF DrivesOf
<1>6. Cardinality({}) = 0
  BY FS_EmptySet
<1>7. Named
  BY <1>2, <1>5, <1>6 DEF Named, Given, Selected
<1> QED
  BY <1>1, <1>3, <1>4, <1>7 DEF VfsInv

\* How many drives of a kind there are.
LEMMA DrivesCounted ==
  ASSUME Typed, NEW kind
  PROVE  /\ IsFiniteSet(DrivesOf(kind)) /\ Cardinality(DrivesOf(kind)) \in Nat
         /\ Cardinality(DrivesOf(kind)) <= Len(types) /\ DrivesOf(kind) \subseteq 1 .. Len(types)
<1>1. Len(types) \in Nat /\ DOMAIN types = 1 .. Len(types)
  BY DEF Typed
<1>2. DrivesOf(kind) \subseteq 1 .. Len(types)
  BY <1>1 DEF DrivesOf
<1>3. IsFiniteSet(1 .. Len(types)) /\ Cardinality(1 .. Len(types)) = Len(types)
  <2> PICK l \in Nat : l = Len(types)
    BY <1>1
  <2>1. IsFiniteSet(1 .. l) /\ Cardinality(1 .. l) = IF 1 > l THEN 0 ELSE l - 1 + 1
    <3>1. 1 \in Int /\ l \in Int
      OBVIOUS
    <3> QED
      BY <3>1, FS_Interval
  <2> QED
    BY <2>1
<1>4. IsFiniteSet(DrivesOf(kind)) /\ Cardinality(DrivesOf(kind)) <= Cardinality(1 .. Len(types))
  <2>1. DrivesOf(kind) \in SUBSET (1 .. Len(types))
    BY <1>2
  <2> QED
    BY <1>3, <2>1, FS_Subset
<1>5. Cardinality(DrivesOf(kind)) \in Nat
  BY <1>4, FS_CardinalityType
<1> QED
  BY <1>2, <1>3, <1>4, <1>5

LEMMA DriveCounted ==
  ASSUME Typed, NEW t \in Types, types' = Append(types, t), NEW kind
  PROVE  /\ DrivesOf(kind)' = IF t \in kind THEN DrivesOf(kind) \cup {Len(types) + 1} ELSE DrivesOf(kind)
         /\ Cardinality(DrivesOf(kind)') = Cardinality(DrivesOf(kind)) + (IF t \in kind THEN 1 ELSE 0)
<1>1. types \in Seq(Types) /\ Len(types) \in Nat /\ DOMAIN types = 1 .. Len(types)
  BY DEF Typed
<1>2. /\ DOMAIN types' = 1 .. Len(types) + 1 /\ types'[Len(types) + 1] = t
      /\ \A k \in 1 .. Len(types) : types'[k] = types[k]
  BY <1>1
<1>3. DrivesOf(kind)' = IF t \in kind THEN DrivesOf(kind) \cup {Len(types) + 1} ELSE DrivesOf(kind)
  <2>1. \A k \in 1 .. Len(types) + 1 : k = Len(types) + 1 \/ k \in 1 .. Len(types)
    BY <1>1
  <2> QED
    BY <1>1, <1>2, <2>1 DEF DrivesOf
<1>4. Len(types) + 1 \notin DrivesOf(kind) /\ IsFiniteSet(DrivesOf(kind)) /\ Cardinality(DrivesOf(kind)) \in Nat
  BY <1>1, DrivesCounted
<1>5. Cardinality(DrivesOf(kind) \cup {Len(types) + 1}) = Cardinality(DrivesOf(kind)) + 1
  BY <1>4, FS_AddElement
<1> QED
  BY <1>3, <1>4, <1>5

\* A name of the list is one list's, at one place.
LEMMA NamesDiffer ==
  ASSUME NEW i \in DOMAIN HdNames, NEW j \in DOMAIN CdNames
  PROVE  /\ HdNames[i] # CdNames[j]
         /\ \A k \in DOMAIN HdNames : k # i => HdNames[k] # HdNames[i]
         /\ \A k \in DOMAIN CdNames : k # j => CdNames[k] # CdNames[j]
<1>1. HdNames[i] \in Range(HdNames) /\ CdNames[j] \in Range(CdNames)
  BY DEF Range
<1> QED
  BY <1>1, VfsNames DEF IsInjective

\* The drives of a kind keep their names in a step.
Stay(kind, names) == \A i \in 1 .. Cardinality(DrivesOf(kind)) :
                        \A d : At(<<"dev", names[i]>>, d) => At(<<"dev", names[i]>>, d)'

\* One more drive of a kind gets the next of its names; what the drives before it
\* got stays theirs.
LEMMA GivenOnMore ==
  ASSUME Typed, NEW t \in Types, Len(types) < Len(Drives), types' = Append(types, t), NEW kind,
         NEW names, t \in kind, Given(kind, names), Stay(kind, names),
         NEW k0, k0 = Len(types) + 1, NEW c0, c0 = NameIndex(kind),
         At(<<"dev", names[c0]>>, Drives[k0])'
  PROVE  Given(kind, names)'
<1> PICK C \in Nat : C = Cardinality(DrivesOf(kind))
  BY DrivesCounted
<1>1. /\ DrivesOf(kind)' = DrivesOf(kind) \cup {Len(types) + 1}
      /\ Cardinality(DrivesOf(kind)') = C + 1
  BY DriveCounted
<1>2. NameIndex(kind) = C + 1
  BY DEF NameIndex, DrivesOf
<1>3. ASSUME NEW k \in DrivesOf(kind)'
      PROVE  \E i \in 1 .. C + 1 : At(<<"dev", names[i]>>, Drives[k])'
  <2>1. CASE k = Len(types) + 1
    <3>1. C + 1 \in 1 .. C + 1
      OBVIOUS
    <3> QED
      BY <1>2, <2>1, <3>1, Zenon
  <2>2. CASE k # Len(types) + 1
    <3>1. k \in DrivesOf(kind)
      BY <1>1, <1>3, <2>2
    <3> PICK i \in 1 .. C : At(<<"dev", names[i]>>, Drives[k])
      BY <3>1 DEF Given
    <3>2. At(<<"dev", names[i]>>, Drives[k])' /\ i \in 1 .. C + 1
      BY DEF Stay
    <3> QED
      BY <3>2
  <2> QED
    BY <2>1, <2>2
<1> QED
  BY <1>1, <1>3 DEF Given

LEMMA GivenOnSame ==
  ASSUME Typed, NEW t \in Types, types' = Append(types, t), NEW kind, NEW names, t \notin kind,
         Given(kind, names), Stay(kind, names)
  PROVE  Given(kind, names)'
<1>1. DrivesOf(kind)' = DrivesOf(kind)
  BY DriveCounted
<1> QED
  BY <1>1 DEF Given, Stay

LEMMA OthersOnSame ==
  ASSUME Typed, NEW t \in Types, types' = Append(types, t), t \notin Fixed, select' = select,
         Given(Fixed, HdNames), Selected, Stay(Fixed, HdNames)
  PROVE  Given(Fixed, HdNames)' /\ Selected'
<1>1. Given(Fixed, HdNames)'
  BY GivenOnSame
<1>2. DrivesOf(Fixed)' = DrivesOf(Fixed) /\ Cardinality(DrivesOf(Fixed)) \in Nat
  BY DriveCounted, DrivesCounted
<1>3. ASSUME select = 0 PROVE Selected'
  <2>1. Cardinality(DrivesOf(Fixed)) = 0
    BY <1>3 DEF Selected
  <2>2. Cardinality(DrivesOf(Fixed)') = 0 /\ select' = 0
    BY <1>2, <1>3, <2>1
  <2> QED
    BY <2>2 DEF Selected
<1>4. ASSUME select # 0 PROVE Selected'
  <2>1. 1 \in 1 .. Cardinality(DrivesOf(Fixed)) /\ At(<<"dev", HdNames[1]>>, Drives[select])
    BY <1>2, <1>4 DEF Selected
  <2>2. At(<<"dev", HdNames[1]>>, Drives[select])'
    BY <2>1 DEF Stay
  <2>3. Cardinality(DrivesOf(Fixed)) >= 1
    BY <1>4 DEF Selected
  <2>4. Cardinality(DrivesOf(Fixed)') >= 1 /\ select' # 0
    BY <1>2, <1>4, <2>3
  <2> QED
    BY <2>2, <2>4 DEF Selected
<1> QED
  BY <1>1, <1>3, <1>4

\* init_disk adds a drive of one kind: no path of the other kind is touched.
LEMMA InitDriveKeeps ==
  ASSUME VfsInv, NEW t \in Types, NEW garbage \in BOOLEAN, InitDrive(t, garbage)
  PROVE  VfsInv'
<1> PICK k \in Nat, F \in Nat, C \in Nat :
         k = Len(types) + 1 /\ F = Cardinality(DrivesOf(Fixed)) /\ C = Cardinality(DrivesOf(Optical))
  BY DrivesCounted DEF VfsInv, Typed
<1>1. Good(vfs) /\ Typed /\ Held /\ Named
  BY DEF VfsInv
<1>2. /\ k <= Len(Drives) /\ types' = Append(types, t) /\ calls' = calls
      /\ select' = IF t \in Fixed /\ select = 0 THEN k ELSE select
  BY DEF InitDrive
<1>3. /\ Len(Drives) \in Nat /\ Len(types) \in Nat /\ Len(types) < Len(Drives) /\ k \in 1 .. Len(Drives)
      /\ F <= Len(types) /\ C <= Len(types) /\ Drives[k] \in Devices
      /\ F + 1 \in DOMAIN HdNames /\ C + 1 \in DOMAIN CdNames
      /\ 1 .. F \subseteq DOMAIN HdNames /\ 1 .. C \subseteq DOMAIN CdNames
  <2>1. Len(Drives) \in Nat /\ Len(types) \in Nat /\ k \in 1 .. Len(Drives)
    BY <1>1, <1>2, NamesTyped DEF Typed
  <2>2. F <= Len(types) /\ C <= Len(types)
    BY <1>1, DrivesCounted
  <2>3. /\ DOMAIN HdNames = 1 .. Len(HdNames) /\ DOMAIN CdNames = 1 .. Len(CdNames)
        /\ Len(HdNames) \in Nat /\ Len(CdNames) \in Nat
    BY NamesTyped
  <2>4. Drives[k] \in Devices
    BY <2>1, NamesTyped
  <2> QED
    BY <2>1, <2>2, <2>3, <2>4, VfsSizes
<1>4. NameIndex(Fixed) = F + 1 /\ NameIndex(Optical) = C + 1
  BY <1>3 DEF NameIndex, DrivesOf
<1>5. t \in Fixed => t \notin Optical
  BY DEF Fixed, Optical
<1>6. ret' \in {"SUCCESS", "EUSED", "EINVAL", "ERELATIVE"} => Typed'
  <2>1. types' \in Seq(Types) /\ Len(types') = k /\ select' \in 0 .. k
    BY <1>1, <1>2, <1>3 DEF Typed
  <2> QED
    BY <1>1, <1>2, <2>1 DEF Typed
<1>7. CASE t \in Fixed
  <2> PICK path, dev : path = <<"dev", HdNames[F + 1]>> /\ dev = Drives[k]
    OBVIOUS
  <2>1. AddDevice(dev, path, garbage)
    BY <1>4, <1>5, <1>7 DEF InitDrive
  <2>2. path \in Seq(Names) /\ dev \in Devices
    <3>1. HdNames[F + 1] \in Names /\ "dev" \in Names
      <4>1. F + 1 \in DOMAIN HdNames
        BY <1>3
      <4> QED
        BY <4>1, NamesTyped, Zenon
    <3> QED
      BY <1>3, <3>1
  <2>3. /\ Good(vfs') /\ Held' /\ ret' = "SUCCESS" /\ At(path, dev)'
        /\ \A q, d : q # path /\ At(q, d) => At(q, d)'
    BY <1>1, <2>1, <2>2, DeviceAdded
  <2>4. Stay(Fixed, HdNames)
    <3>1. \A i \in 1 .. F : <<"dev", HdNames[i]>> # path
      BY <1>3, NamesDiffer
    <3> QED
      BY <2>3, <3>1 DEF Stay
  <2>5. Stay(Optical, CdNames)
    <3>1. \A i \in 1 .. C : <<"dev", CdNames[i]>> # path
      BY <1>3, NamesDiffer
    <3> QED
      BY <2>3, <3>1 DEF Stay
  <2>6. Named'
    <3> SUFFICES ASSUME calls' = 0 PROVE Given(Fixed, HdNames)' /\ Given(Optical, CdNames)' /\ Selected'
      BY DEF Named
    <3>1. Given(Fixed, HdNames) /\ Given(Optical, CdNames) /\ Selected
      BY <1>1, <1>2 DEF Named
    <3>2. Given(Fixed, HdNames)'
      BY <1>1, <1>2, <1>3, <1>4, <1>7, <2>3, <2>4, <3>1, GivenOnMore
    <3>3. Given(Optical, CdNames)'
      BY <1>1, <1>2, <1>5, <1>7, <2>5, <3>1, GivenOnSame
    <3>4. Cardinality(DrivesOf(Fixed)') = F + 1
      BY <1>1, <1>2, <1>7, DriveCounted
    <3>5. select' # 0 /\ At(<<"dev", HdNames[1]>>, Drives[select])'
      <4>1. CASE select = 0
        <5>1. select' = k /\ F = 0
          BY <1>2, <1>7, <3>1, <4>1 DEF Selected
        <5> QED
          BY <2>3, <5>1
      <4>2. CASE select # 0
        <5>1. select' = select /\ 1 \in 1 .. F /\ At(<<"dev", HdNames[1]>>, Drives[select])
          BY <1>2, <3>1, <4>2 DEF Selected
        <5> QED
          BY <2>4, <4>2, <5>1 DEF Stay
      <4> QED
        BY <4>1, <4>2
    <3>6. Selected'
      BY <3>4, <3>5 DEF Selected
    <3> QED
      BY <3>2, <3>3, <3>6
  <2> QED
    BY <1>6, <2>3, <2>6 DEF VfsInv
<1>8. CASE t \in Optical
  <2> PICK path, dev : path = <<"dev", CdNames[C + 1]>> /\ dev = Drives[k]
    OBVIOUS
  <2>1. AddDevice(dev, path, garbage)
    <3>1. AddDevice(Drives[Len(types) + 1], <<"dev", CdNames[NameIndex(Optical)]>>, garbage)
      BY <1>5, <1>8 DEF InitDrive
    <3>2. NameIndex(Optical) = C + 1
      BY <1>4
    <3>3. Drives[Len(types) + 1] = dev /\ <<"dev", CdNames[NameIndex(Optical)]>> = path
      BY <1>1, <3>2
    <3> QED
      BY <3>1, <3>3
  <2>2. path \in Seq(Names) /\ dev \in Devices
    <3>1. CdNames[C + 1] \in Names /\ "dev" \in Names
      <4>1. C + 1 \in DOMAIN CdNames
        BY <1>3
      <4> QED
        BY <4>1, NamesTyped, Zenon
    <3> QED
      BY <1>3, <3>1
  <2>3. /\ Good(vfs') /\ Held' /\ ret' = "SUCCESS" /\ At(path, dev)'
        /\ \A q, d : q # path /\ At(q, d) => At(q, d)'
    BY <1>1, <2>1, <2>2, DeviceAdded
  <2>4. Stay(Fixed, HdNames)
    <3>1. \A i \in 1 .. F : <<"dev", HdNames[i]>> # path
      BY <1>3, NamesDiffer
    <3> QED
      BY <2>3, <3>1 DEF Stay
  <2>5. Stay(Optical, CdNames)
    <3>1. \A i \in 1 .. C : <<"dev", CdNames[i]>> # path
      BY <1>3, NamesDiffer
    <3> QED
      BY <2>3, <3>1 DEF Stay
  <2>6. Named'
    <3> SUFFICES ASSUME calls' = 0 PROVE Given(Fixed, HdNames)' /\ Given(Optical, CdNames)' /\ Selected'
      BY DEF Named
    <3>1. Given(Fixed, HdNames) /\ Given(Optical, CdNames) /\ Selected
      BY <1>1, <1>2 DEF Named
    <3>2. Given(Optical, CdNames)'
      BY <1>1, <1>2, <1>3, <1>4, <1>8, <2>3, <2>5, <3>1, GivenOnMore
    <3>3. Given(Fixed, HdNames)' /\ Selected'
      BY <1>1, <1>2, <1>5, <1>8, <2>4, <3>1, OthersOnSame
    <3> QED
      BY <3>2, <3>3
  <2> QED
    BY <1>6, <2>3, <2>6 DEF VfsInv
<1>9. CASE t \notin Optical /\ t \notin Fixed
  <2>1. UNCHANGED <<vfs, added, ret>>
    BY <1>9 DEF InitDrive
  <2>2. Good(vfs') /\ Held' /\ Typed'
    BY <1>1, <1>6, <2>1 DEF Typed, Held
  <2>3. Stay(Fixed, HdNames) /\ Stay(Optical, CdNames)
    BY <2>1 DEF Stay, At
  <2>4. Named'
    <3> SUFFICES ASSUME calls' = 0 PROVE Given(Fixed, HdNames)' /\ Given(Optical, CdNames)' /\ Selected'
      BY DEF Named
    <3>1. Given(Fixed, HdNames) /\ Given(Optical, CdNames) /\ Selected
      BY <1>1, <1>2 DEF Named
    <3>2. Given(Optical, CdNames)'
      BY <1>1, <1>2, <1>9, <2>3, <3>1, GivenOnSame
    <3>3. Given(Fixed, HdNames)' /\ Selected'
      BY <1>1, <1>2, <1>9, <2>3, <3>1, OthersOnSame
    <3> QED
      BY <3>2, <3>3
  <2> QED
    BY <2>2, <2>4 DEF VfsInv
<1> QED
  BY <1>7, <1>8, <1>9

\* The calls of the VFS after init_disk.
LEMMA CallKeeps ==
  ASSUME VfsInv, Running, calls' = calls + 1, UNCHANGED <<types, select>>,
         ret' \in {"SUCCESS", "EUSED", "EINVAL", "ERELATIVE"}, Good(vfs'), Held'
  PROVE  VfsInv'
<1>1. Typed /\ calls \in Nat
  BY VfsSizes DEF VfsInv, Typed
<1>2. Typed'
  BY <1>1, VfsSizes DEF Typed, Running
<1>3. Named'
  BY <1>1 DEF Named
<1> QED
  BY <1>2, <1>3 DEF VfsInv

LEMMA AddDeviceKeeps ==
  ASSUME VfsInv, NEW p \in Paths, NEW d \in Range(Drives), NEW garbage \in BOOLEAN,
         add_device(d, p, garbage)
  PROVE  VfsInv'
<1>1. Good(vfs) /\ Held /\ p \in Seq(Names) /\ d \in Devices
  BY NamesTyped DEF VfsInv
<1>2. /\ Running /\ calls' = calls + 1 /\ UNCHANGED <<types, select>>
      /\ AddDevice(d, p, garbage)
  BY DEF add_device
<1>3. Good(vfs') /\ Held' /\ ret' = "SUCCESS"
  BY <1>1, <1>2, DeviceAdded
<1> QED
  BY <1>2, <1>3, CallKeeps

LEMMA GetFileKeeps ==
  ASSUME VfsInv, NEW p \in Paths, NEW garbage \in BOOLEAN, vfs_get_file(p, garbage)
  PROVE  VfsInv'
<1>1. Good(vfs) /\ Held /\ p \in Seq(Names)
  BY NamesTyped DEF VfsInv
<1>2. /\ Running /\ calls' = calls + 1 /\ UNCHANGED <<types, select, added>>
      /\ vfs' = GetTreeNode(p, garbage) /\ ret' = "SUCCESS"
  BY DEF vfs_get_file
<1>3. Good(vfs') /\ Grows(vfs, vfs')
  BY <1>1, <1>2, TreeNodeFound
<1>4. Held'
  BY <1>1, <1>2, <1>3, HeldGrows
<1> QED
  BY <1>2, <1>3, <1>4, CallKeeps

LEMMA MountKeeps ==
  ASSUME VfsInv, NEW p \in Paths, NEW impl, NEW garbage \in BOOLEAN, vfs_mount(p, impl, garbage)
  PROVE  VfsInv'
<1>1. Good(vfs) /\ Held /\ p \in Seq(Names)
  BY NamesTyped DEF VfsInv
<1> PICK st : st = GetTreeNode(p, garbage)
  OBVIOUS
<1>2. /\ Running /\ calls' = calls + 1 /\ UNCHANGED <<types, select, added>>
      /\ ret' \in {"SUCCESS", "EUSED", "EINVAL"}
      /\ vfs' = MountTar(st) \/ vfs' = st
  BY DEF vfs_mount
<1>3. Good(st) /\ Grows(vfs, st)
  BY <1>1, TreeNodeFound
<1>4. Good(MountTar(st)) /\ Grows(st, MountTar(st))
  BY <1>3, TarMounted
<1>5. Good(vfs') /\ Grows(vfs, vfs')
  BY <1>1, <1>2, <1>3, <1>4, GrowsTransitive DEF Good
<1>6. Held'
  BY <1>1, <1>2, <1>5, HeldGrows
<1> QED
  BY <1>2, <1>5, <1>6, CallKeeps

LEMMA VfsInvInductive == VfsInv /\ [Next]_vars => VfsInv'
<1> SUFFICES ASSUME VfsInv, [Next]_vars PROVE VfsInv'
  OBVIOUS
<1>1. CASE relative_path
  <2>1. /\ Running /\ calls' = calls + 1 /\ ret' = "ERELATIVE"
        /\ UNCHANGED <<vfs, types, select, added>>
    BY <1>1 DEF relative_path
  <2>2. Good(vfs') /\ Held'
    BY <2>1 DEF VfsInv, Held
  <2> QED
    BY <2>1, <2>2, CallKeeps
<1>2. ASSUME NEW garbage \in BOOLEAN, NEW t \in Types, InitDrive(t, garbage) PROVE VfsInv'
  BY <1>2, InitDriveKeeps
<1>3. ASSUME NEW garbage \in BOOLEAN, NEW p \in Paths, NEW d \in Range(Drives), add_device(d, p, garbage)
      PROVE  VfsInv'
  BY <1>3, AddDeviceKeeps
<1>4. ASSUME NEW garbage \in BOOLEAN, NEW p \in Paths, vfs_get_file(p, garbage) PROVE VfsInv'
  BY <1>4, GetFileKeeps
<1>5. ASSUME NEW garbage \in BOOLEAN, NEW p \in Paths, NEW impl \in {"USTAR", "other"}, vfs_mount(p, impl, garbage)
      PROVE  VfsInv'
  BY <1>5, MountKeeps
<1>6. CASE UNCHANGED vars
  BY <1>6 DEF vars, VfsInv, Typed, Held, Named, Given, Selected, At, DrivesOf
<1> QED
  BY <1>1, <1>2, <1>3, <1>4, <1>5, <1>6, Zenon DEF Next

THEOREM VfsInvHolds == Spec => []VfsInv
<1>1. Init => VfsInv
  BY InitVfsInv
<1> QED
  BY <1>1, VfsInvInductive, PTL DEF Spec

-----------------------------------------------------------------------------

LEMMA GoodTyped ==
  ASSUME VfsInv
  PROVE  TypeOK
<1>1. Tree(vfs) /\ Pointers(vfs) /\ Typed /\ Nodes = NodesOf(vfs)
  BY DEF VfsInv, Good, Tree, Nodes, NodesOf
<1>2. 0 \in DOMAIN vfs.node
  BY <1>1, StoreShape DEF Tree
<1>3. \A n \in Nodes : /\ vfs.node[n].value \in DOMAIN vfs.entry
                       /\ {vfs.node[n].next, vfs.node[n].children} \subseteq Nodes \cup {Null}
  BY <1>1 DEF Pointers, NodesOf, Null
<1>4. Root \in Nodes
  BY <1>1 DEF Pointers, NodesOf, Root
<1> QED
  BY <1>1, <1>2, <1>3, <1>4 DEF TypeOK, Typed

\* The lists of the tree are a forest after every call: whatever is looked up,
\* created, added or mounted through the copy at address 0.
THEOREM ForestAlways == Spec => []ForestOK
<1>1. VfsInv => ForestOK
  <2> SUFFICES ASSUME VfsInv PROVE ForestOK
    OBVIOUS
  <2>1. TypeOK
    BY GoodTyped
  <2>2. Good(vfs) /\ Tree(vfs) /\ Apart(vfs) /\ Counted(vfs) /\ Nodes = NodesOf(vfs)
    BY DEF VfsInv, Good, Tree, Nodes, NodesOf
  <2>3. ASSUME NEW n \in Nodes
        PROVE  Cardinality({m \in Nodes : vfs.node[m].next = n} \cup {m \in Nodes : vfs.node[m].children = n}) <= 1
    <3> PICK S : S = {m \in Nodes : vfs.node[m].next = n} \cup {m \in Nodes : vfs.node[m].children = n}
      OBVIOUS
    <3>1. n # Null
      BY DEF Nodes, Null
    <3>2. \A a, b \in S : a = b
      BY <2>2, <3>1 DEF Apart
    <3>3. CASE S = {}
      BY <3>3, FS_EmptySet
    <3>4. CASE S # {}
      <4> PICK a : a \in S
        BY <3>4
      <4>1. S = {a}
        BY <3>2
      <4>2. Cardinality({a}) = 1
        BY FS_Singleton, Zenon
      <4>3. Cardinality(S) = 1
        BY <4>1, <4>2
      <4> QED
        BY <4>3
    <3> QED
      BY <3>3, <3>4
  <2>4. ASSUME NEW n \in Nodes
        PROVE  /\ IsInjective(Children(vfs, n))
               /\ Children(vfs, n) # <<>> => vfs.node[Last(Children(vfs, n))].next = Null
               /\ vfs.node[n].childs <= Len(Children(vfs, n))
    <3>1. n \in DOMAIN vfs.node /\ n \in NodesOf(vfs)
      BY <2>2 DEF NodesOf
    <3> PICK s : s = Children(vfs, n)
      OBVIOUS
    <3>2. IsInjective(s) /\ (s # <<>> => vfs.node[Last(s)].next = Null)
      BY <2>2, <3>1, ListFacts
    <3> QED
      BY <2>2, <3>1, <3>2 DEF Counted
  <2> QED
    BY <2>1, <2>3, <2>4 DEF ForestOK
<1> QED
  BY <1>1, VfsInvHolds, PTL

LEMMA DeviceFound ==
  ASSUME VfsInv, NEW q \in DOMAIN added
  PROVE  DeviceAt(q) = added[q]
<1>1. Tree(vfs) /\ q \in Seq(Names)
  BY DEF VfsInv, Good, Held
<1> PICK n \in NodesOf(vfs) : Leads(vfs, q, n) /\ Device(vfs, n) = added[q]
  BY DEF VfsInv, Held
<1>2. Find(q) = n /\ n # Null
  BY <1>1, Found
<1> QED
  BY <1>2 DEF DeviceAt, Device

\* A device is found under the path it was added with last, whatever is looked up,
\* added under other paths or mounted in between.
THEOREM DevicesAlwaysFound == Spec => []DevicesFound
<1>1. VfsInv => DevicesFound
  BY DeviceFound DEF DevicesFound
<1> QED
  BY <1>1, VfsInvHolds, PTL

\* init_disk gives each drive it finds a name of its own, and the drive it returns
\* is /dev/hda, with any number of drives of whatever types.
THEOREM DrivesAlwaysNamed == Spec => []DrivesNamed
<1>1. VfsInv => DrivesNamed
  <2> SUFFICES ASSUME VfsInv, calls = 0
               PROVE  /\ \A k \in DOMAIN types : types[k] \in Optical \cup Fixed =>
                            \E n \in Range(IF types[k] \in Fixed THEN HdNames ELSE CdNames) :
                               DeviceAt(<<"dev", n>>) = Drives[k]
                      /\ select # 0 => DeviceAt(<<"dev", HdNames[1]>>) = Drives[select]
    BY DEF DrivesNamed
  <2>1. Typed /\ Given(Fixed, HdNames) /\ Given(Optical, CdNames) /\ Selected
    BY DEF VfsInv, Named
  <2>2. \A q, d : At(q, d) => DeviceAt(q) = d
    BY DeviceFound DEF At
  <2>3. /\ 1 .. Cardinality(DrivesOf(Fixed)) \subseteq DOMAIN HdNames
        /\ 1 .. Cardinality(DrivesOf(Optical)) \subseteq DOMAIN CdNames
    <3>1. Len(Drives) \in Nat /\ Len(types) \in Nat /\ Len(types) <= Len(Drives)
      BY <2>1, NamesTyped DEF Typed
    <3>2. /\ DOMAIN HdNames = 1 .. Len(HdNames) /\ DOMAIN CdNames = 1 .. Len(CdNames)
          /\ Len(HdNames) \in Nat /\ Len(CdNames) \in Nat
      BY NamesTyped
    <3>3. /\ Cardinality(DrivesOf(Fixed)) \in Nat /\ Cardinality(DrivesOf(Fixed)) <= Len(types)
          /\ Cardinality(DrivesOf(Optical)) \in Nat /\ Cardinality(DrivesOf(Optical)) <= Len(types)
      BY <2>1, DrivesCounted
    <3> QED
      BY <3>1, <3>2, <3>3, VfsSizes
  <2>4. ASSUME NEW k \in DOMAIN types, types[k] \in Fixed
        PROVE  \E n \in Range(HdNames) : DeviceAt(<<"dev", n>>) = Drives[k]
    <3> PICK i \in 1 .. Cardinality(DrivesOf(Fixed)) : At(<<"dev", HdNames[i]>>, Drives[k])
      BY <2>1, <2>4 DEF Given, DrivesOf
    <3>1. HdNames[i] \in Range(HdNames)
      BY <2>3 DEF Range
    <3> QED
      BY <2>2, <3>1
  <2>5. ASSUME NEW k \in DOMAIN types, types[k] \in Optical
        PROVE  \E n \in Range(CdNames) : DeviceAt(<<"dev", n>>) = Drives[k]
    <3> PICK i \in 1 .. Cardinality(DrivesOf(Optical)) : At(<<"dev", CdNames[i]>>, Drives[k])
      BY <2>1, <2>5 DEF Given, DrivesOf
    <3>1. CdNames[i] \in Range(CdNames)
      BY <2>3 DEF Range
    <3> QED
      BY <2>2, <3>1
  <2>6. select # 0 => DeviceAt(<<"dev", HdNames[1]>>) = Drives[select]
    BY <2>1, <2>2 DEF Selected
  <2> QED
    BY <2>4, <2>5, <2>6
<1> QED
  BY <1>1, VfsInvHolds, PTL

-----------------------------------------------------------------------------
(* The menu.                                                                *)

\* The escape key is awaited with can_c clear, from the moment the secret is
\* drawn: run() cannot leave the wait before secret_kh has given up the screen.
Guarded == /\ pc = "show" => ~can_c
           /\ handler = "secret" => ~can_c /\ pc \in Waiting
           /\ back \in {"loop", "loop2", "read"}

MenuInv == MenuTypeOK /\ Guarded

-----------------------------------------------------------------------------

\* The index of move() is wrapped at both ends.
LEMMA WrappedInRange ==
    ASSUME NEW s \in -1 .. Modes
    PROVE  Wrapped(s) \in 0 .. (Modes - 1)
<1>1. CASE s < 0
    BY <1>1, MenuSizes DEF Wrapped
<1>2. CASE s >= 0
    <2>1. s % Modes \in 0 .. (Modes - 1)
        BY <1>2, MenuSizes
    <2> QED
        BY <1>2, <2>1, MenuSizes DEF Wrapped
<1> QED
    BY <1>1, <1>2, MenuSizes

\* A key that moves the selection: it keeps the types, and touches neither can_c
\* nor the handler.
LEMMA MoveTyped ==
    ASSUME MenuTypeOK, NEW k \in Keys, move(k), UNCHANGED <<sel, millis>>
    PROVE  MenuTypeOK' /\ UNCHANGED <<can_c, handler>>
<1>1. selection' \in 0 .. (Modes - 1)
    <2> DEFINE s == IF k = "Down" THEN selection + 1
                    ELSE IF k = "Up" THEN selection - 1 ELSE selection
    <2>1. s \in -1 .. Modes
        BY MenuSizes DEF MenuTypeOK
    <2>2. selection' = Wrapped(s)
        BY DEF move
    <2> HIDE DEF s
    <2> QED
        BY <2>1, <2>2, WrappedInRange
<1>2. follow' \in 0 .. 5
    <2>1. CASE k = "G" /\ follow' = 0
        BY <2>1
    <2>2. CASE k \in DOMAIN Letters /\ Follow(k)
        <3>1. Letters[k] \in 0 .. 4
            BY <2>2 DEF Letters
        <3> QED
            BY <2>2, <3>1 DEF Follow, MenuTypeOK
    <2>3. CASE UNCHANGED follow
        BY <2>3 DEF MenuTypeOK
    <2> QED
        BY <2>1, <2>2, <2>3 DEF move
<1>3. {g', ok', retry'} \subseteq BOOLEAN
    <2>1. g' \in BOOLEAN
        BY Zenon DEF move, Follow, MenuTypeOK
    <2> QED
        BY <2>1 DEF move, MenuTypeOK
<1>4. UNCHANGED <<can_c, handler>>
    BY DEF move
<1> QED
    BY <1>1, <1>2, <1>3, <1>4 DEF MenuTypeOK

\* An interrupt ends a hlt and puts run() nowhere else.
LEMMA ResumedThere ==
    /\ Resumed = "show" => pc = "show"
    /\ pc \in Waiting => Resumed \in Waiting
BY DEF Resumed, Waiting

LEMMA KeyKeepsMenuInv ==
    ASSUME MenuInv, NEW k \in Keys, Key(k)
    PROVE  MenuInv'
<1>1. pc' = Resumed /\ UNCHANGED <<back, sel, millis>>
    BY DEF Key
<1>2. CASE handler = "move" /\ move(k)
    <2>1. MenuTypeOK' /\ UNCHANGED <<can_c, handler>>
        BY <1>1, <1>2, MoveTyped DEF MenuInv
    <2> QED
        BY <1>1, <1>2, <2>1, ResumedThere DEF MenuInv, Guarded
<1>3. CASE handler = "secret" /\ secret_kh(k)
    <2>1. 0 \in 0 .. (Modes - 1) /\ {FALSE, TRUE} \subseteq BOOLEAN
        BY MenuSizes
    <2>2. /\ selection' = 0 /\ follow' = 0 /\ handler' = "move"
          /\ {g', ok', retry', can_c'} \subseteq BOOLEAN
        BY <1>3, <2>1 DEF secret_kh, Woken
    <2>3. MenuTypeOK'
        BY <1>1, <2>1, <2>2 DEF MenuInv, MenuTypeOK
    <2>4. pc' # "show"
        BY <1>1, <1>3, ResumedThere DEF MenuInv, Guarded, Waiting
    <2> QED
        BY <1>1, <2>2, <2>3, <2>4 DEF MenuInv, Guarded
<1>4. CASE UNCHANGED <<menu, handler>>
    BY <1>1, <1>4, ResumedThere DEF menu, MenuInv, MenuTypeOK, Guarded
<1> QED
    BY <1>2, <1>3, <1>4 DEF Key, secret_kh

LEMMA TickKeepsMenuInv ==
    ASSUME MenuInv, Tick
    PROVE  MenuInv'
<1>1. millis' \in 0 .. SleepTicks
    BY MenuSizes DEF Tick, OneTick, MenuInv, MenuTypeOK
<1> QED
    BY <1>1, ResumedThere DEF Tick, menu, MenuInv, MenuTypeOK, Guarded

\* init() is interrupted, but never while the secret is on the screen.
LEMMA InitKeepsMenuInv ==
    ASSUME MenuInv, init
    PROVE  MenuInv'
<1> PICK k \in 1 .. 7 :
        /\ Step(Order[k], Order[k + 1])
        /\ selection' = IF k = 1 THEN 0 ELSE selection
        /\ can_c' = (can_c \/ k = 2)
        /\ g' = (g /\ k # 3)
        /\ retry' = (retry /\ k # 4)
        /\ ok' = (ok /\ k # 5)
        /\ follow' = IF k = 6 THEN 0 ELSE follow
        /\ UNCHANGED Rest
    BY DEF init
<1>1. pc = Order[k] /\ pc' = Order[k + 1]
    BY DEF Step
<1>2. /\ Order[k] \in {"selection", "can_c", "g", "retry", "ok", "follow", "draw"}
      /\ Order[k + 1] \in {"can_c", "g", "retry", "ok", "follow", "draw", "loop"}
    <2>1. k = 1 \/ k = 2 \/ k = 3 \/ k = 4 \/ k = 5 \/ k = 6 \/ k = 7
        OBVIOUS
    <2> QED
        BY <2>1 DEF Order
<1>3. handler # "secret" /\ pc' # "show"
    BY <1>1, <1>2 DEF MenuInv, Guarded, Waiting
<1>4. MenuTypeOK'
    <2>1. /\ selection' \in 0 .. (Modes - 1) /\ follow' \in 0 .. 5
        BY MenuSizes DEF MenuInv, MenuTypeOK
    <2>2. {g', ok', retry', can_c'} \subseteq BOOLEAN
        BY DEF MenuInv, MenuTypeOK
    <2> QED
        BY <2>1, <2>2 DEF Rest, MenuInv, MenuTypeOK
<1> QED
    BY <1>3, <1>4 DEF Rest, MenuInv, Guarded

\* The two tests for the secret words.
LEMMA EnterKeepsMenuInv ==
    ASSUME MenuInv, NEW at \in {"loop", "loop2"}, NEW found, NEW next \in {"loop2", "read"},
           Enter(at, found, next)
    PROVE  MenuInv'
<1>1. handler # "secret"
    BY DEF Enter, MenuInv, Guarded, Waiting
<1>2. CASE found
    BY <1>1, <1>2 DEF Enter, MenuInv, MenuTypeOK, Guarded
<1>3. CASE ~found
    BY <1>1, <1>3 DEF Enter, MenuInv, MenuTypeOK, Guarded
<1> QED
    BY <1>2, <1>3

\* The other steps of run().
LEMMA RunKeepsMenuInv ==
    ASSUME MenuInv, run
    PROVE  MenuInv'
<1> USE DEF MenuInv, Guarded
<1>1. CASE SetHandler
    BY <1>1 DEF SetHandler, Step, menu, MenuTypeOK, Waiting
<1>2. CASE init
    BY <1>2, InitKeepsMenuInv
<1>3. CASE EnterTrans
    BY <1>3, EnterKeepsMenuInv DEF EnterTrans
<1>4. CASE EnterSecret
    BY <1>4, EnterKeepsMenuInv DEF EnterSecret
<1>5. CASE Shown
    BY <1>5 DEF Shown, Arm, Step, menu, MenuTypeOK, Waiting
<1>6. CASE AwaitSecret
    BY <1>6 DEF AwaitSecret, menu, Rest, MenuTypeOK, Waiting
<1>7. CASE Halt
    BY <1>7 DEF Halt, Step, menu, Rest, MenuTypeOK, Waiting
<1>8. CASE ReadSelection
    BY <1>8 DEF ReadSelection, Step, menu, MenuTypeOK, Waiting
<1>9. CASE Paint
    BY <1>9 DEF Paint, Step, menu, Rest, MenuTypeOK, Waiting
<1>10. CASE TestOk
    BY <1>10 DEF TestOk, menu, Rest, MenuTypeOK, Waiting
<1>11. CASE SetMode
    BY <1>11, MenuSizes DEF SetMode, Step, menu, MenuTypeOK, Waiting
<1>12. CASE Sleep
    BY <1>12 DEF Sleep, menu, Rest, MenuTypeOK, Waiting
<1>13. CASE Revoke
    BY <1>13 DEF Revoke, Order, menu, Rest, MenuTypeOK, Waiting
<1>14. CASE Leave
    BY <1>14 DEF Leave, Step, menu, MenuTypeOK, Waiting
<1> QED
    BY <1>1, <1>2, <1>3, <1>4, <1>5, <1>6, <1>7, <1>8, <1>9, <1>10, <1>11, <1>12, <1>13, <1>14 DEF run

LEMMA MenuInvInductive == MenuInv /\ [MenuNext]_menuVars => MenuInv'
<1> SUFFICES ASSUME MenuInv, [MenuNext]_menuVars PROVE MenuInv'
    OBVIOUS
<1>1. CASE run
    BY <1>1, RunKeepsMenuInv
<1>2. CASE Tick
    BY <1>2, TickKeepsMenuInv
<1>3. CASE \E k \in Keys : Key(k)
    BY <1>3, KeyKeepsMenuInv
<1>4. CASE UNCHANGED menuVars
    BY <1>4 DEF menuVars, menu, MenuInv, MenuTypeOK, Guarded
<1> QED
    BY <1>1, <1>2, <1>3, <1>4 DEF MenuNext

THEOREM MenuInvHolds == MenuSpec => []MenuInv
<1>1. MenuInit => MenuInv
    <2> SUFFICES ASSUME MenuInit PROVE MenuInv
        OBVIOUS
    <2>1. 0 \in 0 .. (Modes - 1) /\ 0 \in 0 .. SleepTicks
        BY MenuSizes
    <2>2. {g, ok, retry, can_c} \subseteq BOOLEAN
        BY DEF MenuInit
    <2> QED
        BY <2>1, <2>2 DEF MenuInit, MenuInv, MenuTypeOK, Guarded
<1> QED
    BY <1>1, MenuInvInductive, PTL DEF MenuSpec

-----------------------------------------------------------------------------

\* The index of the chosen mode stays inside the arrays of VGASELECT, whatever is
\* pressed, at whatever moment of run() and init().
THEOREM MenuTyped == MenuSpec => []MenuTypeOK
<1>1. MenuInv => MenuTypeOK
    BY DEF MenuInv
<1> QED
    BY <1>1, MenuInvHolds, PTL

\* The keyboard interrupt draws the menu (secret_kh) only while run() draws nothing.
THEOREM OneDrawsAlways == MenuSpec => []OneDraws
<1>1. MenuInv => OneDraws
    BY DEF MenuInv, Guarded, OneDraws
<1> QED
    BY <1>1, MenuInvHolds, PTL
=============================================================================
