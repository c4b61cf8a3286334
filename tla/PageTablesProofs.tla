--------------------------- MODULE PageTablesProofs ---------------------------
(***************************************************************************)
(* The page tables stay a tree that is reached through itself, and map     *)
(* changes the translation of its page and of no other, for every size of  *)
(* the tables and of the memory and every sequence of calls of map.        *)
(***************************************************************************)
EXTENDS PageTables, FiniteSetTheorems, WellFoundedInduction, TLAPS

Entries == 0 .. (Radix - 1)

-----------------------------------------------------------------------------
(* The indices of a page.                                                    *)

LEMMA Division ==
    ASSUME NEW n \in Int, NEW r \in Int, r > 0
    PROVE  n = r * (n \div r) + (n % r)
BY Z3

LEMMA QuotientAndRest ==
    ASSUME NEW n \in Nat
    PROVE  /\ n % Radix \in Entries /\ n \div Radix \in Nat
           /\ n = Radix * (n \div Radix) + (n % Radix)
<1>1. Radix \in Nat /\ Radix > 0
    BY PagingSizes
<1>2. n % Radix \in Entries
    BY <1>1 DEF Entries
<1>3. n \div Radix \in Nat
    BY <1>1
<1>4. n = Radix * (n \div Radix) + (n % Radix)
    BY <1>1, Division
<1> QED
    BY <1>2, <1>3, <1>4

LEMMA SameQuotient ==
    ASSUME NEW m \in Nat, NEW n \in Nat, m \div Radix = n \div Radix, m % Radix = n % Radix
    PROVE  m = n
<1>1. m = Radix * (m \div Radix) + (m % Radix)
    BY QuotientAndRest
<1>2. n = Radix * (n \div Radix) + (n % Radix)
    BY QuotientAndRest
<1> QED
    BY <1>1, <1>2, Zenon

LEMMA QuotientBelow ==
    ASSUME NEW n \in Nat, NEW k \in Nat, n < Radix * k
    PROVE  n \div Radix < k
<1>1. Radix \in Nat /\ n \div Radix \in Nat /\ Radix * (n \div Radix) <= n
    BY QuotientAndRest, PagingSizes DEF Entries
<1>2. SUFFICES ASSUME k <= n \div Radix PROVE FALSE
    BY <1>1
<1>3. Radix * k <= Radix * (n \div Radix)
    BY <1>1, <1>2
<1> QED
    BY <1>1, <1>3

LEMMA BlockFacts ==
    ASSUME NEW v \in Pages
    PROVE  /\ Block(v, 3) = v /\ v \in Nat
           /\ Block(v, 2) = Block(v, 3) \div Radix /\ Block(v, 2) \in Nat
           /\ Block(v, 1) = Block(v, 2) \div Radix /\ Block(v, 1) \in Nat
           /\ Block(v, 0) = Block(v, 1) \div Radix /\ Block(v, 0) \in Entries
<1>1. v \in Nat /\ v < Radix * (Radix * (Radix * Radix)) /\ Radix \in Nat
    BY PagingSizes DEF Pages
<1>2. /\ Block(v, 3) = v /\ Block(v, 2) = v \div Radix
      /\ Block(v, 1) = Block(v, 2) \div Radix /\ Block(v, 0) = Block(v, 1) \div Radix
    BY DEF Block
<1>3. Block(v, 2) \in Nat /\ Block(v, 2) < Radix * (Radix * Radix)
    BY <1>1, <1>2, QuotientBelow, QuotientAndRest
<1>4. Block(v, 1) \in Nat /\ Block(v, 1) < Radix * Radix
    <2>1. Radix * Radix \in Nat
        BY <1>1
    <2> QED
        BY <1>2, <1>3, <2>1, QuotientBelow, QuotientAndRest
<1>5. Block(v, 0) \in Nat /\ Block(v, 0) < Radix
    BY <1>1, <1>2, <1>4, QuotientBelow, QuotientAndRest
<1> QED
    BY <1>1, <1>2, <1>3, <1>4, <1>5 DEF Entries

LEMMA IndexIn ==
    ASSUME NEW v \in Pages, NEW l \in 0 .. 3
    PROVE  Index(v, l) \in Entries
<1>1. Block(v, l) \in Nat
    BY BlockFacts DEF Entries
<1> QED
    BY <1>1, QuotientAndRest DEF Index

\* Two pages with the same four indices are one.
LEMMA PageByIndices ==
    ASSUME NEW v \in Pages, NEW w \in Pages,
           Index(v, 0) = Index(w, 0), Index(v, 1) = Index(w, 1),
           Index(v, 2) = Index(w, 2), Index(v, 3) = Index(w, 3)
    PROVE  v = w
<1>1. Block(v, 0) = Block(w, 0)
    <2>1. \A n \in Entries : n % Radix = n
        BY PagingSizes DEF Entries
    <2> QED
        BY <2>1, BlockFacts DEF Index
<1>2. Block(v, 1) = Block(w, 1)
    BY <1>1, BlockFacts, SameQuotient DEF Index
<1>3. Block(v, 2) = Block(w, 2)
    BY <1>2, BlockFacts, SameQuotient DEF Index
<1> QED
    BY <1>3, BlockFacts, SameQuotient DEF Index
-----------------------------------------------------------------------------
(* A tree of tables, as a predicate of the memory m and the root r.          *)

Memories == [MemFrames \cup {0} -> [Entries -> Words]]

Links(m, tables) == {m[x[1]][x[2]] : x \in tables \X Entries} \ {None}
L1(m, r) == Links(m, {r})
L2(m, r) == Links(m, L1(m, r))
L3(m, r) == Links(m, L2(m, r))
Tables(m, r) == {r} \cup L1(m, r) \cup L2(m, r) \cup L3(m, r)

Apart(m, r) == /\ r \notin L1(m, r) \cup L2(m, r) \cup L3(m, r)
               /\ L1(m, r) \cap (L2(m, r) \cup L3(m, r)) = {}
               /\ L2(m, r) \cap L3(m, r) = {}
LinkedOnce(m, r) ==
    \A f, g \in {r} \cup L1(m, r) \cup L2(m, r) : \A i, j \in Entries :
        <<f, i>> # <<g, j>> /\ m[f][i] # None => m[f][i] # m[g][j]

Tree(m, r) == /\ m \in Memories /\ Tables(m, r) \subseteq MemFrames
              /\ Apart(m, r) /\ LinkedOnce(m, r)

\* The walk for page v: the tables it passes, and what it ends with.
Step(m, table, i) == IF table = None THEN None ELSE m[table][i]
W1(m, r, v) == Step(m, r, Index(v, 0))
W2(m, r, v) == Step(m, W1(m, r, v), Index(v, 1))
W3(m, r, v) == Step(m, W2(m, r, v), Index(v, 2))
W4(m, r, v) == Step(m, W3(m, r, v), Index(v, 3))

LEMMA LinksIn ==
    ASSUME NEW m, NEW S
    PROVE  \A y : y \in Links(m, S) <=> y # None /\ \E f \in S, i \in Entries : y = m[f][i]
<1> SUFFICES ASSUME NEW y PROVE y \in Links(m, S) <=> y # None /\ \E f \in S, i \in Entries : y = m[f][i]
    OBVIOUS
<1>1. ASSUME y \in Links(m, S) PROVE y # None /\ \E f \in S, i \in Entries : y = m[f][i]
    <2>1. PICK x \in S \X Entries : y = m[x[1]][x[2]]
        BY <1>1 DEF Links
    <2> QED
        BY <1>1, <2>1 DEF Links
<1>2. ASSUME y # None, NEW f \in S, NEW i \in Entries, y = m[f][i] PROVE y \in Links(m, S)
    <2>1. <<f, i>> \in S \X Entries /\ <<f, i>>[1] = f /\ <<f, i>>[2] = i
        OBVIOUS
    <2> QED
        BY <1>2, <2>1 DEF Links
<1> QED
    BY <1>1, <1>2

\* The tables on a walk are tables of their level.
LEMMA WalkIn ==
    ASSUME NEW m, NEW r, NEW v \in Pages, r # None
    PROVE  /\ W1(m, r, v) \in L1(m, r) \cup {None}
           /\ W2(m, r, v) \in L2(m, r) \cup {None}
           /\ W3(m, r, v) \in L3(m, r) \cup {None}
           /\ W1(m, r, v) = m[r][Index(v, 0)]
<1>1. /\ Index(v, 0) \in Entries /\ Index(v, 1) \in Entries
      /\ Index(v, 2) \in Entries /\ Index(v, 3) \in Entries
    BY IndexIn
<1>2. W1(m, r, v) \in L1(m, r) \cup {None} /\ W1(m, r, v) = m[r][Index(v, 0)]
    BY <1>1, LinksIn DEF W1, L1, Step
<1>3. W2(m, r, v) \in L2(m, r) \cup {None}
    BY <1>1, <1>2, LinksIn DEF W2, L2, Step
<1>4. W3(m, r, v) \in L3(m, r) \cup {None}
    BY <1>1, <1>3, LinksIn DEF W3, L3, Step
<1> QED
    BY <1>2, <1>3, <1>4

\* Two walks that end in the same table of the last level take the same way.
LEMMA SameWay ==
    ASSUME NEW m, NEW r, Tree(m, r), r # None, NEW v \in Pages, NEW w \in Pages,
           W3(m, r, v) = W3(m, r, w), W3(m, r, v) # None, Index(v, 3) = Index(w, 3)
    PROVE  v = w
<1>1. /\ \A l \in 0 .. 3 : Index(v, l) \in Entries /\ Index(w, l) \in Entries
      /\ LinkedOnce(m, r)
    BY IndexIn DEF Tree
<1>2. /\ W2(m, r, v) # None /\ W2(m, r, v) \in L2(m, r) /\ W2(m, r, w) # None /\ W2(m, r, w) \in L2(m, r)
      /\ m[W2(m, r, v)][Index(v, 2)] = m[W2(m, r, w)][Index(w, 2)] /\ m[W2(m, r, v)][Index(v, 2)] # None
    BY WalkIn DEF W3, Step
<1>3. W2(m, r, v) = W2(m, r, w) /\ Index(v, 2) = Index(w, 2)
    BY <1>1, <1>2 DEF LinkedOnce
<1>4. /\ W1(m, r, v) # None /\ W1(m, r, v) \in L1(m, r) /\ W1(m, r, w) # None /\ W1(m, r, w) \in L1(m, r)
      /\ m[W1(m, r, v)][Index(v, 1)] = m[W1(m, r, w)][Index(w, 1)] /\ m[W1(m, r, v)][Index(v, 1)] # None
    BY <1>2, <1>3, WalkIn DEF W2, Step
<1>5. W1(m, r, v) = W1(m, r, w) /\ Index(v, 1) = Index(w, 1)
    BY <1>1, <1>4 DEF LinkedOnce
<1>6. Index(v, 0) = Index(w, 0)
    BY <1>1, <1>4, <1>5, WalkIn DEF LinkedOnce
<1> QED
    BY <1>3, <1>5, <1>6, PageByIndices

-----------------------------------------------------------------------------
(* What map writes: a table t that is cleared and linked in slot s of f, or  *)
(* the frame x in slot s of a table of the last level.                       *)

Added(m, f, s, t) == [m EXCEPT ![t] = Zeroed, ![f][s] = t]
Set(m, f, s, x) == [m EXCEPT ![f][s] = x]

LEMMA SetReads ==
    ASSUME NEW m \in Memories, NEW f \in MemFrames, NEW s \in Entries, NEW x \in Words
    PROVE  /\ Set(m, f, s, x) \in Memories
           /\ \A g \in MemFrames, i \in Entries :
                 Set(m, f, s, x)[g][i] = IF g = f /\ i = s THEN x ELSE m[g][i]
BY DEF Set, Memories

LEMMA AddedReads ==
    ASSUME NEW m \in Memories, NEW f \in MemFrames, NEW s \in Entries, NEW t \in MemFrames, f # t
    PROVE  /\ Added(m, f, s, t) \in Memories
           /\ \A g \in MemFrames, i \in Entries :
                 Added(m, f, s, t)[g][i] = IF g = t THEN None
                                           ELSE IF g = f /\ i = s THEN t ELSE m[g][i]
<1> DEFINE c == [m EXCEPT ![t] = Zeroed]
<1>1. t \in Words /\ None \in Words
    BY PagingSizes DEF Words
<1>2. c \in Memories /\ c[t] = Zeroed /\ \A g \in MemFrames : g # t => c[g] = m[g]
    <2>1. Zeroed \in [Entries -> Words]
        BY <1>1 DEF Zeroed, Entries
    <2> QED
        BY <2>1 DEF Memories
<1>3. Added(m, f, s, t) = Set(c, f, s, t)
    BY DEF Added, Set
<1>4. \A i \in Entries : Zeroed[i] = None
    BY DEF Zeroed, Entries
<1> HIDE DEF c
<1>5. /\ Set(c, f, s, t) \in Memories
      /\ \A g \in MemFrames, i \in Entries : Set(c, f, s, t)[g][i] = IF g = f /\ i = s THEN t ELSE c[g][i]
    BY <1>1, <1>2, SetReads
<1> QED
    BY <1>2, <1>3, <1>4, <1>5

\* Linking a new table adds it to the tables of its level.
LEMMA LinksAdded ==
    ASSUME NEW m \in Memories, NEW f \in MemFrames, NEW s \in Entries, NEW t \in MemFrames, f # t,
           NEW S \in SUBSET MemFrames, f \in S, t \notin S, m[f][s] = None
    PROVE  Links(Added(m, f, s, t), S) = Links(m, S) \cup {t}
<1> DEFINE n == Added(m, f, s, t)
<1>1. \A g \in S, i \in Entries : n[g][i] = IF g = f /\ i = s THEN t ELSE m[g][i]
    BY AddedReads
<1>2. t # None
    BY PagingSizes
<1> HIDE DEF n
<1>3. ASSUME NEW y PROVE y \in Links(n, S) <=> y \in Links(m, S) \cup {t}
    <2>1. ASSUME y \in Links(n, S) PROVE y \in Links(m, S) \cup {t}
        BY <1>1, <2>1, LinksIn
    <2>2. t \in Links(n, S)
        BY <1>1, <1>2, LinksIn
    <2>3. ASSUME y \in Links(m, S) PROVE y \in Links(n, S)
        <3>1. PICK g \in S, i \in Entries : y = m[g][i]
            BY <2>3, LinksIn
        <3>2. y # None /\ ~(g = f /\ i = s)
            BY <2>3, <3>1, LinksIn
        <3> QED
            BY <1>1, <3>1, <3>2, LinksIn
    <2> QED
        BY <2>1, <2>2, <2>3
<1> QED
    BY <1>3 DEF n

\* Other levels keep their tables, and the new one links nothing.
LEMMA LinksKept ==
    ASSUME NEW m \in Memories, NEW f \in MemFrames, NEW s \in Entries, NEW t \in MemFrames, f # t,
           NEW S \in SUBSET MemFrames, f \notin S, t \notin S
    PROVE  Links(Added(m, f, s, t), S) = Links(m, S)
<1> DEFINE n == Added(m, f, s, t)
<1>1. \A g \in S, i \in Entries : n[g][i] = m[g][i]
    BY AddedReads
<1> HIDE DEF n
<1>2. \A y : y \in Links(n, S) <=> y \in Links(m, S)
    BY <1>1, LinksIn
<1> QED
    BY <1>2 DEF n

LEMMA LinksOfNew ==
    ASSUME NEW m \in Memories, NEW f \in MemFrames, NEW s \in Entries, NEW t \in MemFrames, f # t,
           NEW S \in SUBSET MemFrames, f \notin S, t \notin S
    PROVE  Links(Added(m, f, s, t), S \cup {t}) = Links(m, S)
<1> DEFINE n == Added(m, f, s, t)
<1>1. /\ \A g \in S, i \in Entries : n[g][i] = m[g][i]
      /\ \A i \in Entries : n[t][i] = None
    BY AddedReads
<1> HIDE DEF n
<1>2. \A y : y \in Links(n, S \cup {t}) <=> y \in Links(m, S)
    BY <1>1, LinksIn
<1> QED
    BY <1>2 DEF n

LEMMA LinksSet ==
    ASSUME NEW m \in Memories, NEW f \in MemFrames, NEW s \in Entries, NEW x \in Words,
           NEW S \in SUBSET MemFrames, f \notin S
    PROVE  Links(Set(m, f, s, x), S) = Links(m, S)
<1> DEFINE n == Set(m, f, s, x)
<1>1. \A g \in S, i \in Entries : n[g][i] = m[g][i]
    BY SetReads
<1> HIDE DEF n
<1>2. \A y : y \in Links(n, S) <=> y \in Links(m, S)
    BY <1>1, LinksIn
<1> QED
    BY <1>2 DEF n

-----------------------------------------------------------------------------
(* A new table at each of the three levels.                                  *)

\* The tree n is the tree m with the table t, and every page is where it was.
Grows(m, n, r, t) ==
    /\ Tree(n, r) /\ Tables(n, r) = Tables(m, r) \cup {t}
    /\ \A v \in Pages : /\ W4(n, r, v) = W4(m, r, v)
                        /\ W1(m, r, v) # None => W1(n, r, v) = W1(m, r, v)
                        /\ W2(m, r, v) # None => W2(n, r, v) = W2(m, r, v)
                        /\ W3(m, r, v) # None => W3(n, r, v) = W3(m, r, v)

\* A table that is new is linked once, and hangs where nothing hung.
LEMMA LinkedOnceAdded ==
    ASSUME NEW m, NEW r, Tree(m, r), NEW t \in MemFrames \ Tables(m, r),
           NEW f \in {r} \cup L1(m, r) \cup L2(m, r), NEW s \in Entries, m[f][s] = None,
           NEW g \in {r} \cup L1(m, r) \cup L2(m, r) \cup {t}, NEW i \in Entries,
           NEW h \in {r} \cup L1(m, r) \cup L2(m, r) \cup {t}, NEW j \in Entries,
           <<g, i>> # <<h, j>>, Added(m, f, s, t)[g][i] # None
    PROVE  Added(m, f, s, t)[g][i] # Added(m, f, s, t)[h][j]
<1> DEFINE n == Added(m, f, s, t)
           K == {r} \cup L1(m, r) \cup L2(m, r)
<1>1. m \in Memories /\ K \subseteq MemFrames /\ t \notin K /\ f # t /\ f \in K
    BY DEF Tree, Tables
<1>2. \A d \in K \cup {t}, k \in Entries :
         n[d][k] = IF d = t THEN None ELSE IF d = f /\ k = s THEN t ELSE m[d][k]
    <2>1. \A d \in MemFrames, k \in Entries :
             n[d][k] = IF d = t THEN None ELSE IF d = f /\ k = s THEN t ELSE m[d][k]
        <3>1. m \in Memories /\ f \in MemFrames /\ f # t
            BY <1>1
        <3> HIDE DEF K
        <3> QED
            BY <3>1, AddedReads
    <2>2. K \cup {t} \subseteq MemFrames
        BY <1>1
    <2> HIDE DEF n, K
    <2> QED
        BY <2>1, <2>2
<1>3. \A d \in K, k \in Entries : m[d][k] # t
    <2>1. \A d \in K, k \in Entries : m[d][k] # None => m[d][k] \in L1(m, r) \cup L2(m, r) \cup L3(m, r)
        BY LinksIn DEF L1, L2, L3
    <2> QED
        BY <2>1, PagingSizes DEF Tables
<1>4. \A d, e \in K : \A k, l \in Entries :
         <<d, k>> # <<e, l>> /\ m[d][k] # None => m[d][k] # m[e][l]
    BY DEF Tree, LinkedOnce
<1>5. t # None
    BY PagingSizes
<1> HIDE DEF n, K
<1>6. n[g][i] # n[h][j]
    <2>1. g \in K /\ g # t
        BY <1>2 DEF n, K
    <2>2. CASE h = t
        BY <1>2, <2>2 DEF n, K
    <2>3. CASE h # t
        <3>1. h \in K
            BY <2>3 DEF K
        <3> QED
            BY <1>1, <1>2, <1>3, <1>4, <1>5, <2>1, <2>3, <3>1 DEF n
    <2> QED
        BY <2>2, <2>3
<1> QED
    BY <1>6 DEF n

LEMMA AddPdp ==
    ASSUME NEW m, NEW r \in MemFrames, Tree(m, r), NEW t \in MemFrames \ Tables(m, r),
           NEW u \in Pages, W1(m, r, u) = None
    PROVE  /\ Grows(m, Added(m, r, Index(u, 0), t), r, t)
           /\ W1(Added(m, r, Index(u, 0), t), r, u) = t
<1> DEFINE s == Index(u, 0)
           n == Added(m, r, s, t)
<1>1. /\ m \in Memories /\ r # t /\ r # None /\ t # None
      /\ s \in Entries /\ m[r][s] = None
      /\ L1(m, r) \in SUBSET MemFrames /\ L2(m, r) \in SUBSET MemFrames /\ L3(m, r) \in SUBSET MemFrames
      /\ t \notin L1(m, r) /\ t \notin L2(m, r) /\ t \notin L3(m, r) /\ Apart(m, r)
    BY IndexIn, WalkIn, PagingSizes DEF Tree, Tables
<1> HIDE DEF s
<1>2. n \in Memories /\ \A g \in MemFrames, i \in Entries :
          n[g][i] = IF g = t THEN None ELSE IF g = r /\ i = s THEN t ELSE m[g][i]
    BY <1>1, AddedReads
<1>3. L1(n, r) = L1(m, r) \cup {t}
    BY <1>1, LinksAdded DEF L1
<1>4. L2(n, r) = L2(m, r)
    BY <1>1, <1>3, LinksOfNew DEF L2, Apart
<1>5. L3(n, r) = L3(m, r)
    BY <1>1, <1>4, LinksKept DEF L3, Apart
<1>6. Tree(n, r)
    <2>1. Apart(n, r)
        BY <1>1, <1>3, <1>4, <1>5 DEF Apart
    <2>2. LinkedOnce(n, r)
        BY <1>1, <1>3, <1>4, LinkedOnceAdded DEF LinkedOnce
    <2> QED
        BY <1>1, <1>2, <1>3, <1>4, <1>5, <2>1, <2>2 DEF Tree, Tables
<1>7. Tables(n, r) = Tables(m, r) \cup {t}
    BY <1>3, <1>4, <1>5 DEF Tables
<1>8. ASSUME NEW v \in Pages
      PROVE  /\ W1(n, r, v) = IF Index(v, 0) = s THEN t ELSE W1(m, r, v)
             /\ W2(n, r, v) = W2(m, r, v) /\ W3(n, r, v) = W3(m, r, v) /\ W4(n, r, v) = W4(m, r, v)
             /\ Index(v, 0) = s => W1(m, r, v) = None
    <2>1. /\ Index(v, 0) \in Entries /\ Index(v, 1) \in Entries
          /\ Index(v, 2) \in Entries /\ Index(v, 3) \in Entries
        BY IndexIn
    <2>2. W1(n, r, v) = IF Index(v, 0) = s THEN t ELSE W1(m, r, v)
        BY <1>1, <1>2, <2>1 DEF W1, Step
    <2>3. W1(m, r, v) = m[r][Index(v, 0)]
        BY <1>1, WalkIn
    <2>4. W1(m, r, v) \in L1(m, r) \cup {None} /\ W2(m, r, v) \in L2(m, r) \cup {None}
          /\ W3(m, r, v) \in L3(m, r) \cup {None}
        BY <1>1, WalkIn
    <2>5. W2(n, r, v) = W2(m, r, v)
        BY <1>1, <1>2, <2>1, <2>2, <2>3, <2>4 DEF W2, Step, Apart
    <2>6. W3(n, r, v) = W3(m, r, v)
        BY <1>1, <1>2, <2>1, <2>4, <2>5 DEF W3, Step, Apart
    <2>7. W4(n, r, v) = W4(m, r, v)
        BY <1>1, <1>2, <2>1, <2>4, <2>6 DEF W4, Step, Apart
    <2> QED
        BY <1>1, <2>2, <2>3, <2>5, <2>6, <2>7
<1>9. \A v \in Pages : /\ W4(n, r, v) = W4(m, r, v)
                       /\ W1(m, r, v) # None => W1(n, r, v) = W1(m, r, v)
                       /\ W2(m, r, v) # None => W2(n, r, v) = W2(m, r, v)
                       /\ W3(m, r, v) # None => W3(n, r, v) = W3(m, r, v)
    BY <1>8
<1>10. W1(n, r, u) = t
    BY <1>8 DEF s
<1> HIDE DEF n
<1>11. Grows(m, n, r, t)
    BY <1>6, <1>7, <1>9 DEF Grows
<1> QED
    BY <1>10, <1>11 DEF n, s

LEMMA AddPd ==
    ASSUME NEW m, NEW r \in MemFrames, Tree(m, r), NEW t \in MemFrames \ Tables(m, r),
           NEW u \in Pages, W1(m, r, u) # None, W2(m, r, u) = None
    PROVE  /\ Grows(m, Added(m, W1(m, r, u), Index(u, 1), t), r, t)
           /\ W2(Added(m, W1(m, r, u), Index(u, 1), t), r, u) = t
<1> DEFINE f == W1(m, r, u)
           s == Index(u, 1)
           n == Added(m, f, s, t)
<1>1. /\ m \in Memories /\ r # None /\ t # None
      /\ s \in Entries /\ f # None /\ f \in L1(m, r) /\ m[f][s] = None
      /\ L1(m, r) \in SUBSET MemFrames /\ L2(m, r) \in SUBSET MemFrames /\ L3(m, r) \in SUBSET MemFrames
      /\ t # r /\ t \notin L1(m, r) /\ t \notin L2(m, r) /\ t \notin L3(m, r) /\ Apart(m, r)
    BY IndexIn, WalkIn, PagingSizes DEF Tree, Tables, W2, Step
<1> HIDE DEF s, f
<1>2. f \in MemFrames /\ f # t /\ f # r /\ f \notin L2(m, r) /\ f \notin L3(m, r)
    BY <1>1 DEF Apart
<1>3. n \in Memories /\ \A g \in MemFrames, i \in Entries :
          n[g][i] = IF g = t THEN None ELSE IF g = f /\ i = s THEN t ELSE m[g][i]
    BY <1>1, <1>2, AddedReads
<1>4. L1(n, r) = L1(m, r)
    BY <1>1, <1>2, LinksKept DEF L1
<1>5. L2(n, r) = L2(m, r) \cup {t}
    BY <1>1, <1>2, <1>4, LinksAdded DEF L2
<1>6. L3(n, r) = L3(m, r)
    BY <1>1, <1>2, <1>5, LinksOfNew DEF L3
<1>7. Tree(n, r)
    <2>1. Apart(n, r)
        BY <1>1, <1>4, <1>5, <1>6 DEF Apart
    <2>2. LinkedOnce(n, r)
        BY <1>1, <1>4, <1>5, LinkedOnceAdded DEF LinkedOnce
    <2> QED
        BY <1>1, <1>3, <1>4, <1>5, <1>6, <2>1, <2>2 DEF Tree, Tables
<1>8. Tables(n, r) = Tables(m, r) \cup {t}
    BY <1>4, <1>5, <1>6 DEF Tables
<1>9. ASSUME NEW v \in Pages
      PROVE  /\ W1(n, r, v) = W1(m, r, v)
             /\ W2(n, r, v) = IF W1(m, r, v) = f /\ Index(v, 1) = s THEN t ELSE W2(m, r, v)
             /\ W3(n, r, v) = W3(m, r, v) /\ W4(n, r, v) = W4(m, r, v)
             /\ W1(m, r, v) = f /\ Index(v, 1) = s => W2(m, r, v) = None
    <2>1. /\ Index(v, 0) \in Entries /\ Index(v, 1) \in Entries
          /\ Index(v, 2) \in Entries /\ Index(v, 3) \in Entries
        BY IndexIn
    <2>2. W1(n, r, v) = W1(m, r, v)
        BY <1>1, <1>2, <1>3, <2>1 DEF W1, Step
    <2>3. W1(m, r, v) \in L1(m, r) \cup {None} /\ W2(m, r, v) \in L2(m, r) \cup {None}
          /\ W3(m, r, v) \in L3(m, r) \cup {None}
        BY <1>1, WalkIn
    <2>4. W2(n, r, v) = IF W1(m, r, v) = f /\ Index(v, 1) = s THEN t ELSE W2(m, r, v)
        BY <1>1, <1>3, <2>1, <2>2, <2>3 DEF W2, Step
    <2>5. W1(m, r, v) = f /\ Index(v, 1) = s => W2(m, r, v) = None
        BY <1>1 DEF W2, Step
    <2>6. W3(n, r, v) = W3(m, r, v)
        BY <1>1, <1>2, <1>3, <2>1, <2>3, <2>4, <2>5 DEF W3, Step
    <2>7. W4(n, r, v) = W4(m, r, v)
        BY <1>1, <1>2, <1>3, <2>1, <2>3, <2>6 DEF W4, Step
    <2> QED
        BY <2>2, <2>4, <2>5, <2>6, <2>7
<1>10. \A v \in Pages : /\ W4(n, r, v) = W4(m, r, v)
                        /\ W1(m, r, v) # None => W1(n, r, v) = W1(m, r, v)
                        /\ W2(m, r, v) # None => W2(n, r, v) = W2(m, r, v)
                        /\ W3(m, r, v) # None => W3(n, r, v) = W3(m, r, v)
    BY <1>9
<1>11. W2(n, r, u) = t
    BY <1>9 DEF f, s
<1> HIDE DEF n
<1>12. Grows(m, n, r, t)
    BY <1>7, <1>8, <1>10 DEF Grows
<1> QED
    BY <1>11, <1>12 DEF n, f, s

LEMMA AddPt ==
    ASSUME NEW m, NEW r \in MemFrames, Tree(m, r), NEW t \in MemFrames \ Tables(m, r),
           NEW u \in Pages, W2(m, r, u) # None, W3(m, r, u) = None
    PROVE  /\ Grows(m, Added(m, W2(m, r, u), Index(u, 2), t), r, t)
           /\ W3(Added(m, W2(m, r, u), Index(u, 2), t), r, u) = t
<1> DEFINE f == W2(m, r, u)
           s == Index(u, 2)
           n == Added(m, f, s, t)
<1>1. /\ m \in Memories /\ r # None /\ t # None
      /\ s \in Entries /\ f # None /\ f \in L2(m, r) /\ m[f][s] = None
      /\ L1(m, r) \in SUBSET MemFrames /\ L2(m, r) \in SUBSET MemFrames /\ L3(m, r) \in SUBSET MemFrames
      /\ t # r /\ t \notin L1(m, r) /\ t \notin L2(m, r) /\ t \notin L3(m, r) /\ Apart(m, r)
    BY IndexIn, WalkIn, PagingSizes DEF Tree, Tables, W3, Step
<1> HIDE DEF s, f
<1>2. f \in MemFrames /\ f # t /\ f # r /\ f \notin L1(m, r) /\ f \notin L3(m, r)
    BY <1>1 DEF Apart
<1>3. n \in Memories /\ \A g \in MemFrames, i \in Entries :
          n[g][i] = IF g = t THEN None ELSE IF g = f /\ i = s THEN t ELSE m[g][i]
    BY <1>1, <1>2, AddedReads
<1>4. L1(n, r) = L1(m, r)
    BY <1>1, <1>2, LinksKept DEF L1
<1>5. L2(n, r) = L2(m, r)
    BY <1>1, <1>2, <1>4, LinksKept DEF L2
<1>6. L3(n, r) = L3(m, r) \cup {t}
    BY <1>1, <1>2, <1>5, LinksAdded DEF L3
<1>7. Tree(n, r)
    <2>1. Apart(n, r)
        BY <1>1, <1>4, <1>5, <1>6 DEF Apart
    <2>2. LinkedOnce(n, r)
        BY <1>1, <1>4, <1>5, LinkedOnceAdded DEF LinkedOnce
    <2> QED
        BY <1>1, <1>3, <1>4, <1>5, <1>6, <2>1, <2>2 DEF Tree, Tables
<1>8. Tables(n, r) = Tables(m, r) \cup {t}
    BY <1>4, <1>5, <1>6 DEF Tables
<1>9. ASSUME NEW v \in Pages
      PROVE  /\ W1(n, r, v) = W1(m, r, v) /\ W2(n, r, v) = W2(m, r, v)
             /\ W3(n, r, v) = IF W2(m, r, v) = f /\ Index(v, 2) = s THEN t ELSE W3(m, r, v)
             /\ W4(n, r, v) = W4(m, r, v)
             /\ W2(m, r, v) = f /\ Index(v, 2) = s => W3(m, r, v) = None
    <2>1. /\ Index(v, 0) \in Entries /\ Index(v, 1) \in Entries
          /\ Index(v, 2) \in Entries /\ Index(v, 3) \in Entries
        BY IndexIn
    <2>2. W1(n, r, v) = W1(m, r, v)
        BY <1>1, <1>2, <1>3, <2>1 DEF W1, Step
    <2>3. W1(m, r, v) \in L1(m, r) \cup {None} /\ W2(m, r, v) \in L2(m, r) \cup {None}
          /\ W3(m, r, v) \in L3(m, r) \cup {None}
        BY <1>1, WalkIn
    <2>4. W2(n, r, v) = W2(m, r, v)
        BY <1>1, <1>2, <1>3, <2>1, <2>2, <2>3 DEF W2, Step
    <2>5. W3(n, r, v) = IF W2(m, r, v) = f /\ Index(v, 2) = s THEN t ELSE W3(m, r, v)
        BY <1>1, <1>3, <2>1, <2>3, <2>4 DEF W3, Step
    <2>6. W2(m, r, v) = f /\ Index(v, 2) = s => W3(m, r, v) = None
        BY <1>1 DEF W3, Step
    <2>7. W4(n, r, v) = W4(m, r, v)
        BY <1>1, <1>2, <1>3, <2>1, <2>3, <2>5, <2>6 DEF W4, Step
    <2> QED
        BY <2>2, <2>4, <2>5, <2>6, <2>7
<1>10. \A v \in Pages : /\ W4(n, r, v) = W4(m, r, v)
                        /\ W1(m, r, v) # None => W1(n, r, v) = W1(m, r, v)
                        /\ W2(m, r, v) # None => W2(n, r, v) = W2(m, r, v)
                        /\ W3(m, r, v) # None => W3(n, r, v) = W3(m, r, v)
    BY <1>9
<1>11. W3(n, r, u) = t
    BY <1>9 DEF f, s
<1> HIDE DEF n
<1>12. Grows(m, n, r, t)
    BY <1>7, <1>8, <1>10 DEF Grows
<1> QED
    BY <1>11, <1>12 DEF n, f, s

\* The last write of map: the tables and the ways to them stay, and one page gets the frame x.
LEMMA SetLast ==
    ASSUME NEW m, NEW r \in MemFrames, Tree(m, r), NEW x \in Words, NEW u \in Pages, W3(m, r, u) # None
    PROVE  /\ Tree(Set(m, W3(m, r, u), Index(u, 3), x), r)
           /\ Tables(Set(m, W3(m, r, u), Index(u, 3), x), r) = Tables(m, r)
           /\ \A v \in Pages :
                 /\ W1(Set(m, W3(m, r, u), Index(u, 3), x), r, v) = W1(m, r, v)
                 /\ W2(Set(m, W3(m, r, u), Index(u, 3), x), r, v) = W2(m, r, v)
                 /\ W3(Set(m, W3(m, r, u), Index(u, 3), x), r, v) = W3(m, r, v)
                 /\ W4(Set(m, W3(m, r, u), Index(u, 3), x), r, v) = IF v = u THEN x ELSE W4(m, r, v)
<1> DEFINE f == W3(m, r, u)
           s == Index(u, 3)
           n == Set(m, f, s, x)
<1>1. /\ m \in Memories /\ r # None /\ s \in Entries /\ f # None /\ f \in L3(m, r)
      /\ L1(m, r) \in SUBSET MemFrames /\ L2(m, r) \in SUBSET MemFrames /\ L3(m, r) \in SUBSET MemFrames
      /\ Apart(m, r) /\ LinkedOnce(m, r)
    BY IndexIn, WalkIn, PagingSizes DEF Tree, Tables
<1>2. \A v \in Pages : W3(m, r, v) = f /\ Index(v, 3) = s => v = u
    BY <1>1, SameWay
<1>3. W3(m, r, u) = f /\ Index(u, 3) = s
    OBVIOUS
<1> HIDE DEF s, f
<1>4. f \in MemFrames /\ f # r /\ f \notin L1(m, r) /\ f \notin L2(m, r)
    BY <1>1 DEF Apart
<1>5. n \in Memories /\ \A g \in MemFrames, i \in Entries : n[g][i] = IF g = f /\ i = s THEN x ELSE m[g][i]
    BY <1>1, <1>4, SetReads
<1>6. L1(n, r) = L1(m, r)
    BY <1>1, <1>4, LinksSet DEF L1
<1>7. L2(n, r) = L2(m, r)
    BY <1>1, <1>4, <1>6, LinksSet DEF L2
<1>8. L3(n, r) = L3(m, r)
    BY <1>1, <1>4, <1>7, LinksSet DEF L3
<1>9. Tables(n, r) = Tables(m, r)
    BY <1>6, <1>7, <1>8 DEF Tables
<1>10. Tree(n, r)
    <2>1. Apart(n, r)
        BY <1>1, <1>6, <1>7, <1>8 DEF Apart
    <2>2. \A g \in {r} \cup L1(m, r) \cup L2(m, r) : \A i \in Entries : n[g][i] = m[g][i]
        BY <1>1, <1>4, <1>5
    <2>3. LinkedOnce(n, r)
        BY <1>1, <1>6, <1>7, <2>2 DEF LinkedOnce
    <2> QED
        BY <1>5, <1>9, <2>1, <2>3 DEF Tree
<1>11. ASSUME NEW v \in Pages
       PROVE  /\ W1(n, r, v) = W1(m, r, v) /\ W2(n, r, v) = W2(m, r, v) /\ W3(n, r, v) = W3(m, r, v)
              /\ W4(n, r, v) = IF v = u THEN x ELSE W4(m, r, v)
    <2>1. /\ Index(v, 0) \in Entries /\ Index(v, 1) \in Entries
          /\ Index(v, 2) \in Entries /\ Index(v, 3) \in Entries
        BY IndexIn
    <2>2. W1(n, r, v) = W1(m, r, v)
        BY <1>1, <1>4, <1>5, <2>1 DEF W1, Step
    <2>3. W1(m, r, v) \in L1(m, r) \cup {None} /\ W2(m, r, v) \in L2(m, r) \cup {None}
          /\ W3(m, r, v) \in L3(m, r) \cup {None}
        BY <1>1, WalkIn
    <2>4. W2(n, r, v) = W2(m, r, v)
        BY <1>1, <1>4, <1>5, <2>1, <2>2, <2>3 DEF W2, Step
    <2>5. W3(n, r, v) = W3(m, r, v)
        BY <1>1, <1>4, <1>5, <2>1, <2>3, <2>4 DEF W3, Step
    <2>6. W4(n, r, v) = IF W3(m, r, v) = f /\ Index(v, 3) = s THEN x ELSE W4(m, r, v)
        BY <1>1, <1>5, <2>1, <2>3, <2>5 DEF W4, Step
    <2> QED
        BY <1>2, <1>3, <2>2, <2>4, <2>5, <2>6
<1> HIDE DEF n
<1> QED
    BY <1>9, <1>10, <1>11 DEF n, f, s

-----------------------------------------------------------------------------
(* The invariant.                                                            *)

LEMMA LeastNumber ==
    ASSUME NEW S \in SUBSET Nat, S # {}
    PROVE  Min(S) \in S /\ \A n \in S : Min(S) <= n
<1> DEFINE R == OpToRel(<, Nat)
<1>1. IsWellFoundedOn(R, Nat)
    BY NatLessThanWellFounded
<1>2. \A x, y \in Nat : <<y, x>> \in R <=> y < x
    BY DEF OpToRel
<1> HIDE DEF R
<1>3. \E x \in S : \A y \in S : <<y, x>> \notin R
    BY <1>1, WFMin, Zenon
<1>4. PICK x \in S : \A y \in S : <<y, x>> \notin R
    BY <1>3
<1>5. \A y \in S : ~(y < x)
    BY <1>2, <1>4
<1>6. \A y \in S : x <= y
    BY <1>5
<1> QED
    BY <1>6 DEF Min

\* The table of level l on the way to page v.
Way(m, r, v, l) == IF l = 0 THEN r ELSE IF l = 1 THEN W1(m, r, v) ELSE IF l = 2 THEN W2(m, r, v) ELSE W3(m, r, v)

Typed == TypeOK /\ todo \subseteq Identity \cup Reserved

TablesOwned == Tree(mem, pml4) /\ TableFrames \cap free = {}

HeapOwned == \A v \in HeapStart .. (heap_end - 1) : Translate(v) \notin TableFrames \cup free

\* The walk is where the entries lead, and only pages of the heap are mapped to
\* another frame, which is nobody else's.
OpFits == op # Idle =>
    /\ op.table = Way(mem, pml4, op.page, op.level)
    /\ op.page \notin HeapArea => op.frame = op.page
    /\ op.page \in HeapArea => /\ op.page = heap_end /\ Translate(op.page) = None
                              /\ op.frame \notin TableFrames \cup free

Mapped == \A v \in Pages : /\ v \notin HeapArea => Translate(v) \in {None, v}
                           /\ v \in HeapArea /\ v >= heap_end => Translate(v) = None

\* Until the tables are used they are the lowest frames, as many as the blocks
\* that have been mapped.
OnTheWay == {pml4} \cup {Pdp(v) : v \in Identity} \cup {Pd(v) : v \in Identity} \cup {Pt(v) : v \in Identity}
Booting == loads = 0 /\ halted = "no" =>
    /\ heap_end = HeapStart /\ todo \subseteq Identity
    /\ op # Idle => op.page \in Identity
    /\ MemFrames \subseteq free \cup TableFrames
    /\ \A f \in TableFrames, g \in free : f < g
    /\ TableFrames \subseteq OnTheWay
    /\ \A v \in Identity \ todo : Translate(v) = v \/ (op # Idle /\ op.page = v)

InUse == loads > 0 => /\ \A v \in Identity : Translate(v) = v
                      /\ \A f \in TableFrames : Translate(f) = f
                      /\ loads = 2 => todo = {}

FaultOfFrame == halted = "fault" => \E f \in MemFrames \ free : f >= IdentityPages

PagingInv == /\ Typed /\ TablesOwned /\ HeapOwned /\ OpFits /\ Mapped
             /\ Booting /\ InUse /\ FaultOfFrame /\ TlbCoherent

\* The state's tables and walks are those of the predicates above.
LEMMA Reads ==
    /\ Pdps = L1(mem, pml4) /\ Pds = L2(mem, pml4) /\ Pts = L3(mem, pml4)
    /\ TableFrames = Tables(mem, pml4)
    /\ \A v : /\ Pdp(v) = W1(mem, pml4, v) /\ Pd(v) = W2(mem, pml4, v)
              /\ Pt(v) = W3(mem, pml4, v) /\ Translate(v) = W4(mem, pml4, v)
BY DEF TableFrames, Pdps, Pds, Pts, Linked, Tables, L1, L2, L3, Links, Entries, Pdp, Pd, Pt, Translate,
       Follow, W1, W2, W3, W4, Step

LEMMA ReadsNext ==
    /\ Pdps' = L1(mem', pml4') /\ Pds' = L2(mem', pml4') /\ Pts' = L3(mem', pml4')
    /\ TableFrames' = Tables(mem', pml4')
    /\ \A v : /\ Pdp(v)' = W1(mem', pml4', v) /\ Pd(v)' = W2(mem', pml4', v)
              /\ Pt(v)' = W3(mem', pml4', v) /\ Translate(v)' = W4(mem', pml4', v)
BY DEF TableFrames, Pdps, Pds, Pts, Linked, Tables, L1, L2, L3, Links, Entries, Pdp, Pd, Pt, Translate,
       Follow, W1, W2, W3, W4, Step

-----------------------------------------------------------------------------
(* The steps of map.                                                         *)

Walks == [level : 0 .. 3, page : Pages, frame : Nat, table : MemFrames]

LEMMA Facts ==
    ASSUME PagingInv
    PROVE  /\ mem \in Memories /\ pml4 \in MemFrames /\ free \in SUBSET MemFrames
           /\ MemFrames \subseteq Nat \ {0} /\ MemFrames \subseteq Pages /\ Pages \subseteq Nat /\ None \notin Nat
           /\ op # Idle => op \in Walks /\ op.level \in 0 .. 3 /\ op.page \in Pages
                           /\ op.frame \in Nat /\ op.table \in MemFrames
           /\ free # {} => Min(free) \in free /\ \A f \in free : Min(free) <= f
<1>1. mem \in Memories /\ pml4 \in MemFrames /\ free \in SUBSET MemFrames
    BY DEF PagingInv, Typed, TypeOK, Memories, Entries
<1>2. MemFrames \subseteq Nat \ {0} /\ MemFrames \subseteq Pages /\ Pages \subseteq Nat /\ None \notin Nat
    BY PagingSizes, Addresses DEF Pages
<1>3. op # Idle => op \in Walks
    BY DEF PagingInv, Typed, TypeOK, Walks
<1>4. free # {} => Min(free) \in free /\ \A f \in free : Min(free) <= f
    BY <1>1, <1>2, LeastNumber
<1> QED
    BY <1>1, <1>2, <1>3, <1>4 DEF Walks

\* The walk goes one level on, to table t.
LEMMA WalksOn ==
    ASSUME op \in Walks, op.level < Leaf, NEW t \in MemFrames, op' = [op EXCEPT !.level = @ + 1, !.table = t]
    PROVE  /\ op' \in Walks /\ op' # Idle
           /\ op'.level = op.level + 1 /\ op'.table = t /\ op'.page = op.page /\ op'.frame = op.frame
<1> DEFINE b == [op EXCEPT !.level = op.level + 1]
<1>1. b \in Walks /\ b.level = op.level + 1 /\ b.page = op.page /\ b.frame = op.frame
    BY DEF Walks, Leaf
<1>2. op' = [b EXCEPT !.table = t]
    OBVIOUS
<1> HIDE DEF b
<1>3. /\ op' \in Walks /\ op'.level = op.level + 1 /\ op'.table = t
      /\ op'.page = op.page /\ op'.frame = op.frame
    BY <1>1, <1>2 DEF Walks
<1>4. op'.level # 4
    <2>1. op.level \in 0 .. 2
        BY DEF Walks, Leaf
    <2> QED
        BY <1>3, <2>1
<1>5. Idle.level = 4
    BY DEF Idle
<1> QED
    BY <1>3, <1>4, <1>5

\* The table of a walk, and the next one, as the code reads it.
LEMMA EntryOnWay ==
    ASSUME PagingInv, op # Idle
    PROVE  /\ op.level < Leaf => Entry = Way(mem, pml4, op.page, op.level + 1)
           /\ op.table \in TableFrames /\ op.table # None /\ Slot \in Entries
           /\ op.level = Leaf => op.table = W3(mem, pml4, op.page)
<1>1. op.table = Way(mem, pml4, op.page, op.level) /\ op.table # None /\ op.level \in 0 .. 3 /\ op.page \in Pages
    BY Facts DEF PagingInv, OpFits
<1>2. op.level < Leaf => Entry = Way(mem, pml4, op.page, op.level + 1)
    <2>1. CASE op.level = 0
        BY <1>1, <2>1 DEF Entry, Slot, Way, W1, Step
    <2>2. CASE op.level = 1
        BY <1>1, <2>2 DEF Entry, Slot, Way, W2, Step
    <2>3. CASE op.level = 2
        BY <1>1, <2>3 DEF Entry, Slot, Way, W3, Step
    <2> QED
        BY <1>1, <2>1, <2>2, <2>3 DEF Leaf
<1>3. op.table \in TableFrames
    BY <1>1, Facts, Reads, WalkIn DEF Way, Tables
<1>4. Slot \in Entries
    BY <1>1, IndexIn DEF Slot
<1> QED
    BY <1>1, <1>2, <1>3, <1>4 DEF Leaf, Way

\* A new table is the least free frame; it makes the tree grow where the walk is.
LEMMA NewTableGrows ==
    ASSUME PagingInv, NewTable
    PROVE  /\ free # {} /\ op # Idle /\ Grows(mem, mem', pml4, Min(free))
           /\ op' \in Walks /\ op' # Idle /\ op'.page = op.page /\ op'.frame = op.frame
           /\ op'.table = Min(free) /\ op'.table = Way(mem', pml4, op'.page, op'.level)
<1> DEFINE t == Min(free)
           u == op.page
<1>1. /\ op # Idle /\ op.level < Leaf /\ Entry = None /\ free # {}
      /\ op' = [op EXCEPT !.level = @ + 1, !.table = t]
      /\ mem' = Added(mem, op.table, Slot, t)
    BY DEF NewTable, Mapping, NeedsTable, Added
<1>2. /\ op \in Walks /\ op.level \in 0 .. 2 /\ u \in Pages /\ t \in free /\ t \in MemFrames
      /\ pml4 \in MemFrames
    BY <1>1, Facts DEF Leaf
<1>3. Tree(mem, pml4) /\ t \notin Tables(mem, pml4)
    BY <1>2, Reads DEF PagingInv, TablesOwned
<1>4. Way(mem, pml4, u, op.level + 1) = None /\ op.table = Way(mem, pml4, u, op.level) /\ op.table # None
    BY <1>1, EntryOnWay DEF PagingInv, OpFits
<1>5. /\ op' \in Walks /\ op' # Idle /\ op'.page = u /\ op'.frame = op.frame
      /\ op'.table = t /\ op'.level = op.level + 1
    BY <1>1, <1>2, WalksOn
<1> HIDE DEF t, u
<1>6. CASE op.level = 0
    <2>1. mem' = Added(mem, pml4, Index(u, 0), t) /\ W1(mem, pml4, u) = None
        BY <1>1, <1>4, <1>6 DEF Slot, Way, u
    <2>2. Grows(mem, mem', pml4, t) /\ W1(mem', pml4, u) = t
        BY <1>2, <1>3, <2>1, AddPdp
    <2> QED
        BY <1>1, <1>5, <1>6, <2>2 DEF Way, t, u
<1>7. CASE op.level = 1
    <2>1. /\ mem' = Added(mem, W1(mem, pml4, u), Index(u, 1), t)
          /\ W1(mem, pml4, u) # None /\ W2(mem, pml4, u) = None
        BY <1>1, <1>4, <1>7 DEF Slot, Way, u
    <2>2. Grows(mem, mem', pml4, t) /\ W2(mem', pml4, u) = t
        BY <1>2, <1>3, <2>1, AddPd
    <2> QED
        BY <1>1, <1>5, <1>7, <2>2 DEF Way, t, u
<1>8. CASE op.level = 2
    <2>1. /\ mem' = Added(mem, W2(mem, pml4, u), Index(u, 2), t)
          /\ W2(mem, pml4, u) # None /\ W3(mem, pml4, u) = None
        BY <1>1, <1>4, <1>8 DEF Slot, Way, u
    <2>2. Grows(mem, mem', pml4, t) /\ W3(mem', pml4, u) = t
        BY <1>2, <1>3, <2>1, AddPt
    <2> QED
        BY <1>1, <1>5, <1>8, <2>2 DEF Way, t, u
<1> QED
    BY <1>2, <1>6, <1>7, <1>8

\* Every part of the invariant after map has taken a frame for a new table.
LEMMA NewTableStep == PagingInv /\ NewTable => PagingInv'
<1> SUFFICES ASSUME PagingInv, NewTable PROVE PagingInv'
    OBVIOUS
<1> DEFINE t == Min(free)
<1>1. /\ free # {} /\ op # Idle /\ Grows(mem, mem', pml4, t)
      /\ op' \in Walks /\ op' # Idle /\ op'.page = op.page /\ op'.frame = op.frame
      /\ op'.table = t /\ op'.table = Way(mem', pml4, op'.page, op'.level)
    BY NewTableGrows
<1>2. /\ free' = free \ {t} /\ (loads > 0 => Translate(t) = t) /\ halted = "no"
      /\ UNCHANGED <<pml4, loads, todo, heap_end, stacks, tlb, halted>>
    <2>1. loads > 0 => Translate(t) = t
        BY DEF NewTable, Accessible, PagingInv, Typed, TypeOK
    <2> QED
        BY <2>1 DEF NewTable, Mapping, Without, callers
<1>3. t \in free /\ t \in MemFrames /\ t # None /\ \A f \in free : t <= f
    BY <1>1, Facts
<1>4. /\ TableFrames' = TableFrames \cup {t} /\ Tree(mem', pml4')
      /\ \A v \in Pages : Translate(v)' = Translate(v)
    BY <1>1, <1>2, Reads, ReadsNext DEF Grows
<1> HIDE DEF t
<1>5. Typed'
    <2>1. mem' \in Memories
        BY <1>4 DEF Tree
    <2> QED
        BY <1>1, <1>2, <2>1 DEF PagingInv, Typed, TypeOK, Memories, Entries, Walks
<1>6. TablesOwned'
    BY <1>2, <1>3, <1>4 DEF PagingInv, TablesOwned
<1>7. HeapOwned'
    <2>1. HeapStart .. (heap_end - 1) \subseteq HeapArea /\ HeapArea \subseteq Pages
        BY Addresses, PagingSizes DEF PagingInv, Typed, TypeOK, HeapArea
    <2> QED
        BY <1>2, <1>3, <1>4, <2>1 DEF PagingInv, HeapOwned
<1>8. OpFits'
    BY <1>1, <1>2, <1>3, <1>4, Facts DEF PagingInv, OpFits
<1>9. Mapped'
    BY <1>2, <1>4 DEF PagingInv, Mapped
<1>10. Booting'
    <2> SUFFICES ASSUME loads = 0 PROVE Booting'
        BY <1>2 DEF Booting
    <2>1. Booting /\ halted = "no" /\ op.page \in Identity /\ Identity \subseteq Pages
        BY <1>1, <1>2, Addresses DEF PagingInv, Booting
    <2>2. free' \subseteq free
        BY <1>2
    <2>3. \A f \in TableFrames', g \in free' : f < g
        <3>1. \A g \in free' : t < g
            BY <1>2, <1>3, Facts
        <3> QED
            BY <1>4, <2>1, <2>2, <3>1 DEF Booting
    <2>4. TableFrames' \subseteq OnTheWay'
        <3>1. t \in OnTheWay'
            <4>1. op'.level \in 0 .. 3 /\ op'.page \in Identity
                BY <1>1, <2>1 DEF Walks
            <4> QED
                BY <1>1, <1>2, <4>1, ReadsNext DEF Way, OnTheWay
        <3>2. ASSUME NEW f \in OnTheWay, f # None PROVE f \in OnTheWay'
            BY <1>1, <1>2, <2>1, <3>2, Reads, ReadsNext DEF Grows, OnTheWay
        <3>3. None \notin TableFrames
            BY Facts, Reads DEF PagingInv, TablesOwned, Tree
        <3> QED
            BY <1>4, <2>1, <3>1, <3>2, <3>3 DEF Booting
    <2>5. \A v \in Identity : Translate(v)' = Translate(v)
        BY <1>4, <2>1
    <2> QED
        BY <1>1, <1>2, <1>4, <2>1, <2>2, <2>3, <2>4, <2>5 DEF Booting
<1>11. InUse'
    <2> SUFFICES ASSUME loads > 0 PROVE InUse'
        BY <1>2 DEF InUse
    <2>1. InUse /\ Identity \subseteq Pages /\ TableFrames' \subseteq Pages
        BY <1>4, Facts, Addresses, ReadsNext DEF PagingInv, Tree
    <2> QED
        BY <1>2, <1>4, <2>1 DEF InUse
<1>12. FaultOfFrame' /\ TlbCoherent'
    BY <1>2, <1>4, Addresses DEF PagingInv, FaultOfFrame, TlbCoherent
<1> QED
    BY <1>5, <1>6, <1>7, <1>8, <1>9, <1>10, <1>11, <1>12 DEF PagingInv

\* The last write of map.
LEMMA SetLeafChanges ==
    ASSUME PagingInv, SetLeaf
    PROVE  /\ op # Idle /\ op \in Walks /\ Tree(mem', pml4) /\ TableFrames' = TableFrames
           /\ \A v \in Pages : /\ Pdp(v)' = Pdp(v) /\ Pd(v)' = Pd(v) /\ Pt(v)' = Pt(v)
                               /\ Translate(v)' = IF v = op.page THEN op.frame ELSE Translate(v)
<1>1. op # Idle /\ op.level = Leaf /\ mem' = Set(mem, op.table, Slot, op.frame) /\ pml4' = pml4
    BY DEF SetLeaf, Mapping, Set
<1>2. op \in Walks /\ op.page \in Pages /\ op.frame \in Words /\ pml4 \in MemFrames
    BY <1>1, Facts DEF Words
<1>3. op.table = W3(mem, pml4, op.page) /\ op.table # None /\ Slot = Index(op.page, 3)
    BY <1>1, EntryOnWay DEF Slot, Leaf
<1>4. Tree(mem, pml4)
    BY DEF PagingInv, TablesOwned
<1>5. /\ Tree(mem', pml4) /\ Tables(mem', pml4) = Tables(mem, pml4)
      /\ \A v \in Pages : /\ W1(mem', pml4, v) = W1(mem, pml4, v) /\ W2(mem', pml4, v) = W2(mem, pml4, v)
                          /\ W3(mem', pml4, v) = W3(mem, pml4, v)
                          /\ W4(mem', pml4, v) = IF v = op.page THEN op.frame ELSE W4(mem, pml4, v)
    BY <1>1, <1>2, <1>3, <1>4, SetLast
<1> QED
    BY <1>1, <1>2, <1>5, Reads, ReadsNext

LEMMA SetLeafStep == PagingInv /\ SetLeaf => PagingInv'
<1> SUFFICES ASSUME PagingInv, SetLeaf PROVE PagingInv'
    OBVIOUS
<1> DEFINE u == op.page
           x == op.frame
<1>1. /\ op # Idle /\ op \in Walks /\ Tree(mem', pml4) /\ TableFrames' = TableFrames
      /\ \A v \in Pages : /\ Pdp(v)' = Pdp(v) /\ Pd(v)' = Pd(v) /\ Pt(v)' = Pt(v)
                          /\ Translate(v)' = IF v = u THEN x ELSE Translate(v)
    BY SetLeafChanges
<1>2. /\ op' = Idle /\ halted = "no"
      /\ heap_end' = IF u \in HeapArea THEN heap_end + 1 ELSE heap_end
      /\ UNCHANGED <<free, pml4, loads, todo, stacks, tlb, halted>>
    BY DEF SetLeaf, Mapping, HeapNext
<1>3. u \in Pages /\ x \in Nat /\ x # None
    BY <1>1, Facts
<1>4. /\ u \notin HeapArea => x = u
      /\ u \in HeapArea => u = heap_end /\ Translate(u) = None /\ x \notin TableFrames \cup free
    BY <1>1 DEF PagingInv, OpFits
<1>5. Translate(u) \in {None, x}
    BY <1>3, <1>4 DEF PagingInv, Mapped
<1> HIDE DEF u, x
<1>6. Typed'
    <2>1. mem' \in Memories
        BY <1>1 DEF Tree
    <2>2. heap_end' \in HeapStart .. (HeapStart + HeapPages)
        BY <1>2, <1>4, PagingSizes DEF PagingInv, Typed, TypeOK, HeapArea
    <2> QED
        BY <1>2, <2>1, <2>2 DEF PagingInv, Typed, TypeOK, Memories, Entries
<1>7. TablesOwned'
    BY <1>1, <1>2 DEF PagingInv, TablesOwned
<1>8. HeapOwned'
    <2>1. HeapStart .. (heap_end' - 1) \subseteq HeapArea /\ HeapArea \subseteq Pages
        BY <1>2, <1>4, Addresses, PagingSizes DEF PagingInv, Typed, TypeOK, HeapArea
    <2>2. \A v \in HeapStart .. (heap_end' - 1) : v # u => v \in HeapStart .. (heap_end - 1)
        BY <1>2, <1>4, PagingSizes DEF PagingInv, Typed, TypeOK
    <2>3. ASSUME NEW v \in HeapStart .. (heap_end' - 1)
          PROVE  Translate(v)' \notin TableFrames \cup free
        <3>1. CASE v = u
            BY <1>1, <1>4, <2>1, <3>1
        <3>2. CASE v # u
            BY <1>1, <2>1, <2>2, <3>2 DEF PagingInv, HeapOwned
        <3> QED
            BY <3>1, <3>2
    <2> QED
        BY <1>1, <1>2, <2>3 DEF HeapOwned
<1>9. OpFits'
    BY <1>2 DEF OpFits
<1>10. Mapped'
    <2>1. \A v \in HeapArea : v >= heap_end' => v >= heap_end /\ (v = u => u \notin HeapArea)
        BY <1>2, <1>4, PagingSizes DEF PagingInv, Typed, TypeOK, HeapArea
    <2> QED
        BY <1>1, <1>2, <1>4, <2>1 DEF PagingInv, Mapped
<1>11. Booting'
    <2> SUFFICES ASSUME loads = 0 PROVE Booting'
        BY <1>2 DEF Booting
    <2>1. Booting /\ u \in Identity /\ Identity \subseteq Pages /\ u \notin HeapArea
        BY <1>1, <1>2, Addresses DEF PagingInv, Booting, u
    <2>2. \A v \in Identity \ todo : Translate(v)' = v
        BY <1>1, <1>2, <1>4, <2>1 DEF Booting, u
    <2>3. OnTheWay \cap MemFrames \subseteq OnTheWay'
        BY <1>1, <1>2, <2>1 DEF OnTheWay
    <2>4. TableFrames' \subseteq OnTheWay'
        BY <1>1, <1>2, <2>1, <2>3, Reads DEF Booting, PagingInv, TablesOwned, Tree
    <2> QED
        BY <1>1, <1>2, <2>1, <2>2, <2>4 DEF Booting
<1>12. InUse'
    <2> SUFFICES ASSUME loads > 0 PROVE InUse'
        BY <1>2 DEF InUse
    <2>1. InUse /\ Identity \subseteq Pages /\ TableFrames \subseteq MemFrames /\ TableFrames \subseteq Pages
        BY <1>1, Facts, Addresses, Reads DEF PagingInv, TablesOwned, Tree
    <2>2. u \in Identity \cup TableFrames => x = u
        BY <1>4, <2>1, Addresses
    <2> QED
        BY <1>1, <1>2, <2>1, <2>2 DEF InUse
<1>13. FaultOfFrame'
    BY <1>2 DEF PagingInv, FaultOfFrame
<1>14. TlbCoherent'
    BY <1>1, <1>2, <1>5, Addresses DEF PagingInv, TlbCoherent
<1> QED
    BY <1>6, <1>7, <1>8, <1>9, <1>10, <1>11, <1>12, <1>13, <1>14 DEF PagingInv

-----------------------------------------------------------------------------
(* The steps that write no table.                                            *)

LEMMA TablesStay ==
    ASSUME UNCHANGED <<mem, pml4>>
    PROVE  /\ TableFrames' = TableFrames /\ OnTheWay' = OnTheWay /\ \A v : Translate(v)' = Translate(v)
           /\ Tree(mem, pml4) => Tree(mem', pml4')
BY Reads, ReadsNext DEF OnTheWay

LEMMA DescendStep == PagingInv /\ Descend => PagingInv'
<1> SUFFICES ASSUME PagingInv, Descend PROVE PagingInv'
    OBVIOUS
<1>1. /\ op # Idle /\ op.level < Leaf /\ Entry # None /\ halted = "no"
      /\ op' = [op EXCEPT !.level = @ + 1, !.table = Entry]
      /\ UNCHANGED <<mem, free, pml4, loads, todo, heap_end, stacks, tlb, halted>>
    BY DEF Descend, Mapping, callers
<1>2. op \in Walks /\ Entry = Way(mem, pml4, op.page, op.level + 1) /\ op.level \in 0 .. 2 /\ op.page \in Pages
    BY <1>1, Facts, EntryOnWay DEF Leaf
<1>3. Entry \in MemFrames
    BY <1>1, <1>2, WalkIn, Facts DEF PagingInv, TablesOwned, Tree, Tables, Way
<1>4. /\ op' \in Walks /\ op' # Idle
      /\ op'.level = op.level + 1 /\ op'.table = Entry /\ op'.page = op.page /\ op'.frame = op.frame
    BY <1>1, <1>2, <1>3, WalksOn
<1>5. Typed' /\ TablesOwned'
    BY <1>1, <1>4, TablesStay DEF PagingInv, Typed, TypeOK, TablesOwned, Walks
<1>6. OpFits'
    BY <1>1, <1>2, <1>4, TablesStay DEF PagingInv, OpFits
<1>7. HeapOwned' /\ Mapped' /\ InUse' /\ FaultOfFrame' /\ TlbCoherent'
    BY <1>1, TablesStay DEF PagingInv, HeapOwned, Mapped, InUse, FaultOfFrame, TlbCoherent
<1>8. Booting'
    BY <1>1, <1>4, TablesStay DEF PagingInv, Booting
<1> QED
    BY <1>5, <1>6, <1>7, <1>8 DEF PagingInv

-----------------------------------------------------------------------------
(* While init_paging maps its pages the tables are few.                      *)

LEMMA Image ==
    ASSUME NEW f, NEW S, IsFiniteSet(S), f = [x \in S |-> f[x]], NEW T, T = {f[x] : x \in S}
    PROVE  IsFiniteSet(T) /\ Cardinality(T) <= Cardinality(S)
<1>1. f \in Surjection(S, T)
    BY DEF Surjection
<1> QED
    BY <1>1, FS_Surjection

LEMMA SmallUnion ==
    ASSUME NEW S, NEW T, IsFiniteSet(S), IsFiniteSet(T)
    PROVE  /\ IsFiniteSet(S \cup T) /\ Cardinality(S \cup T) <= Cardinality(S) + Cardinality(T)
           /\ Cardinality(S) \in Nat /\ Cardinality(T) \in Nat /\ Cardinality(S \cup T) \in Nat
<1>1. /\ IsFiniteSet(S \cup T)
      /\ Cardinality(S \cup T) = Cardinality(S) + Cardinality(T) - Cardinality(S \cap T)
    BY FS_Union
<1>2. IsFiniteSet(S \cap T)
    BY FS_Intersection
<1>3. /\ Cardinality(S) \in Nat /\ Cardinality(T) \in Nat /\ Cardinality(S \cap T) \in Nat
      /\ Cardinality(S \cup T) \in Nat
    BY <1>1, <1>2, FS_CardinalityType
<1> QED
    BY <1>1, <1>3

\* A walk passes one table for each block that its page is in.
LEMMA FewOnTheWay ==
    /\ IsFiniteSet(OnTheWay) /\ Cardinality(OnTheWay) \in Nat
    /\ Cardinality(Blocks(0)) \in Nat /\ Cardinality(Blocks(1)) \in Nat /\ Cardinality(Blocks(2)) \in Nat
    /\ Cardinality(OnTheWay) <= 1 + Cardinality(Blocks(0)) + Cardinality(Blocks(1)) + Cardinality(Blocks(2))
<1> DEFINE P == {Pdp(v) : v \in Identity}
           D == {Pd(v) : v \in Identity}
           T == {Pt(v) : v \in Identity}
           p == [b \in Blocks(0) |-> Follow(pml4, b % Radix)]
           d == [b \in Blocks(1) |-> Follow(Follow(pml4, (b \div Radix) % Radix), b % Radix)]
           t == [b \in Blocks(2) |->
                    Follow(Follow(Follow(pml4, ((b \div Radix) \div Radix) % Radix),
                                  (b \div Radix) % Radix), b % Radix)]
<1>1. IsFiniteSet(Identity)
    <2>1. 0 \in Int /\ IdentityPages - 1 \in Int
        BY PagingSizes
    <2> QED
        BY <2>1, FS_Interval DEF Identity
<1>2. IsFiniteSet(Blocks(0)) /\ IsFiniteSet(Blocks(1)) /\ IsFiniteSet(Blocks(2))
    <2> SUFFICES ASSUME NEW l \in 0 .. 2 PROVE IsFiniteSet(Blocks(l))
        OBVIOUS
    <2> DEFINE g == [v \in Identity |-> Block(v, l)]
    <2>1. Blocks(l) = {g[v] : v \in Identity} /\ g = [v \in Identity |-> g[v]]
        BY DEF Blocks
    <2> HIDE DEF g
    <2> QED
        BY <1>1, <2>1, Image
<1>3. \A v \in Identity : /\ Block(v, 0) \in Blocks(0) /\ Block(v, 1) \in Blocks(1) /\ Block(v, 2) \in Blocks(2)
                          /\ Block(v, 0) = Block(v, 1) \div Radix /\ Block(v, 1) = Block(v, 2) \div Radix
    BY DEF Blocks, Block
<1>4. \A v \in Identity : /\ Pdp(v) = p[Block(v, 0)] /\ Pd(v) = d[Block(v, 1)] /\ Pt(v) = t[Block(v, 2)]
    BY <1>3 DEF Pdp, Pd, Pt, Index
<1>5. /\ P = {p[b] : b \in Blocks(0)}
      /\ D = {d[b] : b \in Blocks(1)}
      /\ T = {t[b] : b \in Blocks(2)}
    <2>1. \A l : \A b \in Blocks(l) : \E v \in Identity : b = Block(v, l)
        BY DEF Blocks
    <2> HIDE DEF p, d, t
    <2> QED
        BY <1>3, <1>4, <2>1
<1>6. p = [b \in Blocks(0) |-> p[b]] /\ d = [b \in Blocks(1) |-> d[b]] /\ t = [b \in Blocks(2) |-> t[b]]
    OBVIOUS
<1> HIDE DEF p, d, t
<1>7. IsFiniteSet(P) /\ Cardinality(P) <= Cardinality(Blocks(0))
    <2>1. IsFiniteSet(Blocks(0)) /\ P = {p[b] : b \in Blocks(0)} /\ p = [b \in Blocks(0) |-> p[b]]
        BY <1>2, <1>5, <1>6
    <2> HIDE DEF P
    <2> QED
        BY <2>1, Image
<1>8. IsFiniteSet(D) /\ Cardinality(D) <= Cardinality(Blocks(1))
    <2>1. IsFiniteSet(Blocks(1)) /\ D = {d[b] : b \in Blocks(1)} /\ d = [b \in Blocks(1) |-> d[b]]
        BY <1>2, <1>5, <1>6
    <2> HIDE DEF D
    <2> QED
        BY <2>1, Image
<1>9. IsFiniteSet(T) /\ Cardinality(T) <= Cardinality(Blocks(2))
    <2>1. IsFiniteSet(Blocks(2)) /\ T = {t[b] : b \in Blocks(2)} /\ t = [b \in Blocks(2) |-> t[b]]
        BY <1>2, <1>5, <1>6
    <2> HIDE DEF T
    <2> QED
        BY <2>1, Image
<1>10. OnTheWay = (({pml4} \cup P) \cup D) \cup T
    BY DEF OnTheWay
<1>11. IsFiniteSet({pml4}) /\ Cardinality({pml4}) = 1
    BY FS_Singleton
<1>12. Cardinality(Blocks(0)) \in Nat /\ Cardinality(Blocks(1)) \in Nat /\ Cardinality(Blocks(2)) \in Nat
    BY <1>2, FS_CardinalityType
<1> HIDE DEF P, D, T
<1>13. /\ IsFiniteSet({pml4} \cup P) /\ Cardinality({pml4} \cup P) <= 1 + Cardinality(P)
       /\ Cardinality(P) \in Nat /\ Cardinality({pml4} \cup P) \in Nat
    BY <1>7, <1>11, SmallUnion
<1>14. /\ IsFiniteSet(({pml4} \cup P) \cup D)
       /\ Cardinality(({pml4} \cup P) \cup D) <= Cardinality({pml4} \cup P) + Cardinality(D)
       /\ Cardinality(D) \in Nat /\ Cardinality(({pml4} \cup P) \cup D) \in Nat
    BY <1>8, <1>13, SmallUnion
<1>15. /\ IsFiniteSet((({pml4} \cup P) \cup D) \cup T)
       /\ Cardinality((({pml4} \cup P) \cup D) \cup T) <= Cardinality(({pml4} \cup P) \cup D) + Cardinality(T)
       /\ Cardinality(T) \in Nat /\ Cardinality((({pml4} \cup P) \cup D) \cup T) \in Nat
    BY <1>9, <1>14, SmallUnion
<1> QED
    BY <1>7, <1>8, <1>9, <1>10, <1>12, <1>13, <1>14, <1>15

\* They lie in the pages that init_paging maps to themselves: a table behind them
\* would have been taken after all the frames there are in them.
LEMMA TablesLow ==
    ASSUME PagingInv, loads = 0, halted = "no"
    PROVE  TableFrames \subseteq Identity
<1> SUFFICES ASSUME NEW f \in TableFrames, f \notin Identity PROVE FALSE
    OBVIOUS
<1> DEFINE Low == MemFrames \cap Identity
<1>1. Booting /\ TableFrames \subseteq OnTheWay /\ TableFrames \subseteq MemFrames
    BY Reads DEF PagingInv, Booting, TablesOwned, Tree
<1>2. f \in Nat /\ IdentityPages \in Nat /\ f >= IdentityPages
    BY <1>1, PagingSizes DEF Identity
<1>3. \A g \in Low : g \in Nat /\ g < f
    BY <1>2 DEF Identity
<1>4. Low \subseteq TableFrames
    <2> SUFFICES ASSUME NEW g \in Low PROVE g \in TableFrames
        OBVIOUS
    <2>1. g \in free => f < g
        BY <1>1, <1>2 DEF Booting, PagingInv
    <2>2. g \notin free
        BY <1>2, <1>3, <2>1
    <2> QED
        BY <1>1, <1>2, <2>2 DEF Booting, PagingInv
<1>5. f \notin Low /\ Low \cup {f} \subseteq OnTheWay
    BY <1>1, <1>4
<1>6. IsFiniteSet(Low)
    BY PagingSizes, FS_Subset, FS_Intersection
<1>7. /\ IsFiniteSet(OnTheWay) /\ Cardinality(OnTheWay) \in Nat
      /\ Cardinality(Blocks(0)) \in Nat /\ Cardinality(Blocks(1)) \in Nat /\ Cardinality(Blocks(2)) \in Nat
      /\ Cardinality(OnTheWay) <= 1 + Cardinality(Blocks(0)) + Cardinality(Blocks(1)) + Cardinality(Blocks(2))
    BY FewOnTheWay
<1>8. 1 + Cardinality(Blocks(0)) + Cardinality(Blocks(1)) + Cardinality(Blocks(2)) <= Cardinality(Low)
    BY LowFrames
<1> HIDE DEF Low
<1>9. Cardinality(Low \cup {f}) = Cardinality(Low) + 1 /\ IsFiniteSet(Low \cup {f})
    BY <1>5, <1>6, FS_AddElement
<1>10. Cardinality(Low \cup {f}) <= Cardinality(OnTheWay)
    BY <1>5, <1>7, FS_Subset
<1>11. Cardinality(Low) \in Nat
    BY <1>6, FS_CardinalityType
<1> QED
    BY <1>7, <1>8, <1>9, <1>10, <1>11

\* So no table is out of reach.
LEMMA TableInReach ==
    ASSUME PagingInv, halted = "no", NEW f \in TableFrames
    PROVE  Accessible(f) /\ \A t \in MemFrames : t < IdentityPages => Accessible(t)
<1>1. Identity \subseteq Pages /\ IdentityPages \in Nat /\ BootPages \in Nat /\ IdentityPages <= BootPages
      /\ MemFrames \subseteq Nat
    BY Addresses, PagingSizes
<1>2. \A t \in MemFrames : t < IdentityPages => t \in Identity
    BY <1>1 DEF Identity
<1>3. CASE loads = 0
    <2>1. f \in Identity
        BY <1>3, TablesLow
    <2>2. f \in Nat /\ f < IdentityPages
        BY <1>1, <2>1 DEF Identity
    <2> QED
        BY <1>1, <1>3, <2>2 DEF Accessible
<1>4. CASE loads # 0
    <2>1. loads > 0
        BY <1>4 DEF PagingInv, Typed, TypeOK
    <2> QED
        BY <1>2, <1>4, <2>1 DEF Accessible, PagingInv, InUse
<1> QED
    BY <1>3, <1>4

LEMMA PageFaultStep == PagingInv /\ PageFault => PagingInv'
<1> SUFFICES ASSUME PagingInv, PageFault PROVE PagingInv'
    OBVIOUS
<1> DEFINE t == Min(free)
<1>1. /\ op # Idle /\ halted = "no" /\ op' = Idle /\ halted' \in {"fault", "no"}
      /\ (loads # 2 => halted' = "fault")
      /\ UNCHANGED <<mem, pml4, loads, todo, heap_end, stacks, tlb>>
    BY DEF PageFault, Mapping, callers
<1>2. Accessible(op.table)
    BY <1>1, EntryOnWay, TableInReach
<1>3. free # {} /\ ~Accessible(t) /\ free' = free \ {t}
    BY <1>2 DEF PageFault, Without
<1>4. t \in free /\ t \in MemFrames
    BY <1>3, Facts
<1>5. t >= IdentityPages
    <2>1. t \in Nat /\ IdentityPages \in Nat
        BY <1>4, Facts, PagingSizes
    <2>2. ~(t < IdentityPages)
        BY <1>1, <1>2, <1>3, <1>4, EntryOnWay, TableInReach
    <2> QED
        BY <2>1, <2>2
<1> HIDE DEF t
<1>6. Typed' /\ TablesOwned' /\ HeapOwned' /\ OpFits' /\ Mapped' /\ InUse' /\ TlbCoherent'
    <2>1. Typed'
        BY <1>1, <1>3 DEF PagingInv, Typed, TypeOK
    <2>2. TablesOwned'
        BY <1>1, <1>3, TablesStay DEF PagingInv, TablesOwned
    <2>3. HeapOwned'
        BY <1>1, <1>3, TablesStay DEF PagingInv, HeapOwned
    <2>4. OpFits'
        BY <1>1 DEF OpFits
    <2>5. Mapped' /\ InUse' /\ TlbCoherent'
        BY <1>1, TablesStay DEF PagingInv, Mapped, InUse, TlbCoherent
    <2> QED
        BY <2>1, <2>2, <2>3, <2>4, <2>5
<1>7. Booting'
    BY <1>1 DEF Booting
<1>8. FaultOfFrame'
    BY <1>3, <1>4, <1>5 DEF FaultOfFrame
<1> QED
    BY <1>6, <1>7, <1>8 DEF PagingInv

LEMMA OutOfFramesStep == PagingInv /\ OutOfFrames => PagingInv'
<1> SUFFICES ASSUME PagingInv, OutOfFrames PROVE PagingInv'
    OBVIOUS
<1>1. /\ op' = Idle /\ halted' = "frames"
      /\ UNCHANGED <<mem, free, pml4, loads, todo, heap_end, stacks, tlb>>
    BY DEF OutOfFrames, callers
<1>2. Typed' /\ TablesOwned' /\ OpFits'
    BY <1>1, TablesStay DEF PagingInv, Typed, TypeOK, TablesOwned, OpFits
<1>3. HeapOwned' /\ Mapped' /\ InUse' /\ TlbCoherent'
    BY <1>1, TablesStay DEF PagingInv, HeapOwned, Mapped, InUse, TlbCoherent
<1>4. Booting' /\ FaultOfFrame'
    BY <1>1 DEF Booting, FaultOfFrame
<1> QED
    BY <1>2, <1>3, <1>4 DEF PagingInv

-----------------------------------------------------------------------------
(* The steps of the callers.                                                 *)

LEMMA Begun ==
    ASSUME NEW v \in Pages, NEW f \in Nat, pml4 \in MemFrames, Begin(v, f)
    PROVE  /\ op' \in Walks /\ op' # Idle
           /\ op'.level = 0 /\ op'.page = v /\ op'.frame = f /\ op'.table = pml4
           /\ pml4' = pml4 => op'.table = Way(mem', pml4', op'.page, op'.level)
<1>1. /\ op' \in Walks /\ op'.level = 0 /\ op'.page = v /\ op'.frame = f /\ op'.table = pml4
    BY DEF Begin, Walks
<1>2. op' # Idle
    <2>1. Idle.level = 4
        BY DEF Idle
    <2> QED
        BY <1>1, <2>1
<1> QED
    BY <1>1, <1>2 DEF Way

LEMMA MapIdentityStep == PagingInv /\ MapIdentity => PagingInv'
<1> SUFFICES ASSUME PagingInv, MapIdentity PROVE PagingInv'
    OBVIOUS
<1> DEFINE v == Min(todo)
<1>1. /\ op = Idle /\ halted = "no" /\ todo # {} /\ Begin(v, v) /\ todo' = todo \ {v}
      /\ UNCHANGED <<mem, free, pml4, loads, heap_end, stacks, tlb, halted>>
    BY DEF MapIdentity, Quiet
<1>2. v \in todo /\ v \in Identity \cup Reserved /\ v \in Pages /\ v \in Nat /\ v \notin HeapArea
    <2>1. todo \subseteq Nat /\ todo \subseteq Identity \cup Reserved
        BY DEF PagingInv, Typed, TypeOK
    <2>2. v \in todo
        BY <1>1, <2>1, LeastNumber
    <2> QED
        BY <2>1, <2>2, Addresses
<1>3. /\ op' \in Walks /\ op' # Idle /\ op'.page = v /\ op'.frame = v
      /\ op'.table = Way(mem', pml4', op'.page, op'.level)
    BY <1>1, <1>2, Facts, Begun
<1> HIDE DEF v
<1>4. Typed' /\ TablesOwned'
    BY <1>1, <1>3, TablesStay DEF PagingInv, Typed, TypeOK, TablesOwned, Walks
<1>5. OpFits'
    BY <1>2, <1>3 DEF OpFits
<1>6. HeapOwned' /\ Mapped' /\ FaultOfFrame' /\ TlbCoherent'
    BY <1>1, TablesStay DEF PagingInv, HeapOwned, Mapped, FaultOfFrame, TlbCoherent
<1>7. InUse'
    BY <1>1, TablesStay DEF PagingInv, InUse
<1>8. Booting'
    BY <1>1, <1>2, <1>3, TablesStay DEF PagingInv, Booting
<1> QED
    BY <1>4, <1>5, <1>6, <1>7, <1>8 DEF PagingInv

\* The new tables are in use: every table is one of the pages they map to themselves.
LEMMA LoadCr3Step == PagingInv /\ LoadCr3 => PagingInv'
<1> SUFFICES ASSUME PagingInv, LoadCr3 PROVE PagingInv'
    OBVIOUS
<1>1. /\ op = Idle /\ halted = "no" /\ todo = {} /\ loads < 2 /\ loads' = loads + 1
      /\ todo' = (IF loads = 0 THEN Reserved ELSE {})
      /\ tlb' = Flushed
      /\ UNCHANGED <<mem, free, pml4, heap_end, stacks, op, halted>>
    BY DEF LoadCr3, Quiet
<1>2. loads \in 0 .. 1 /\ loads' \in 0 .. 2 /\ loads' > 0
    BY <1>1 DEF PagingInv, Typed, TypeOK
<1>3. Typed'
    <2>1. todo' \in {Reserved, {}} /\ Reserved \subseteq Nat
        BY <1>1, PagingSizes
    <2>2. tlb' \in [Watched -> Words]
        BY <1>1 DEF Flushed, Words
    <2> QED
        BY <1>1, <1>2, <2>1, <2>2 DEF PagingInv, Typed, TypeOK
<1>4. TablesOwned'
    BY <1>1, TablesStay DEF PagingInv, TablesOwned
<1>5. HeapOwned'
    BY <1>1, TablesStay DEF PagingInv, HeapOwned
<1>6. OpFits' /\ Booting' /\ FaultOfFrame'
    BY <1>1, <1>2 DEF OpFits, Booting, FaultOfFrame
<1>7. Mapped' /\ TlbCoherent'
    BY <1>1, TablesStay DEF PagingInv, Mapped, TlbCoherent, Flushed
<1>8. InUse'
    <2>1. CASE loads = 0
        <3>1. \A v \in Identity : Translate(v) = v
            BY <1>1, <2>1 DEF PagingInv, Booting
        <3>2. TableFrames \subseteq Identity
            BY <1>1, <2>1, TablesLow
        <3> QED
            BY <1>1, <2>1, <3>1, <3>2, TablesStay DEF InUse
    <2>2. CASE loads # 0
        <3>1. loads > 0 /\ todo' = {}
            BY <1>1, <1>2, <2>2
        <3> QED
            BY <1>1, <3>1, TablesStay DEF PagingInv, InUse
    <2> QED
        BY <2>1, <2>2
<1> QED
    BY <1>3, <1>4, <1>5, <1>6, <1>7, <1>8 DEF PagingInv

LEMMA MapHeapPageStep == PagingInv /\ MapHeapPage => PagingInv'
<1> SUFFICES ASSUME PagingInv, MapHeapPage PROVE PagingInv'
    OBVIOUS
<1> DEFINE f == Min(free)
<1>1. /\ op = Idle /\ loads = 2 /\ free # {} /\ heap_end < HeapStart + HeapPages
      /\ Begin(heap_end, f) /\ free' = free \ {f}
      /\ UNCHANGED <<mem, pml4, loads, todo, heap_end, stacks, tlb, halted>>
    BY DEF MapHeapPage, Quiet, Without, callers
<1>2. f \in free /\ f \in MemFrames /\ f \in Nat
    BY <1>1, Facts
<1>3. heap_end \in HeapArea /\ heap_end \in Pages /\ heap_end \in Nat
    <2>1. HeapStart \in Nat /\ HeapPages \in Nat /\ heap_end \in HeapStart .. (HeapStart + HeapPages)
        BY PagingSizes DEF PagingInv, Typed, TypeOK
    <2>2. heap_end \in HeapArea
        BY <1>1, <2>1 DEF HeapArea
    <2>3. heap_end \in Pages
        BY <2>2, Addresses
    <2> QED
        BY <1>1, <2>1, <2>2, <2>3
<1>4. Translate(heap_end) = None /\ None \notin TableFrames \cup free
    <2>1. TableFrames \subseteq MemFrames /\ None \notin MemFrames
        BY PagingSizes, Reads DEF PagingInv, TablesOwned, Tree
    <2>2. Translate(heap_end) = None
        BY <1>3 DEF PagingInv, Mapped
    <2> QED
        BY <2>1, <2>2, Facts
<1>5. /\ op' \in Walks /\ op' # Idle /\ op'.page = heap_end /\ op'.frame = f
      /\ op'.table = Way(mem', pml4', op'.page, op'.level)
    BY <1>1, <1>2, <1>3, Facts, Begun
<1> HIDE DEF f
<1>6. Typed' /\ TablesOwned'
    BY <1>1, <1>3, <1>5, TablesStay DEF PagingInv, Typed, TypeOK, TablesOwned, Walks
<1>7. HeapOwned'
    BY <1>1, TablesStay DEF PagingInv, HeapOwned
<1>8. OpFits'
    <2>1. f \notin TableFrames' \cup free'
        BY <1>1, <1>2, TablesStay DEF PagingInv, TablesOwned
    <2> QED
        BY <1>1, <1>3, <1>4, <1>5, <2>1, TablesStay DEF OpFits
<1>9. Mapped'
    BY <1>1, TablesStay DEF PagingInv, Mapped
<1>10. InUse' /\ TlbCoherent' /\ FaultOfFrame'
    BY <1>1, TablesStay DEF PagingInv, InUse, TlbCoherent, FaultOfFrame
<1>11. Booting'
    BY <1>1 DEF Booting
<1> QED
    BY <1>6, <1>7, <1>8, <1>9, <1>10, <1>11 DEF PagingInv

LEMMA MapStackStep == PagingInv /\ MapStack => PagingInv'
<1> SUFFICES ASSUME PagingInv, MapStack PROVE PagingInv'
    OBVIOUS
<1> DEFINE f == Min(free)
<1>1. /\ op = Idle /\ loads = 2 /\ free # {} /\ stacks < StackPages
      /\ Begin(f, f) /\ free' = free \ {f} /\ stacks' = stacks + 1
      /\ UNCHANGED <<mem, pml4, loads, todo, heap_end, tlb, halted>>
    BY DEF MapStack, Quiet, Without
<1>2. f \in free /\ f \in MemFrames /\ f \in Nat /\ f \in Pages /\ f \notin HeapArea
    BY <1>1, Facts, Addresses
<1>3. /\ op' \in Walks /\ op' # Idle /\ op'.page = f /\ op'.frame = f
      /\ op'.table = Way(mem', pml4', op'.page, op'.level)
    BY <1>1, <1>2, Facts, Begun
<1> HIDE DEF f
<1>4. stacks' \in 0 .. StackPages
    BY <1>1, PagingSizes DEF PagingInv, Typed, TypeOK
<1>5. Typed' /\ TablesOwned'
    BY <1>1, <1>3, <1>4, TablesStay DEF PagingInv, Typed, TypeOK, TablesOwned, Walks
<1>6. OpFits'
    BY <1>2, <1>3 DEF OpFits
<1>7. HeapOwned' /\ Mapped' /\ InUse' /\ TlbCoherent' /\ FaultOfFrame'
    BY <1>1, TablesStay DEF PagingInv, HeapOwned, Mapped, InUse, TlbCoherent, FaultOfFrame
<1>8. Booting'
    BY <1>1 DEF Booting
<1> QED
    BY <1>5, <1>6, <1>7, <1>8 DEF PagingInv

LEMMA MapSdtStep == ASSUME PagingInv, NEW s \in AcpiFrames, MapSdt(s) PROVE PagingInv'
<1>1. /\ op = Idle /\ loads = 2 /\ Begin(s, s)
      /\ UNCHANGED <<mem, free, pml4, loads, todo, heap_end, stacks, tlb, halted>>
    BY DEF MapSdt, Quiet, callers
<1>2. s \in Pages /\ s \in Nat /\ s \notin HeapArea
    BY Addresses, PagingSizes
<1>3. /\ op' \in Walks /\ op' # Idle /\ op'.page = s /\ op'.frame = s
      /\ op'.table = Way(mem', pml4', op'.page, op'.level)
    BY <1>1, <1>2, Facts, Begun
<1>4. Typed' /\ TablesOwned'
    BY <1>1, <1>3, TablesStay DEF PagingInv, Typed, TypeOK, TablesOwned, Walks
<1>5. OpFits'
    BY <1>2, <1>3 DEF OpFits
<1>6. HeapOwned' /\ Mapped' /\ InUse' /\ TlbCoherent' /\ FaultOfFrame'
    BY <1>1, TablesStay DEF PagingInv, HeapOwned, Mapped, InUse, TlbCoherent, FaultOfFrame
<1>7. Booting'
    BY <1>1 DEF Booting
<1> QED
    BY <1>4, <1>5, <1>6, <1>7 DEF PagingInv

\* A step that changes no more than what the processor caches, and caches what is so.
LEMMA CachedStep ==
    ASSUME PagingInv, UNCHANGED <<mem, free, pml4, loads, todo, heap_end, stacks, op, halted>>,
           tlb' \in [Watched -> Words],
           \A v \in Watched : tlb'[v] \in {None, tlb[v], Translate(v)}
    PROVE  PagingInv'
<1>1. Typed' /\ TablesOwned' /\ OpFits'
    BY TablesStay DEF PagingInv, Typed, TypeOK, TablesOwned, OpFits
<1>2. HeapOwned' /\ Mapped' /\ InUse' /\ FaultOfFrame'
    BY TablesStay DEF PagingInv, HeapOwned, Mapped, InUse, FaultOfFrame
<1>3. TlbCoherent'
    BY TablesStay DEF PagingInv, TlbCoherent
<1>4. Booting'
    BY TablesStay DEF PagingInv, Booting
<1> QED
    BY <1>1, <1>2, <1>3, <1>4 DEF PagingInv

LEMMA UnmapStep == ASSUME PagingInv, NEW v \in UnmapPages, Unmap(v) PROVE PagingInv'
<1>1. /\ UNCHANGED <<mem, free, pml4, loads, todo, heap_end, stacks, op, halted>>
      /\ tlb' \in {tlb, Flushed}
    BY DEF Unmap, callers
<1>2. tlb \in [Watched -> Words] /\ Flushed \in [Watched -> Words]
    BY DEF PagingInv, Typed, TypeOK, Flushed, Words
<1>3. \A w \in Watched : tlb'[w] \in {None, tlb[w], Translate(w)}
    BY <1>1 DEF Flushed
<1> QED
    BY <1>1, <1>2, <1>3, CachedStep

LEMMA CacheStep == ASSUME PagingInv, NEW v \in Watched, Cache(v) PROVE PagingInv'
<1>1. /\ UNCHANGED <<mem, free, pml4, loads, todo, heap_end, stacks, op, halted>>
      /\ tlb' = [tlb EXCEPT ![v] = Translate(v)] /\ Translate(v) # None
    BY DEF Cache, callers
<1>2. Translate(v) \in Words
    <2>1. v \in Pages /\ Index(v, 3) \in Entries
        BY Addresses, IndexIn
    <2>2. W3(mem, pml4, v) \in MemFrames \cup {None}
        BY <2>1, WalkIn, Facts DEF PagingInv, TablesOwned, Tree, Tables
    <2>3. W4(mem, pml4, v) \in Words
        BY <2>1, <2>2, Facts DEF W4, Step, Words, Memories
    <2> QED
        BY <2>3, Reads
<1>3. tlb \in [Watched -> Words]
    BY DEF PagingInv, Typed, TypeOK
<1>4. tlb' \in [Watched -> Words] /\ \A w \in Watched : tlb'[w] \in {None, tlb[w], Translate(w)}
    BY <1>1, <1>2, <1>3
<1> QED
    BY <1>1, <1>4, CachedStep

LEMMA InitHolds == Init => PagingInv /\ \A v \in Pages : Translate(v) = None
<1> SUFFICES ASSUME Init PROVE PagingInv /\ \A v \in Pages : Translate(v) = None
    OBVIOUS
<1>1. MemFrames # {}
    <2>1. MemFrames \cap Identity # {}
        <3> SUFFICES ASSUME MemFrames \cap Identity = {} PROVE FALSE
            OBVIOUS
        <3>1. Cardinality(MemFrames \cap Identity) = 0
            BY FS_EmptySet
        <3>2. Cardinality(Blocks(0)) \in Nat /\ Cardinality(Blocks(1)) \in Nat /\ Cardinality(Blocks(2)) \in Nat
            BY FewOnTheWay
        <3>3. 1 + Cardinality(Blocks(0)) + Cardinality(Blocks(1)) + Cardinality(Blocks(2)) <= 0
            BY <3>1, LowFrames
        <3> QED
            BY <3>2, <3>3
    <2> QED
        BY <2>1
<1>2. pml4 = Min(MemFrames) /\ MemFrames \subseteq Nat
    BY PagingSizes DEF Init
<1>3. pml4 \in MemFrames /\ \A f \in MemFrames : pml4 <= f
    BY <1>1, <1>2, LeastNumber
<1>4. /\ pml4 \in MemFrames /\ pml4 \in Nat /\ pml4 # 0 /\ pml4 # None
      /\ free = MemFrames \ {pml4} /\ None \notin Nat
    BY <1>3, PagingSizes DEF Init
<1>5. mem \in Memories /\ \A i \in Entries : mem[pml4][i] = None
    <2>1. Dirt \in [Entries -> Words] /\ Zeroed \in [Entries -> Words]
        BY DEF Dirt, Zeroed, Entries, Words
    <2>2. mem = [f \in MemFrames \cup {0} |-> IF f = pml4 THEN Zeroed ELSE Dirt]
        BY DEF Init
    <2>3. mem \in Memories /\ mem[pml4] = Zeroed
        BY <1>4, <2>1, <2>2 DEF Memories
    <2> QED
        BY <2>3 DEF Zeroed, Entries
<1>6. L1(mem, pml4) = {} /\ L2(mem, pml4) = {} /\ L3(mem, pml4) = {}
    <2>1. L1(mem, pml4) = {}
        BY <1>5, LinksIn DEF L1
    <2>2. L2(mem, pml4) = {}
        BY <2>1, LinksIn DEF L2
    <2> QED
        BY <2>1, <2>2, LinksIn DEF L3
<1>7. TableFrames = {pml4} /\ Tree(mem, pml4)
    BY <1>4, <1>5, <1>6, Reads DEF Tree, Tables, Apart, LinkedOnce
<1>8. \A v \in Pages : Translate(v) = None
    <2> SUFFICES ASSUME NEW v \in Pages PROVE Translate(v) = None
        OBVIOUS
    <2>1. W3(mem, pml4, v) = None
        BY <1>4, <1>6, WalkIn
    <2> QED
        BY <2>1, Reads DEF W4, Step
<1>9. op = Idle /\ loads = 0 /\ todo = Identity /\ heap_end = HeapStart /\ halted = "no" /\ stacks = 0
      /\ tlb = Flushed
    BY DEF Init
<1>10. Typed
    <2>1. /\ heap_end \in HeapStart .. (HeapStart + HeapPages) /\ stacks \in 0 .. StackPages
          /\ todo \subseteq Nat /\ loads \in 0 .. 2
        BY <1>9, PagingSizes DEF Identity
    <2>2. tlb \in [Watched -> Words]
        BY <1>9 DEF Flushed, Words
    <2> QED
        BY <1>4, <1>5, <1>9, <2>1, <2>2 DEF Typed, TypeOK, Memories, Entries
<1>11. TablesOwned /\ OpFits /\ FaultOfFrame /\ TlbCoherent /\ InUse
    BY <1>4, <1>7, <1>9 DEF TablesOwned, OpFits, FaultOfFrame, TlbCoherent, Flushed, InUse
<1>12. HeapOwned
    <2>1. HeapStart .. (heap_end - 1) = {}
        BY <1>9, PagingSizes
    <2> QED
        BY <2>1 DEF HeapOwned
<1>13. Mapped
    BY <1>8 DEF Mapped
<1>14. Booting
    <2>1. \A g \in free : pml4 < g
        <3>1. \A g \in free : g \in MemFrames /\ g # pml4 /\ g \in Nat
            BY <1>4, PagingSizes
        <3> QED
            BY <1>3, <1>4, <3>1
    <2>2. MemFrames \subseteq free \cup TableFrames
        BY <1>4, <1>7
    <2>3. pml4 \in OnTheWay
        BY DEF OnTheWay
    <2> QED
        BY <1>7, <1>9, <2>1, <2>2, <2>3 DEF Booting
<1> QED
    BY <1>8, <1>10, <1>11, <1>12, <1>13, <1>14 DEF PagingInv

\* Every step keeps the invariant.
LEMMA Inductive == PagingInv /\ [Next]_vars => PagingInv'
<1> SUFFICES ASSUME PagingInv, [Next]_vars PROVE PagingInv'
    OBVIOUS
<1>1. CASE Descend \/ NewTable \/ SetLeaf \/ PageFault \/ OutOfFrames
    BY <1>1, DescendStep, NewTableStep, SetLeafStep, PageFaultStep, OutOfFramesStep
<1>2. CASE MapIdentity \/ LoadCr3 \/ MapHeapPage \/ MapStack
    BY <1>2, MapIdentityStep, LoadCr3Step, MapHeapPageStep, MapStackStep
<1>3. CASE \E s \in AcpiFrames : MapSdt(s)
    BY <1>3, MapSdtStep
<1>4. CASE \E v \in UnmapPages : Unmap(v)
    BY <1>4, UnmapStep
<1>5. CASE \E v \in Watched : Cache(v)
    BY <1>5, CacheStep
<1>6. CASE UNCHANGED vars
    <2>1. /\ UNCHANGED <<mem, free, pml4, loads, todo, heap_end, stacks, op, halted>> /\ tlb' = tlb
          /\ tlb \in [Watched -> Words]
        BY <1>6 DEF vars, callers, PagingInv, Typed, TypeOK
    <2> QED
        BY <2>1, CachedStep
<1> QED
    BY <1>1, <1>2, <1>3, <1>4, <1>5, <1>6 DEF Next

LEMMA PagingAlways == Spec => []PagingInv
<1>1. Init => PagingInv
    BY InitHolds
<1>2. PagingInv /\ [Next]_vars => PagingInv'
    BY Inductive
<1> QED
    BY <1>1, <1>2, PTL DEF Spec

\* The tables form a tree: none hangs in two places, none is a frame that
\* request_page can still give away, and none is what a heap page maps to.
THEOREM TablesFormATree == Spec => []TreeOK
<1>1. PagingInv => TreeOK
    <2> SUFFICES ASSUME PagingInv PROVE TreeOK
        OBVIOUS
    <2>1. TypeOK /\ Tree(mem, pml4) /\ TableFrames \cap free = {} /\ HeapOwned
        BY DEF PagingInv, Typed, TablesOwned
    <2>2. TableFrames \subseteq MemFrames \ free
        BY <2>1, Reads DEF Tree
    <2>3. \A k, l \in 1 .. 4 : k # l => Levels[k] \cap Levels[l] = {}
        <3>1. Apart(mem, pml4)
            BY <2>1 DEF Tree
        <3>2. \A k \in 1 .. 4 : Levels[k] = IF k = 1 THEN {pml4} ELSE IF k = 2 THEN L1(mem, pml4)
                                            ELSE IF k = 3 THEN L2(mem, pml4) ELSE L3(mem, pml4)
            BY Reads DEF Levels
        <3>3. SUFFICES ASSUME NEW k \in 1 .. 4, NEW l \in 1 .. 4, k < l PROVE Levels[k] \cap Levels[l] = {}
            <4>1. \A k, l \in 1 .. 4 : k < l => Levels[k] \cap Levels[l] = {}
                BY <3>3
            <4> QED
                BY <4>1
        <3>4. CASE k = 1
            BY <3>1, <3>2, <3>3, <3>4 DEF Apart
        <3>5. CASE k = 2
            BY <3>1, <3>2, <3>3, <3>5 DEF Apart
        <3>6. CASE k = 3
            BY <3>1, <3>2, <3>3, <3>6 DEF Apart
        <3> QED
            BY <3>3, <3>4, <3>5, <3>6
    <2>4. LinkedOnce(mem, pml4)
        BY <2>1 DEF Tree
    <2> QED
        BY <2>1, <2>2, <2>3, <2>4, Reads DEF TreeOK, LinkedOnce, HeapOwned, Entries
<1> QED
    BY <1>1, PagingAlways, PTL

\* Once the processor uses the tables every one of them can be written at its own
\* address, and map faults only for a frame behind the pages that init_paging maps.
THEOREM TablesStayInReach == Spec => []TablesAccessible
<1>1. PagingInv => TablesAccessible
    BY DEF PagingInv, InUse, FaultOfFrame, TablesAccessible
<1> QED
    BY <1>1, PagingAlways, PTL

\* map need not flush what the processor has cached: no page it could have
\* translated is ever mapped to another frame.
THEOREM CachedIsMapped == Spec => []TlbCoherent
<1>1. PagingInv => TlbCoherent
    BY DEF PagingInv
<1> QED
    BY <1>1, PagingAlways, PTL

-----------------------------------------------------------------------------
(* The address space that the tables implement.                              *)

LEMMA Requested ==
    ASSUME PagingInv, PagingInv'
    PROVE  /\ (IF op = Idle THEN <<>> ELSE <<op.page, op.frame>>) = <<>> <=> op = Idle
           /\ (IF op' = Idle THEN <<>> ELSE <<op'.page, op'.frame>>) = <<>> <=> op' = Idle
           /\ op' # Idle => op'.page \in Pages /\ op'.frame \in Nat
<1>1. \A a, b : <<a, b>> # <<>>
    OBVIOUS
<1>2. op' # Idle => op' \in Walks
    BY DEF PagingInv, Typed, TypeOK, Walks
<1> QED
    BY <1>1, <1>2 DEF Walks

\* A caller asks for a page, map answers in its last step or gives up, and all
\* other steps leave the address space and the request alone.
LEMMA Simulates == PagingInv /\ PagingInv' /\ [Next]_vars => [Space!SpaceNext]_(Space!spaceVars)
<1> SUFFICES ASSUME PagingInv, PagingInv', [Next]_vars PROVE [Space!SpaceNext]_(Space!spaceVars)
    OBVIOUS
<1> DEFINE m == [v \in Pages |-> Translate(v)]
           q == IF op = Idle THEN <<>> ELSE <<op.page, op.frame>>
           n == [v \in Pages |-> Translate(v)']
           p == IF op' = Idle THEN <<>> ELSE <<op'.page, op'.frame>>
<1>1. /\ op = Idle <=> q = <<>>
      /\ op' = Idle <=> p = <<>>
      /\ op # Idle => q = <<op.page, op.frame>>
      /\ op' # Idle => p = <<op'.page, op'.frame>> /\ op'.page \in Pages /\ op'.frame \in Nat
    BY Requested
<1>2. UNCHANGED <<mem, pml4>> => n = m
    BY TablesStay
<1>3. ASSUME op = Idle, op' # Idle, UNCHANGED <<mem, pml4>> PROVE Space!Ask
    <2>1. q = <<>> /\ p # <<>> /\ p[1] \in Pages /\ p[2] \in Nat /\ n = m
        BY <1>1, <1>2, <1>3
    <2> QED
        BY <2>1 DEF Space!Ask
<1>4. ASSUME op # Idle, op' = Idle, UNCHANGED <<mem, pml4>> PROVE Space!GiveUp
    <2>1. q # <<>> /\ p = <<>> /\ n = m
        BY <1>1, <1>2, <1>4
    <2> QED
        BY <2>1 DEF Space!GiveUp
<1>5. ASSUME n = m, p = q PROVE UNCHANGED Space!spaceVars
    BY <1>5 DEF Space!spaceVars
<1>6. ASSUME SetLeaf PROVE Space!Answer
    <2>1. /\ op # Idle /\ op \in Walks
          /\ \A v \in Pages : Translate(v)' = IF v = op.page THEN op.frame ELSE Translate(v)
        BY <1>6, SetLeafChanges
    <2>2. op' = Idle
        BY <1>6 DEF SetLeaf
    <2>3. n = [m EXCEPT ![op.page] = op.frame]
        BY <2>1 DEF Walks
    <2>4. q # <<>> /\ p = <<>> /\ q[1] = op.page /\ q[2] = op.frame
        BY <1>1, <2>1, <2>2
    <2> QED
        BY <2>3, <2>4 DEF Space!Answer
<1>7. ASSUME NewTable PROVE n = m /\ p = q
    <2>1. /\ op # Idle /\ Grows(mem, mem', pml4, Min(free)) /\ pml4' = pml4
          /\ op' # Idle /\ op'.page = op.page /\ op'.frame = op.frame
        BY <1>7, NewTableGrows DEF NewTable
    <2>2. \A v \in Pages : Translate(v)' = Translate(v)
        BY <2>1, Reads, ReadsNext DEF Grows
    <2> QED
        BY <1>1, <2>1, <2>2
<1>8. ASSUME Descend PROVE n = m /\ p = q
    <2>1. /\ op # Idle /\ op.level < Leaf /\ op' = [op EXCEPT !.level = @ + 1, !.table = Entry]
          /\ UNCHANGED <<mem, pml4>>
        BY <1>8 DEF Descend, Mapping
    <2>2. op \in Walks /\ Entry \in MemFrames
        <3>1. op \in Walks /\ op.level \in 0 .. 2 /\ op.page \in Pages
            BY <2>1, Facts DEF Leaf
        <3>2. Entry = Way(mem, pml4, op.page, op.level + 1) /\ Entry # None
            BY <1>8, <2>1, EntryOnWay DEF Descend
        <3> QED
            BY <3>1, <3>2, WalkIn, Facts DEF PagingInv, TablesOwned, Tree, Tables, Way
    <2>3. op' # Idle /\ op'.page = op.page /\ op'.frame = op.frame
        BY <2>1, <2>2, WalksOn
    <2> QED
        BY <1>1, <1>2, <2>1, <2>3
<1>9. ASSUME PageFault PROVE Space!GiveUp
    <2>1. op # Idle /\ op' = Idle /\ UNCHANGED <<mem, pml4>>
        BY <1>9 DEF PageFault, Mapping
    <2> QED
        BY <1>4, <2>1
<1>10. ASSUME OutOfFrames PROVE Space!GiveUp \/ (n = m /\ p = q)
    <2>1. op' = Idle /\ UNCHANGED <<mem, pml4>>
        BY <1>10 DEF OutOfFrames
    <2> QED
        BY <1>1, <1>2, <1>4, <2>1
<1>11. ASSUME MapIdentity \/ MapHeapPage \/ MapStack \/ \E s \in AcpiFrames : MapSdt(s) PROVE Space!Ask
    <2>1. op = Idle /\ UNCHANGED <<mem, pml4>> /\ \E v, f : Begin(v, f)
        BY <1>11 DEF MapIdentity, MapHeapPage, MapStack, MapSdt, Quiet
    <2>2. op'.level = 0 /\ Idle.level = 4
        BY <2>1 DEF Begin, Idle
    <2>3. op' # Idle
        BY <2>2
    <2> QED
        BY <1>3, <2>1, <2>3
<1>12. ASSUME LoadCr3 \/ (\E v \in UnmapPages : Unmap(v)) \/ (\E v \in Watched : Cache(v)) \/ UNCHANGED vars
       PROVE  n = m /\ p = q
    <2>1. UNCHANGED <<mem, pml4, op>>
        BY <1>12 DEF LoadCr3, Unmap, Cache, vars
    <2> QED
        BY <1>2, <2>1
<1> HIDE DEF m, n, p, q
<1> QED
    BY <1>5, <1>6, <1>7, <1>8, <1>9, <1>10, <1>11, <1>12 DEF Next, Space!SpaceNext

\* map changes the translation of the page it is asked for, in its last step, and
\* of no other page, whatever frames it takes for tables on the way.
THEOREM MapsOnePage == Spec => ImplementsAddressSpace
<1>1. Init => Space!SpaceInit
    <2> SUFFICES ASSUME Init PROVE Space!SpaceInit
        OBVIOUS
    <2>1. op = Idle /\ \A v \in Pages : Translate(v) = None
        BY InitHolds DEF Init
    <2> QED
        BY <2>1 DEF Space!SpaceInit
<1>2. PagingInv /\ PagingInv' /\ [Next]_vars => [Space!SpaceNext]_(Space!spaceVars)
    BY Simulates
<1> QED
    BY <1>1, <1>2, PagingAlways, PTL DEF Spec, ImplementsAddressSpace, Space!SpaceSpec
=============================================================================
