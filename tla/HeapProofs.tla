----------------------------- MODULE HeapProofs -----------------------------
(* The heap's list stays a tiling of the heap in which no two free segments  *)
(* are neighbours, for every page, header and granule size and every         *)
(* sequence of requests.                                                     *)
EXTENDS Heap, TLAPS

-----------------------------------------------------------------------------
(* The invariant of the list, as a predicate of the headers, so that it can  *)
(* be stated between the steps of an action.                                 *)

Fields == [size : Nat, next : Nat, prev : Nat, free : BOOLEAN]

HeapOK(sg, last, end) ==
    /\ DOMAIN sg \subseteq Nat \ {NULL}
    /\ sg \in [DOMAIN sg -> Fields]
    /\ end \in Nat
    /\ LinksOK(sg, last)
    /\ TilesOK(sg, end)

LEMMA RoundFacts ==
  ASSUME NEW n \in Nat, NEW unit \in Nat \ {0}
  PROVE  Round(n, unit) \in Nat /\ Round(n, unit) >= n
<1>1. n % unit \in 0 .. (unit - 1)
  OBVIOUS
<1> QED
  BY <1>1 DEF Round

\* r is the heap sg with this segment merged with its successor, or sg itself.
Merged(sg, end, this, r) ==
    /\ HeapOK(r.seg, r.last, end)
    /\ this \in DOMAIN r.seg
    /\ r.seg[this].free = sg[this].free
    /\ DOMAIN r.seg \subseteq DOMAIN sg
    /\ \A t \in DOMAIN r.seg \ {this} :
          r.seg[t].size = sg[t].size /\ r.seg[t].free = sg[t].free
    /\ \A t \in DOMAIN sg \ DOMAIN r.seg : sg[t].free

\* No step of combine_forward but on a free successor changes anything; then
\* the successor's header and bytes become part of this segment.
LEMMA CombineForwardOK ==
  ASSUME NEW sg, NEW last, NEW end, HeapOK(sg, last, end), NEW this \in DOMAIN sg
  PROVE  Merged(sg, end, this, CombineForward(State(sg, last), this))
<1> DEFINE st == State(sg, last)
           n == sg[this].next
           r == CombineForward(st, this)
<1>0. st.seg = sg /\ st.last = last
  BY DEF State
<1>1. CASE n = NULL \/ ~sg[n].free
  BY <1>0, <1>1 DEF CombineForward, Merged
<1>2. CASE n # NULL /\ sg[n].free
  <2> DEFINE D == DOMAIN sg \ {n}
             m == sg[n].next
             new == [s \in D |->
                       IF s = this
                       THEN Segment(sg[s].size + sg[n].size + Header, m,
                                    sg[s].prev, sg[s].free)
                       ELSE IF s = m THEN [sg[s] EXCEPT !.prev = this]
                       ELSE sg[s]]
             newLast == IF n = last THEN this ELSE last
  <2>1. r.seg = new /\ r.last = newLast
    BY <1>0, <1>2 DEF CombineForward, State
  <2> USE DEF HeapOK, LinksOK, TilesOK, Fields, EndOf
  <2>2. /\ n \in DOMAIN sg /\ n # this /\ sg[n].prev = this /\ n # HeapStart
        /\ m # n /\ m # this
        /\ this \in Nat /\ n \in Nat /\ Header \in Nat /\ Header > 0 /\ NULL = 0
        /\ m # NULL => m \in D /\ sg[m].prev = n
        /\ this + Header + sg[this].size = n
        /\ n + Header + sg[n].size = IF m = NULL THEN end ELSE m
        /\ sg[this] \in Fields /\ sg[n] \in Fields
    <3>1. n \in DOMAIN sg /\ sg[n].prev = this /\ NULL = 0
      BY <1>2 DEF NULL
    <3>2. this \in Nat /\ n \in Nat /\ Header \in Nat /\ Header > 0
      BY <3>1, HeapSizes DEF HeapAssumption
    <3>3. sg[this] \in Fields /\ sg[n] \in Fields
      BY <3>1
    <3>4. this + Header + sg[this].size = n
      BY <1>2
    <3>5. n # this
      BY <3>2, <3>3, <3>4
    <3>6. n + Header + sg[n].size = IF m = NULL THEN end ELSE m
      BY <3>1
    <3>7. m # NULL => m \in DOMAIN sg /\ sg[m].prev = n /\ m # n /\ m # this
      BY <3>1, <3>2, <3>3, <3>4, <3>6
    <3>8. n # HeapStart
      BY <3>1
    <3> QED
      BY <3>1, <3>2, <3>3, <3>4, <3>5, <3>6, <3>7, <3>8
  <2>3. /\ DOMAIN new = D /\ this \in D
        /\ new[this].size = sg[this].size + sg[n].size + Header
        /\ new[this].next = m /\ new[this].prev = sg[this].prev
        /\ new[this].free = sg[this].free
        /\ \A s \in D \ {this} : /\ new[s].size = sg[s].size /\ new[s].free = sg[s].free
                                 /\ new[s].next = sg[s].next
                                 /\ new[s].prev = IF s = m THEN this ELSE sg[s].prev
        /\ new \in [D -> Fields]
    <3>1. DOMAIN new = D /\ this \in D
      BY <2>2
    <3>2. new[this] = Segment(sg[this].size + sg[n].size + Header, m,
                              sg[this].prev, sg[this].free)
      BY <3>1
    <3>3. /\ new[this] \in Fields
          /\ new[this].size = sg[this].size + sg[n].size + Header
          /\ new[this].next = m /\ new[this].prev = sg[this].prev
          /\ new[this].free = sg[this].free
      <4>1. sg[this] \in Fields /\ sg[n].size \in Nat /\ Header \in Nat /\ m \in Nat
        BY <2>2
      <4> HIDE DEF new, HeapOK, LinksOK, TilesOK, D, m, n
      <4> QED
        BY <3>2, <4>1 DEF Segment
    <3>4. ASSUME NEW s \in D \ {this}
          PROVE  /\ new[s] \in Fields
                 /\ new[s].size = sg[s].size /\ new[s].free = sg[s].free
                 /\ new[s].next = sg[s].next
                 /\ new[s].prev = IF s = m THEN this ELSE sg[s].prev
      <4>1. new[s] = (IF s = m THEN [sg[s] EXCEPT !.prev = this] ELSE sg[s])
        BY <3>4
      <4>2. sg[s] \in Fields
        BY <3>4
      <4> QED
        BY <2>2, <4>1, <4>2
    <3>5. new = [s \in D |-> new[s]]
      OBVIOUS
    <3> HIDE DEF new, HeapOK, LinksOK, TilesOK, m, n
    <3>6. \A s \in D : new[s] \in Fields
      BY <3>1, <3>3, <3>4
    <3>7. new \in [D -> Fields]
      BY <3>1, <3>5, <3>6
    <3> QED
      BY <3>1, <3>3, <3>4, <3>7
  <2> HIDE DEF new
  <2>4. LinksOK(new, newLast)
    <3>1. HeapStart \in D /\ newLast \in D
      BY <2>2, <2>3
    <3>2. \A s \in D : new[s].next = NULL <=> s = newLast
      BY <2>2, <2>3
    <3>3. \A s \in D : new[s].prev = NULL <=> s = HeapStart
      BY <2>2, <2>3
    <3>4. ASSUME NEW s \in D, new[s].next # NULL
          PROVE  new[s].next \in D /\ new[new[s].next].prev = s
      BY <2>2, <2>3, <3>4
    <3>5. ASSUME NEW s \in D, new[s].prev # NULL
          PROVE  new[s].prev \in D /\ new[new[s].prev].next = s
      <4>1. CASE s = this
        BY <2>2, <2>3, <3>5, <4>1
      <4>2. CASE s = m /\ s # this
        BY <2>2, <2>3, <3>5, <4>2
      <4>3. CASE s # m /\ s # this
        <5>1. /\ new[s].prev = sg[s].prev /\ sg[s].prev \in DOMAIN sg
              /\ sg[sg[s].prev].next = s
          BY <2>3, <3>5, <4>3
        <5>2. sg[s].prev # n /\ sg[s].prev # this
          BY <2>2, <4>3, <5>1
        <5> QED
          BY <2>3, <5>1, <5>2
      <4> QED
        BY <4>1, <4>2, <4>3
    <3> QED
      BY <2>3, <3>1, <3>2, <3>3, <3>4, <3>5
  <2>5. TilesOK(new, end)
    <3>1. this + Header + new[this].size = n + Header + sg[n].size
      BY <2>2, <2>3
    <3>2. \A s \in D : EndOf(new, s) = IF new[s].next = NULL THEN end ELSE new[s].next
      BY <2>2, <2>3, <3>1
    <3>3. \A s, t \in D : s < t => EndOf(new, s) <= t
      <4> SUFFICES ASSUME NEW s \in D, NEW t \in D, s < t PROVE EndOf(new, s) <= t
        OBVIOUS
      <4>1. CASE s # this
        <5>1. s \in DOMAIN sg /\ t \in DOMAIN sg /\ new[s].size = sg[s].size
          BY <2>3, <4>1
        <5>2. s + Header + sg[s].size <= t
          BY <5>1
        <5> QED
          BY <5>1, <5>2
      <4>2. CASE s = this
        <5>1. n <= t
          BY <2>2, <4>2
        <5>2. t # n /\ t \in Nat /\ n \in Nat
          BY <2>2
        <5>3. n < t
          <6> HIDE DEF HeapOK, LinksOK, TilesOK, Fields, EndOf, D, n
          <6> QED
            BY <5>1, <5>2
        <5> QED
          BY <2>2, <3>1, <4>2, <5>3
      <4> QED
        BY <4>1, <4>2
    <3>4. \A s \in D : HeapStart <= s /\ EndOf(new, s) <= end
      BY <2>2, <2>3, <3>1
    <3> QED
      BY <2>3, <3>2, <3>3, <3>4
  <2>6. HeapOK(new, newLast, end)
    BY <2>4, <2>5, <2>3, <2>2
  <2>7. sg[n].free
    BY <1>2
  <2>8. /\ this \in DOMAIN new /\ new[this].free = sg[this].free /\ DOMAIN new \subseteq DOMAIN sg
        /\ \A t \in DOMAIN new \ {this} : new[t].size = sg[t].size /\ new[t].free = sg[t].free
        /\ \A t \in DOMAIN sg \ DOMAIN new : sg[t].free
    BY <2>3, <2>7
  <2> HIDE DEF HeapOK, LinksOK, TilesOK, Fields, EndOf
  <2> QED
    BY <2>1, <2>6, <2>8, Zenon DEF Merged
<1> QED
  BY <1>1, <1>2

\* The segments in use are the same, at the same length, and only they.
SameInUse(sg, new) ==
    /\ \A t \in DOMAIN sg : ~sg[t].free => /\ t \in DOMAIN new /\ ~new[t].free
                                           /\ new[t].size = sg[t].size
    /\ \A t \in DOMAIN new : t \in DOMAIN sg /\ new[t].free = sg[t].free

LEMMA CombineForwardKeeps ==
  ASSUME NEW sg, NEW last, NEW end, HeapOK(sg, last, end), NEW this \in DOMAIN sg,
         sg[this].free, NEW r, r = CombineForward(State(sg, last), this)
  PROVE  HeapOK(r.seg, r.last, end) /\ SameInUse(sg, r.seg) /\ this \in DOMAIN r.seg
<1>1. Merged(sg, end, this, r)
  BY CombineForwardOK
<1>2. SameInUse(sg, r.seg)
  <2>1. ASSUME NEW t \in DOMAIN sg, ~sg[t].free
        PROVE  t \in DOMAIN r.seg /\ ~r.seg[t].free /\ r.seg[t].size = sg[t].size
    <3>1. t \in DOMAIN r.seg /\ t # this
      BY <1>1, <2>1 DEF Merged
    <3> QED
      BY <1>1, <2>1, <3>1 DEF Merged
  <2>2. ASSUME NEW t \in DOMAIN r.seg
        PROVE  t \in DOMAIN sg /\ r.seg[t].free = sg[t].free
    BY <1>1 DEF Merged
  <2> QED
    BY <2>1, <2>2 DEF SameInUse
<1> QED
  BY <1>1, <1>2 DEF Merged

LEMMA CombineBackwardKeeps ==
  ASSUME NEW sg, NEW last, NEW end, HeapOK(sg, last, end), NEW this \in DOMAIN sg,
         NEW r, r = CombineBackward(State(sg, last), this)
  PROVE  HeapOK(r.seg, r.last, end) /\ SameInUse(sg, r.seg)
<1> DEFINE p == sg[this].prev
<1>1. CASE p # NULL /\ sg[p].free
  <2>1. p \in DOMAIN sg
    BY <1>1 DEF HeapOK, LinksOK
  <2>2. r = CombineForward(State(sg, last), p)
    BY <1>1 DEF CombineBackward, State
  <2> QED
    BY <1>1, <2>1, <2>2, CombineForwardKeeps
<1>2. CASE ~(p # NULL /\ sg[p].free)
  <2>1. r = State(sg, last)
    BY <1>2 DEF CombineBackward, State
  <2> QED
    BY <2>1 DEF State, SameInUse
<1> QED
  BY <1>1, <1>2

\* r is the heap sg with this segment cut after size bytes, or sg itself; the
\* second part is as free as the whole was.
Cut(sg, end, this, size, r) ==
    /\ HeapOK(r.seg, r.last, end)
    /\ DOMAIN sg \subseteq DOMAIN r.seg
    /\ r.seg[this].size >= size
    /\ \A t \in DOMAIN sg \ {this} :
          r.seg[t].size = sg[t].size /\ r.seg[t].free = sg[t].free
    /\ \A t \in (DOMAIN r.seg \ DOMAIN sg) \cup {this} :
          r.seg[t].free = sg[this].free

\* split cuts a segment in two that tile it.
LEMMA SplitOK ==
  ASSUME NEW sg, NEW last, NEW end, HeapOK(sg, last, end), NEW this \in DOMAIN sg,
         NEW size \in Nat, sg[this].size > size + Header
  PROVE  Cut(sg, end, this, size, Split(State(sg, last), this, size))
<1> DEFINE st == State(sg, last)
           r == Split(st, this, size)
           new == this + size + Header
           rest == sg[this].size - size - Header
           m == sg[this].next
<1>0. st.seg = sg /\ st.last = last
  BY DEF State
<1>a. Header \in Nat \ {0} /\ Granule \in Nat
  BY HeapSizes DEF HeapAssumption
<1>b. this \in Nat /\ sg[this] \in Fields /\ sg[this].size \in Nat /\ m \in Nat /\ end \in Nat
  BY DEF HeapOK, Fields
<1>1. CASE size < Granule \/ rest < Granule
  <2>1. r.seg = sg /\ r.last = last
    BY <1>0, <1>1 DEF Split
  <2> QED
    BY <2>1, <1>a, <1>b DEF Cut
<1>2. CASE ~(size < Granule \/ rest < Granule)
  <2> DEFINE D == DOMAIN sg \cup {new}
             cut == [s \in D |->
                       IF s = new THEN Segment(rest, m, this, sg[this].free)
                       ELSE IF s = this THEN Segment(size, new, sg[s].prev, sg[s].free)
                       ELSE IF s = m THEN [sg[s] EXCEPT !.prev = new]
                       ELSE sg[s]]
             newLast == IF last = this THEN new ELSE last
  <2>1. r.seg = cut /\ r.last = newLast
    BY <1>0, <1>2 DEF Split, State
  <2>2. /\ new \in Nat /\ rest \in Nat /\ new > this /\ NULL = 0 /\ new # NULL
        /\ this + Header + sg[this].size = IF m = NULL THEN end ELSE m
        /\ this + Header + size = new
        /\ new + Header + rest = this + Header + sg[this].size
    <3>1. this + Header + sg[this].size = IF m = NULL THEN end ELSE m
      BY DEF HeapOK, TilesOK, EndOf
    <3> QED
      BY <1>a, <1>b, <3>1 DEF NULL
  <2>3. new \notin DOMAIN sg
    <3> SUFFICES ASSUME new \in DOMAIN sg PROVE FALSE
      OBVIOUS
    <3>1. this + Header + sg[this].size <= new
      BY <2>2 DEF HeapOK, TilesOK, EndOf
    <3> QED
      BY <1>a, <1>b, <2>2, <3>1
  <2>4. m # NULL => m \in DOMAIN sg /\ sg[m].prev = this /\ m # this /\ m # new
    <3>1. m # NULL => m \in DOMAIN sg /\ sg[m].prev = this
      BY DEF HeapOK, LinksOK
    <3> QED
      BY <1>a, <1>b, <2>2, <2>3, <3>1
  <2>5. /\ DOMAIN cut = D /\ this \in D /\ new \in D /\ this # new
        /\ cut[new] = Segment(rest, m, this, sg[this].free)
        /\ cut[this] = Segment(size, new, sg[this].prev, sg[this].free)
        /\ \A s \in DOMAIN sg \ {this} :
              cut[s] = IF s = m THEN [sg[s] EXCEPT !.prev = new] ELSE sg[s]
        /\ cut = [s \in D |-> cut[s]]
    BY <1>b, <2>2, <2>3
  <2> HIDE DEF cut
  <2>6. /\ cut[new] \in Fields /\ cut[new].size = rest /\ cut[new].next = m
        /\ cut[new].prev = this /\ cut[new].free = sg[this].free
    BY <1>b, <2>2, <2>5 DEF Segment, Fields
  <2>7. /\ cut[this] \in Fields /\ cut[this].size = size /\ cut[this].next = new
        /\ cut[this].prev = sg[this].prev /\ cut[this].free = sg[this].free
    BY <1>b, <2>2, <2>5 DEF Segment, Fields
  <2>8. ASSUME NEW s \in DOMAIN sg \ {this}
        PROVE  /\ cut[s] \in Fields
               /\ cut[s].size = sg[s].size /\ cut[s].free = sg[s].free
               /\ cut[s].next = sg[s].next
               /\ cut[s].prev = IF s = m THEN new ELSE sg[s].prev
    <3>1. sg[s] \in Fields
      BY DEF HeapOK
    <3> QED
      BY <2>2, <2>5, <3>1 DEF Fields
  <2>9. LinksOK(cut, newLast)
    <3>1. HeapStart \in D /\ newLast \in D
      BY DEF HeapOK, LinksOK
    <3>2. \A s \in D : cut[s].next = NULL <=> s = newLast
      BY <2>2, <2>3, <2>4, <2>6, <2>7, <2>8 DEF HeapOK, LinksOK
    <3>3. \A s \in D : cut[s].prev = NULL <=> s = HeapStart
      <4>1. this # NULL
        BY DEF HeapOK
      <4> QED
        BY <2>2, <2>3, <2>4, <2>6, <2>7, <2>8, <4>1 DEF HeapOK, LinksOK
    <3>4. ASSUME NEW s \in D, cut[s].next # NULL
          PROVE  cut[s].next \in D /\ cut[cut[s].next].prev = s
      <4>1. CASE s = new
        BY <2>4, <2>6, <2>8, <3>4, <4>1
      <4>2. CASE s = this
        BY <2>6, <2>7, <4>2
      <4>3. CASE s # new /\ s # this
        <5>1. /\ s \in DOMAIN sg /\ cut[s].next = sg[s].next
              /\ sg[s].next \in DOMAIN sg /\ sg[sg[s].next].prev = s
          BY <2>8, <3>4, <4>3 DEF HeapOK, LinksOK
        <5>2. sg[s].next # m
          BY <2>4, <3>4, <4>3, <5>1
        <5>3. CASE sg[s].next = this
          BY <2>7, <5>1, <5>3
        <5>4. CASE sg[s].next # this
          BY <2>8, <5>1, <5>2, <5>4
        <5> QED
          BY <5>3, <5>4
      <4> QED
        BY <4>1, <4>2, <4>3
    <3>5. ASSUME NEW s \in D, cut[s].prev # NULL
          PROVE  cut[s].prev \in D /\ cut[cut[s].prev].next = s
      <4>1. CASE s = new
        BY <2>6, <2>7, <4>1
      <4>2. CASE s = this
        <5>1. /\ sg[this].prev \in DOMAIN sg /\ sg[sg[this].prev].next = this
              /\ cut[this].prev = sg[this].prev
          BY <2>7, <3>5, <4>2 DEF HeapOK, LinksOK
        <5>2. sg[this].prev # this
          <6> SUFFICES ASSUME sg[this].prev = this PROVE FALSE
            OBVIOUS
          <6>1. m = this
            BY <5>1
          <6>2. this # NULL
            BY DEF HeapOK
          <6> QED
            BY <2>4, <6>1, <6>2
        <5> QED
          BY <2>8, <4>2, <5>1, <5>2
      <4>3. CASE s # new /\ s # this /\ s = m
        BY <2>6, <2>8, <4>3
      <4>4. CASE s # new /\ s # this /\ s # m
        <5>1. /\ s \in DOMAIN sg /\ cut[s].prev = sg[s].prev
              /\ sg[s].prev \in DOMAIN sg /\ sg[sg[s].prev].next = s
          BY <2>8, <3>5, <4>4 DEF HeapOK, LinksOK
        <5>2. sg[s].prev # this
          BY <4>4, <5>1
        <5> QED
          BY <2>8, <5>1, <5>2
      <4> QED
        BY <4>1, <4>2, <4>3, <4>4
    <3> QED
      BY <2>5, <3>1, <3>2, <3>3, <3>4, <3>5 DEF LinksOK
  <2>10. TilesOK(cut, end)
    <3>1. \A s \in D : EndOf(cut, s) = IF cut[s].next = NULL THEN end ELSE cut[s].next
      BY <2>2, <2>6, <2>7, <2>8 DEF EndOf, HeapOK, TilesOK
    <3>2. ASSUME NEW s \in D, NEW t \in D, s < t PROVE EndOf(cut, s) <= t
      <4>0. \A x \in DOMAIN sg : x \in Nat /\ sg[x].size \in Nat
        BY DEF HeapOK, Fields
      <4>1. CASE s = new
        <5>1. t \in DOMAIN sg /\ this < t
          BY <1>b, <2>2, <3>2, <4>0, <4>1
        <5>2. EndOf(sg, this) <= t
          BY <5>1 DEF HeapOK, TilesOK
        <5> QED
          BY <2>2, <2>6, <4>1, <5>2 DEF EndOf
      <4>2. CASE s = this
        <5>1. CASE t = new
          BY <2>2, <2>7, <4>2, <5>1 DEF EndOf
        <5>2. CASE t # new
          <6>1. this + Header + sg[this].size <= t
            BY <3>2, <4>2, <5>2 DEF HeapOK, TilesOK, EndOf
          <6> QED
            BY <1>a, <1>b, <2>2, <2>7, <4>0, <4>2, <5>2, <6>1 DEF EndOf
        <5> QED
          BY <5>1, <5>2
      <4>3. CASE s # new /\ s # this /\ t # new
        BY <2>8, <3>2, <4>3 DEF EndOf, HeapOK, TilesOK
      <4>4. CASE s # new /\ s # this /\ t = new
        <5>1. s \in DOMAIN sg /\ EndOf(cut, s) = EndOf(sg, s)
          BY <2>8, <4>4 DEF EndOf
        <5>2. CASE s < this
          <6>1. EndOf(sg, s) <= this
            BY <5>1, <5>2 DEF HeapOK, TilesOK
          <6> QED
            BY <1>a, <1>b, <2>2, <4>0, <4>4, <5>1, <6>1 DEF EndOf
        <5>3. CASE this < s
          <6>1. this + Header + sg[this].size <= s
            BY <5>1, <5>3 DEF HeapOK, TilesOK, EndOf
          <6> QED
            BY <1>a, <1>b, <2>2, <3>2, <4>0, <4>4, <5>1, <6>1
        <5> QED
          BY <1>b, <4>0, <4>4, <5>1, <5>2, <5>3
      <4> QED
        BY <4>1, <4>2, <4>3, <4>4
    <3>3. ASSUME NEW s \in D PROVE HeapStart <= s /\ EndOf(cut, s) <= end
      <4>1. HeapStart <= this /\ this + Header + sg[this].size <= end
        BY DEF HeapOK, TilesOK, EndOf
      <4>2. HeapStart \in Nat
        BY HeapSizes DEF HeapAssumption
      <4>3. CASE s = new
        BY <1>a, <1>b, <2>2, <2>6, <4>1, <4>2, <4>3 DEF EndOf
      <4>4. CASE s = this
        BY <1>a, <1>b, <2>2, <2>7, <4>1, <4>4 DEF EndOf
      <4>5. CASE s # new /\ s # this
        BY <2>8, <4>5 DEF EndOf, HeapOK, TilesOK
      <4> QED
        BY <4>3, <4>4, <4>5
    <3> QED
      BY <2>5, <3>1, <3>2, <3>3 DEF TilesOK
  <2>11. cut \in [D -> Fields] /\ D \subseteq Nat \ {NULL}
    <3>1. \A s \in D : cut[s] \in Fields
      BY <2>6, <2>7, <2>8
    <3> QED
      BY <2>2, <2>5, <3>1 DEF HeapOK
  <2>12. HeapOK(cut, newLast, end)
    BY <2>5, <2>9, <2>10, <2>11, <1>b DEF HeapOK
  <2> HIDE DEF newLast
  <2>13. DOMAIN sg \subseteq DOMAIN cut /\ DOMAIN cut \ DOMAIN sg = {new}
    BY <2>3, <2>5
  <2>14. cut[this].size >= size
    BY <2>7
  <2>15. /\ \A t \in DOMAIN sg \ {this} : cut[t].size = sg[t].size /\ cut[t].free = sg[t].free
         /\ \A t \in {new} \cup {this} : cut[t].free = sg[this].free
    BY <2>6, <2>7, <2>8
  <2> HIDE DEF r, new, D
  <2>16. Cut(sg, end, this, size, r)
    BY <2>1, <2>12, <2>13, <2>14, <2>15 DEF Cut
  <2> QED
    BY <2>16 DEF r
<1> QED
  BY <1>1, <1>2

\* malloc and free write one flag: the list is what it was.
LEMMA SetFreeOK ==
  ASSUME NEW sg, NEW last, NEW end, HeapOK(sg, last, end), NEW this \in DOMAIN sg,
         NEW b \in BOOLEAN, NEW new, new = [sg EXCEPT ![this].free = b]
  PROVE  HeapOK(new, last, end) /\ DOMAIN new = DOMAIN sg
<1>1. DOMAIN new = DOMAIN sg /\ new = [s \in DOMAIN sg |-> new[s]]
  OBVIOUS
<1>2. ASSUME NEW s \in DOMAIN sg
      PROVE  /\ new[s] \in Fields /\ new[s].size = sg[s].size
             /\ new[s].next = sg[s].next /\ new[s].prev = sg[s].prev
  <2>1. sg[s] \in Fields
    BY DEF HeapOK
  <2>2. CASE s = this
    <3>1. new[s] = [sg[s] EXCEPT !.free = b]
      BY <2>2
    <3> QED
      BY <2>1, <3>1 DEF Fields
  <2>3. CASE s # this
    <3>1. new[s] = sg[s]
      BY <2>3
    <3> QED
      BY <2>1, <3>1
  <2> QED
    BY <2>2, <2>3
<1>3. new \in [DOMAIN new -> Fields]
  BY <1>1, <1>2
<1>4. LinksOK(new, last)
  BY <1>1, <1>2 DEF HeapOK, LinksOK
<1>5. TilesOK(new, end)
  BY <1>1, <1>2 DEF HeapOK, TilesOK, EndOf
<1> QED
  BY <1>1, <1>3, <1>4, <1>5 DEF HeapOK

\* expand_heap puts a header at the old end and links it behind last_seg.
LEMMA AppendOK ==
  ASSUME NEW sg, NEW last, NEW end \in Nat, HeapOK(sg, last, end), NEW growth \in Nat,
         growth >= Header, NEW top \in Nat, top = end + growth, NEW new,
         new = AppendSegment(sg, last, end, growth)
  PROVE  HeapOK(new, end, top) /\ DOMAIN new = DOMAIN sg \cup {end}
<1>1. Header \in Nat \ {0} /\ HeapStart \in Nat \ {0} /\ NULL = 0 /\ end \in Nat
      /\ top = end + growth
  BY HeapSizes DEF HeapAssumption, NULL, HeapOK
<1>2. ASSUME NEW s \in DOMAIN sg
      PROVE  /\ s \in Nat \ {NULL} /\ sg[s] \in Fields
             /\ s + Header + sg[s].size <= end /\ s < end /\ HeapStart <= s
  <2>1. s \in Nat \ {NULL} /\ sg[s] \in Fields
    BY DEF HeapOK
  <2>2. s + Header + sg[s].size <= end /\ HeapStart <= s
    BY DEF HeapOK, TilesOK, EndOf
  <2> QED
    BY <1>1, <2>1, <2>2 DEF Fields
<1>3. end \notin DOMAIN sg /\ end # NULL /\ last \in DOMAIN sg /\ sg[last].next = NULL
  BY <1>1, <1>2 DEF HeapOK, LinksOK
<1>4. /\ DOMAIN new = DOMAIN sg \cup {end}
      /\ new[end] = Segment(growth - Header, NULL, last, TRUE)
      /\ \A s \in DOMAIN sg : new[s] = IF s = last THEN [sg[s] EXCEPT !.next = end] ELSE sg[s]
      /\ new = [s \in DOMAIN new |-> new[s]]
  BY <1>3 DEF AppendSegment
<1>5. /\ new[end] \in Fields /\ new[end].size = growth - Header
      /\ new[end].next = NULL /\ new[end].prev = last /\ new[end].free
  <2>1. growth - Header \in Nat /\ last \in Nat
    BY <1>1, <1>2, <1>3
  <2> QED
    BY <1>1, <1>4, <2>1 DEF Segment, Fields
<1>6. ASSUME NEW s \in DOMAIN sg
      PROVE  /\ new[s] \in Fields /\ new[s].size = sg[s].size
             /\ new[s].prev = sg[s].prev /\ new[s].free = sg[s].free
             /\ new[s].next = IF s = last THEN end ELSE sg[s].next
  BY <1>1, <1>2, <1>4 DEF Fields
<1>7. new \in [DOMAIN new -> Fields] /\ DOMAIN new \subseteq Nat \ {NULL}
  <2>1. \A s \in DOMAIN new : new[s] \in Fields /\ s \in Nat \ {NULL}
    BY <1>1, <1>2, <1>3, <1>4, <1>5, <1>6
  <2> QED
    BY <1>4, <2>1
<1>8. LinksOK(new, end)
  <2>1. HeapStart \in DOMAIN new /\ end \in DOMAIN new /\ HeapStart # end
    BY <1>3, <1>4 DEF HeapOK, LinksOK
  <2>2. ASSUME NEW s \in DOMAIN new
        PROVE  /\ new[s].next = NULL <=> s = end
               /\ new[s].prev = NULL <=> s = HeapStart
               /\ new[s].next # NULL => /\ new[s].next \in DOMAIN new
                                        /\ new[new[s].next].prev = s
               /\ new[s].prev # NULL => /\ new[s].prev \in DOMAIN new
                                        /\ new[new[s].prev].next = s
    <3>1. CASE s = end
      <4>1. last # NULL /\ new[last].next = end
        BY <1>2, <1>3, <1>6
      <4> QED
        BY <1>3, <1>4, <1>5, <2>1, <3>1, <4>1
    <3>2. CASE s = last
      <4>1. new[s].next = end /\ new[end].prev = s /\ s \in DOMAIN sg
        BY <1>3, <1>5, <1>6, <3>2
      <4>2. new[s].prev = sg[s].prev /\ (sg[s].prev = NULL <=> s = HeapStart)
        BY <1>6, <4>1 DEF HeapOK, LinksOK
      <4>3. sg[s].prev # NULL => sg[s].prev \in DOMAIN sg /\ sg[sg[s].prev].next = s
        BY <4>1 DEF HeapOK, LinksOK
      <4>4. sg[s].prev # NULL => sg[s].prev # last
        BY <1>3, <1>2, <4>1, <4>3
      <4>5. ASSUME new[s].prev # NULL
            PROVE  new[s].prev \in DOMAIN new /\ new[new[s].prev].next = s
        BY <1>4, <1>6, <4>2, <4>3, <4>4, <4>5
      <4> QED
        BY <1>3, <1>4, <3>2, <4>1, <4>2, <4>5
    <3>3. CASE s # end /\ s # last
      <4>1. s \in DOMAIN sg /\ new[s].next = sg[s].next /\ new[s].prev = sg[s].prev
        BY <1>4, <1>6, <3>3
      <4>2. /\ sg[s].next # NULL /\ sg[s].next \in DOMAIN sg
            /\ sg[sg[s].next].prev = s
        BY <3>3, <4>1 DEF HeapOK, LinksOK
      <4>3. /\ sg[s].prev = NULL <=> s = HeapStart
            /\ sg[s].prev # NULL => sg[s].prev \in DOMAIN sg /\ sg[sg[s].prev].next = s
        BY <4>1 DEF HeapOK, LinksOK
      <4>4. sg[s].prev # NULL => sg[s].prev # last
        BY <1>2, <1>3, <4>1, <4>2, <4>3
      <4> QED
        BY <1>4, <1>6, <3>3, <4>1, <4>2, <4>3, <4>4
    <3> QED
      BY <3>1, <3>2, <3>3
  <2> QED
    BY <2>1, <2>2 DEF LinksOK
<1>9. TilesOK(new, top)
  <2>1. EndOf(new, end) = top
    BY <1>1, <1>5 DEF EndOf
  <2>2. \A s \in DOMAIN sg : EndOf(new, s) = EndOf(sg, s) /\ EndOf(sg, s) <= end
    BY <1>2, <1>6 DEF EndOf
  <2>3. ASSUME NEW s \in DOMAIN new
        PROVE  EndOf(new, s) = IF new[s].next = NULL THEN top ELSE new[s].next
    <3>1. CASE s = end
      BY <1>5, <2>1, <3>1
    <3>2. CASE s = last
      <4>1. EndOf(sg, last) = end
        BY <1>3 DEF HeapOK, TilesOK
      <4> QED
        BY <1>3, <1>6, <2>2, <3>2, <4>1
    <3>3. CASE s # end /\ s # last
      <4>1. s \in DOMAIN sg /\ sg[s].next # NULL
        BY <1>4, <3>3 DEF HeapOK, LinksOK
      <4>2. EndOf(sg, s) = sg[s].next
        BY <4>1 DEF HeapOK, TilesOK
      <4> QED
        BY <1>6, <2>2, <3>3, <4>1, <4>2
    <3> QED
      BY <3>1, <3>2, <3>3
  <2>4. ASSUME NEW s \in DOMAIN new, NEW t \in DOMAIN new, s < t
        PROVE  EndOf(new, s) <= t
    <3>1. s \in DOMAIN sg
      BY <1>1, <1>2, <1>4, <2>4
    <3>2. CASE t = end
      BY <2>2, <3>1, <3>2
    <3>3. CASE t # end
      <4>1. t \in DOMAIN sg
        BY <1>4, <3>3
      <4> QED
        BY <2>2, <2>4, <3>1, <4>1 DEF HeapOK, TilesOK
    <3> QED
      BY <3>2, <3>3
  <2>5. ASSUME NEW s \in DOMAIN new PROVE HeapStart <= s /\ EndOf(new, s) <= top
    <3>1. CASE s = end
      <4>1. HeapStart < end
        BY <1>2 DEF HeapOK, LinksOK
      <4> QED
        BY <1>1, <2>1, <3>1, <4>1
    <3>2. CASE s # end
      <4>1. s \in DOMAIN sg
        BY <1>4, <3>2
      <4>2. EndOf(sg, s) \in Nat
        BY <1>1, <1>2, <4>1 DEF EndOf, Fields
      <4> QED
        BY <1>1, <1>2, <2>2, <4>1, <4>2
    <3> QED
      BY <3>1, <3>2
  <2> QED
    BY <2>3, <2>4, <2>5 DEF TilesOK
<1> QED
  BY <1>1, <1>4, <1>7, <1>8, <1>9 DEF HeapOK

-----------------------------------------------------------------------------
(* The invariant.  After OutOfFrames heap_end no longer belongs to the list. *)

HeapInv == /\ asked \in Requests \cup {0}
           /\ heap_end \in Nat
           /\ nullWritten \in BOOLEAN
           /\ halted \in BOOLEAN
           /\ ~halted => heap_end <= MaxEnd
           /\ \E end : HeapOK(seg, last_seg, end) /\ (~halted => end = heap_end)

LEMMA HeapInvMeans == HeapInv => TypeOK /\ ListOK
<1> SUFFICES ASSUME HeapInv PROVE TypeOK /\ ListOK
  OBVIOUS
<1> PICK end : HeapOK(seg, last_seg, end) /\ (~halted => end = heap_end)
  BY DEF HeapInv
<1>1. ListOK
  BY DEF HeapOK, ListOK
<1>2. DOMAIN seg \subseteq Nat \ {NULL} /\ last_seg \in DOMAIN seg
  BY DEF HeapOK, LinksOK
<1>3. \A s \in DOMAIN seg : /\ seg[s].size \in Nat /\ seg[s].free \in BOOLEAN
                            /\ seg[s].next \in DOMAIN seg \cup {NULL}
                            /\ seg[s].prev \in DOMAIN seg \cup {NULL}
                            /\ seg[s] = [size |-> seg[s].size, next |-> seg[s].next,
                                         prev |-> seg[s].prev, free |-> seg[s].free]
  BY DEF HeapOK, LinksOK, Fields
<1>4. seg = [s \in DOMAIN seg |-> seg[s]]
  BY DEF HeapOK
<1>5. seg \in [DOMAIN seg -> [size : Nat, next : DOMAIN seg \cup {NULL},
                              prev : DOMAIN seg \cup {NULL}, free : BOOLEAN]]
  BY <1>3, <1>4
<1> QED
  BY <1>1, <1>2, <1>5 DEF TypeOK, Headers, HeapInv

LEMMA InitHeap == Init => HeapInv
<1> SUFFICES ASSUME Init PROVE HeapInv
  OBVIOUS
<1>w. PICK whole : whole = InitPages * PageSize
  OBVIOUS
<1>0. heap_end <= MaxEnd
  BY HeapSizes DEF HeapAssumption, Init
<1>1. /\ HeapStart \in Nat \ {0} /\ Header \in Nat \ {0} /\ NULL = 0
      /\ whole \in Nat /\ whole >= Header
  <2>1. InitPages \in Nat \ {0} /\ PageSize \in Nat \ {0} /\ Header \in Nat \ {0}
        /\ PageSize > Header /\ HeapStart \in Nat \ {0}
    BY HeapSizes DEF HeapAssumption
  <2>2. whole \in Nat /\ whole >= PageSize
    BY <2>1, <1>w
  <2> QED
    BY <2>1, <2>2 DEF NULL
<1>2. /\ DOMAIN seg = {HeapStart} /\ last_seg = HeapStart /\ heap_end = HeapStart + whole
  BY <1>w DEF Init
<1>s. seg[HeapStart] = Segment(whole - Header, NULL, NULL, TRUE)
  BY <1>w DEF Init
<1>3. /\ seg[HeapStart] \in Fields /\ seg[HeapStart].size = whole - Header
      /\ seg[HeapStart].next = NULL /\ seg[HeapStart].prev = NULL
  BY <1>1, <1>s DEF Segment, Fields
<1>4. seg \in [DOMAIN seg -> Fields]
  <2>1. seg = [s \in DOMAIN seg |-> seg[s]]
    BY DEF Init
  <2> QED
    BY <1>2, <1>3, <2>1
<1>5. LinksOK(seg, last_seg)
  BY <1>2, <1>3 DEF LinksOK
<1>6. TilesOK(seg, heap_end)
  <2>1. EndOf(seg, HeapStart) = heap_end
    BY <1>1, <1>2, <1>3 DEF EndOf
  <2>3. HeapStart <= HeapStart /\ heap_end <= heap_end
    BY <1>1, <1>2
  <2>2. \A s, t \in DOMAIN seg : ~(s < t)
    BY <1>1, <1>2
  <2> QED
    BY <1>2, <1>3, <2>1, <2>2, <2>3 DEF TilesOK
<1>7. HeapOK(seg, last_seg, heap_end)
  BY <1>1, <1>2, <1>4, <1>5, <1>6 DEF HeapOK
<1>8. asked = 0 /\ nullWritten = FALSE /\ halted = FALSE
  BY DEF Init
<1>9. heap_end \in Nat
  BY <1>1, <1>2
<1> QED
  BY <1>0, <1>7, <1>8, <1>9 DEF HeapInv

LEMMA SizeFacts == ASSUME HeapInv PROVE Size \in Nat /\ Growth \in Nat /\ Growth >= Header
<1>1. asked \in Nat /\ Granule \in Nat \ {0} /\ PageSize \in Nat \ {0} /\ Header \in Nat \ {0}
  BY HeapSizes DEF HeapAssumption, HeapInv
<1>2. Size \in Nat
  BY <1>1, RoundFacts DEF Size
<1>3. (Size + Header) * 2 \in Nat /\ (Size + Header) * 2 >= Header
  BY <1>1, <1>2
<1>4. Growth \in Nat /\ Growth >= (Size + Header) * 2
  BY <1>1, <1>3, RoundFacts DEF Growth
<1> QED
  BY <1>1, <1>2, <1>3, <1>4

LEMMA TakeSegmentOK ==
  ASSUME HeapInv, NEW s \in DOMAIN seg, TakeSegment(s) PROVE HeapInv'
<1> DEFINE st == State(seg, last_seg)
           cut == IF seg[s].size > Size + Header THEN Split(st, s, Size) ELSE st
<1>1. /\ ~halted /\ seg' = [cut.seg EXCEPT ![s].free = FALSE] /\ last_seg' = cut.last
      /\ nullWritten' \in BOOLEAN /\ asked' = 0 /\ heap_end' = heap_end /\ halted' = halted
  BY DEF TakeSegment, HeapInv
<1>2. HeapOK(seg, last_seg, heap_end)
  BY <1>1 DEF HeapInv
<1>3. HeapOK(cut.seg, cut.last, heap_end) /\ s \in DOMAIN cut.seg
  <2>1. CASE seg[s].size > Size + Header
    <3>1. Cut(seg, heap_end, s, Size, Split(st, s, Size))
      BY <1>2, <2>1, SizeFacts, SplitOK
    <3> QED
      BY <2>1, <3>1 DEF Cut
  <2>2. CASE ~(seg[s].size > Size + Header)
    BY <1>2, <2>2 DEF State
  <2> QED
    BY <2>1, <2>2
<1> HIDE DEF cut
<1>4. HeapOK(seg', last_seg', heap_end)
  BY <1>1, <1>3, SetFreeOK
<1> QED
  BY <1>1, <1>4 DEF HeapInv

LEMMA ExpandHeapOK == ASSUME HeapInv, ExpandHeap PROVE HeapInv'
<1> DEFINE sg == AppendSegment(seg, last_seg, heap_end, Growth)
           st == CombineBackward(State(sg, heap_end), heap_end)
<1>1. /\ ~halted /\ seg' = st.seg /\ last_seg' = st.last /\ heap_end' = heap_end + Growth
      /\ UNCHANGED <<asked, nullWritten, halted>>
  BY DEF ExpandHeap
<1>2. HeapOK(seg, last_seg, heap_end) /\ heap_end \in Nat
  BY <1>1 DEF HeapInv
<1>3. HeapOK(sg, heap_end, heap_end + Growth) /\ heap_end \in DOMAIN sg
  <2>1. Growth \in Nat /\ Growth >= Header
    BY SizeFacts
  <2>2. HeapOK(sg, heap_end, heap_end + Growth) /\ DOMAIN sg = DOMAIN seg \cup {heap_end}
    <3>1. PICK new : new = sg
      OBVIOUS
    <3>2. PICK top \in Nat : top = heap_end + Growth
      BY <1>2, <2>1
    <3>3. new = AppendSegment(seg, last_seg, heap_end, Growth)
      BY <3>1
    <3> HIDE DEF sg, st
    <3>4. HeapOK(new, heap_end, top) /\ DOMAIN new = DOMAIN seg \cup {heap_end}
      BY <1>2, <2>1, <3>2, <3>3, AppendOK
    <3> QED
      BY <3>1, <3>2, <3>4, Zenon
  <2> QED
    BY <2>2
<1> HIDE DEF sg
<1>4. HeapOK(seg', last_seg', heap_end + Growth)
  BY <1>1, <1>3, CombineBackwardKeeps
<1>5. heap_end' \in Nat /\ heap_end' <= MaxEnd
  BY <1>1, <1>2, SizeFacts DEF ExpandHeap
<1> QED
  BY <1>1, <1>4, <1>5 DEF HeapInv

LEMMA FreeOK == ASSUME HeapInv, NEW s \in DOMAIN seg, Free(s) PROVE HeapInv'
<1> DEFINE fs      == [seg EXCEPT ![s].free = TRUE]
           forward == CombineForward(State(fs, last_seg), s)
           st      == CombineBackward(forward, s)
<1>1. /\ ~halted /\ seg' = st.seg /\ last_seg' = st.last
      /\ UNCHANGED <<heap_end, asked, nullWritten, halted>>
  BY DEF Free
<1>2. HeapOK(seg, last_seg, heap_end)
  BY <1>1 DEF HeapInv
<1>3. HeapOK(fs, last_seg, heap_end) /\ s \in DOMAIN fs
  BY <1>2, SetFreeOK
<1> HIDE DEF fs
<1>4. HeapOK(forward.seg, forward.last, heap_end) /\ s \in DOMAIN forward.seg
  BY <1>3, CombineForwardOK DEF Merged
<1>5. forward = State(forward.seg, forward.last)
  BY DEF CombineForward, State
<1> HIDE DEF forward
<1>6. HeapOK(seg', last_seg', heap_end)
  <2> DEFINE fsg == forward.seg
             fl == forward.last
  <2>1. st = CombineBackward(State(fsg, fl), s)
    BY <1>5
  <2> HIDE DEF fsg, fl, st
  <2>2. HeapOK(fsg, fl, heap_end) /\ s \in DOMAIN fsg
    BY <1>4 DEF fsg, fl
  <2>3. HeapOK(st.seg, st.last, heap_end)
    BY <2>1, <2>2, CombineBackwardKeeps
  <2> QED
    BY <1>1, <2>3
<1> QED
  BY <1>1, <1>6 DEF HeapInv

LEMMA HeapStep == HeapInv /\ [Next]_vars => HeapInv'
<1> SUFFICES ASSUME HeapInv, [Next]_vars PROVE HeapInv'
  OBVIOUS
<1>1. ASSUME NEW n \in Requests, Malloc(n) PROVE HeapInv'
  BY <1>1 DEF HeapInv, Malloc
<1>2. ASSUME NEW s \in DOMAIN seg, TakeSegment(s) PROVE HeapInv'
  BY <1>2, TakeSegmentOK
<1>3. CASE ExpandHeap
  BY <1>3, ExpandHeapOK
<1>4. CASE OutOfFrames
  <2>1. PICK end : HeapOK(seg, last_seg, end)
    BY DEF HeapInv
  <2>2. heap_end' \in Nat
    <3> DEFINE pages == (MaxEnd - heap_end) \div PageSize
    <3>1. MaxEnd - heap_end \in Nat /\ PageSize \in Nat \ {0} /\ heap_end \in Nat
      BY <1>4, HeapSizes DEF HeapAssumption, HeapInv, OutOfFrames
    <3>2. pages \in Nat
      BY <3>1
    <3>3. heap_end' = heap_end + pages * PageSize
      BY <1>4 DEF OutOfFrames
    <3> HIDE DEF pages
    <3> QED
      BY <3>1, <3>2, <3>3
  <2> QED
    BY <1>4, <2>1, <2>2 DEF HeapInv, OutOfFrames
<1>5. ASSUME NEW s \in DOMAIN seg, Free(s) PROVE HeapInv'
  BY <1>5, FreeOK
<1>6. CASE UNCHANGED vars
  BY <1>6 DEF HeapInv, vars
<1> QED
  BY <1>1, <1>2, <1>3, <1>4, <1>5, <1>6 DEF Next

LEMMA HeapAlways == Spec => []HeapInv
<1> QED
  BY InitHeap, HeapStep, PTL DEF Spec

\* Every pointer of the list is NULL or the address of a header.
THEOREM HeapTypeCorrect == Spec => []TypeOK
<1> QED
  BY HeapAlways, HeapInvMeans, PTL

\* The segments tile the heap and the links agree, whatever was allocated and
\* freed in whatever order, until the frames run out.
THEOREM ListStaysOK == Spec => []ListOK
<1> QED
  BY HeapAlways, HeapInvMeans, PTL

-----------------------------------------------------------------------------
(* No two free segments stay side by side.                                   *)

\* Two free neighbours, of which x is the first.
Pair(sg, x) == sg[x].free /\ sg[x].next # NULL /\ sg[sg[x].next].free
Apart(sg) == \A x \in DOMAIN sg : ~Pair(sg, x)

\* The successors of two headers are two; a successor lies behind its header.
LEMMA LinkFacts ==
  ASSUME NEW sg, NEW last, NEW end, HeapOK(sg, last, end)
  PROVE  /\ \A x \in DOMAIN sg : /\ x # NULL /\ x \in Nat /\ sg[x].free \in BOOLEAN
                                 /\ sg[x].next # NULL => sg[x].next \in DOMAIN sg /\ x < sg[x].next
         /\ \A x, y \in DOMAIN sg : sg[x].next # NULL /\ sg[x].next = sg[y].next => x = y
<1>1. ASSUME NEW x \in DOMAIN sg
      PROVE  /\ x # NULL /\ x \in Nat /\ sg[x].free \in BOOLEAN
             /\ sg[x].next # NULL => sg[x].next \in DOMAIN sg /\ x < sg[x].next
  <2>1. x \in Nat \ {NULL} /\ sg[x] \in Fields
    BY DEF HeapOK
  <2>2. sg[x].size \in Nat /\ sg[x].free \in BOOLEAN /\ Header \in Nat \ {0}
    BY <2>1, HeapSizes DEF Fields, HeapAssumption
  <2>3. sg[x].next # NULL => sg[x].next \in DOMAIN sg /\ sg[x].next = x + Header + sg[x].size
    BY DEF HeapOK, LinksOK, TilesOK, EndOf
  <2> QED
    BY <2>1, <2>2, <2>3
<1>2. ASSUME NEW x \in DOMAIN sg, NEW y \in DOMAIN sg, sg[x].next # NULL, sg[x].next = sg[y].next
      PROVE  x = y
  <2>1. sg[sg[x].next].prev = x /\ sg[sg[y].next].prev = y
    BY <1>2 DEF HeapOK, LinksOK
  <2> QED
    BY <1>2, <2>1
<1> QED
  BY <1>1, <1>2

\* combine_forward leaves of the pairs that begin or end at this segment those
\* that end there.
LEMMA ForwardApart ==
  ASSUME NEW sg, NEW last, NEW end, HeapOK(sg, last, end), NEW this \in DOMAIN sg, sg[this].free,
         \A x \in DOMAIN sg : Pair(sg, x) => x = this \/ sg[x].next = this,
         NEW r, r = CombineForward(State(sg, last), this)
  PROVE  \A x \in DOMAIN r.seg : Pair(r.seg, x) =>
            x \in DOMAIN sg /\ Pair(sg, x) /\ x # this /\ sg[x].next = this /\ r.seg[x].next = this
<1> DEFINE n == sg[this].next
           m == sg[n].next
<1>1. CASE n = NULL \/ ~sg[n].free
  <2>1. r.seg = sg
    BY <1>1 DEF CombineForward, State
  <2>2. ~Pair(sg, this)
    BY <1>1 DEF Pair
  <2> QED
    BY <2>1, <2>2
<1>2. CASE n # NULL /\ sg[n].free
  <2>1. /\ n \in DOMAIN sg /\ this \in Nat /\ n \in Nat /\ this < n /\ this # n
        /\ m # NULL => m \in DOMAIN sg /\ m \in Nat /\ n < m
    BY <1>2, LinkFacts
  <2>2. m # this /\ m # n
    <3>1. CASE m = NULL
      BY <2>1, <3>1, LinkFacts
    <3>2. CASE m # NULL
      BY <2>1, <3>2
    <3> QED
      BY <3>1, <3>2
  <2>3. ~(m # NULL /\ sg[m].free)
    <3>1. Pair(sg, n) => n = this \/ m = this
      BY <2>1
    <3> QED
      BY <1>2, <2>1, <2>2, <3>1 DEF Pair
  <2>4. /\ DOMAIN r.seg = DOMAIN sg \ {n}
        /\ \A x \in DOMAIN r.seg :
             r.seg[x] = IF x = this
                        THEN Segment(sg[x].size + sg[n].size + Header, m, sg[x].prev, sg[x].free)
                        ELSE IF x = m THEN [sg[x] EXCEPT !.prev = this]
                        ELSE sg[x]
    <3>1. r.seg = [x \in DOMAIN sg \ {n} |->
                     IF x = this
                     THEN Segment(sg[x].size + sg[n].size + Header, m, sg[x].prev, sg[x].free)
                     ELSE IF x = m THEN [sg[x] EXCEPT !.prev = this]
                     ELSE sg[x]]
      BY <1>2 DEF CombineForward, State
    <3> QED
      BY <3>1
  <2>5. ASSUME NEW x \in DOMAIN r.seg
        PROVE  /\ x \in DOMAIN sg /\ x # n /\ r.seg[x].free = sg[x].free
               /\ r.seg[x].next = IF x = this THEN m ELSE sg[x].next
    <3>0. x \in DOMAIN sg /\ x # n /\ sg[x] \in Fields
      BY <2>4 DEF HeapOK
    <3>1. CASE x = this
      <4>1. r.seg[x] = Segment(sg[x].size + sg[n].size + Header, m, sg[x].prev, sg[x].free)
        BY <2>4, <3>1
      <4>2. r.seg[x].free = sg[x].free /\ r.seg[x].next = m
        BY <4>1 DEF Segment
      <4> QED
        BY <3>0, <3>1, <4>2
    <3>2. CASE x # this /\ x = m
      <4>1. r.seg[x] = [sg[x] EXCEPT !.prev = this]
        BY <2>4, <3>2
      <4> QED
        BY <3>0, <3>2, <4>1 DEF Fields
    <3>3. CASE x # this /\ x # m
      BY <2>4, <3>0, <3>3
    <3> QED
      BY <3>1, <3>2, <3>3
  <2>6. ASSUME NEW x \in DOMAIN r.seg, Pair(r.seg, x)
        PROVE  x \in DOMAIN sg /\ Pair(sg, x) /\ x # this /\ sg[x].next = this /\ r.seg[x].next = this
    <3>1. x # this
      <4>1. SUFFICES ASSUME x = this PROVE FALSE
        OBVIOUS
      <4>2. m # NULL /\ r.seg[m].free
        BY <2>5, <2>6, <4>1 DEF Pair
      <4>3. m \in DOMAIN r.seg
        BY <2>1, <2>2, <2>4, <4>2
      <4> QED
        BY <2>3, <2>5, <4>2, <4>3
    <3>2. sg[x].free /\ sg[x].next # NULL /\ r.seg[sg[x].next].free /\ r.seg[x].next = sg[x].next
      BY <2>5, <2>6, <3>1 DEF Pair
    <3>3. sg[x].next \in DOMAIN r.seg
      BY <2>1, <2>4, <2>5, <3>1, <3>2, LinkFacts
    <3>4. Pair(sg, x)
      BY <2>5, <3>2, <3>3 DEF Pair
    <3> QED
      BY <2>5, <3>1, <3>2, <3>4
  <2> QED
    BY <2>6
<1> QED
  BY <1>1, <1>2

\* combine_backward merges the pair that ends at this segment.
LEMMA BackwardApart ==
  ASSUME NEW sg, NEW last, NEW end, HeapOK(sg, last, end), NEW this \in DOMAIN sg,
         \A x \in DOMAIN sg : Pair(sg, x) => sg[x].next = this,
         NEW r, r = CombineBackward(State(sg, last), this)
  PROVE  Apart(r.seg)
<1> DEFINE p == sg[this].prev
<1>1. ASSUME NEW x \in DOMAIN sg, Pair(sg, x) PROVE x = p /\ p # NULL /\ sg[p].free
  <2>1. sg[x].next = this /\ sg[x].next # NULL /\ sg[x].free
    BY <1>1 DEF Pair
  <2>2. sg[this].prev = x /\ x # NULL
    BY <2>1, LinkFacts DEF HeapOK, LinksOK
  <2> QED
    BY <2>1, <2>2
<1>2. CASE p # NULL /\ sg[p].free
  <2>1. p \in DOMAIN sg /\ sg[p].next = this /\ this # NULL
    BY <1>2, LinkFacts DEF HeapOK, LinksOK
  <2>2. p # this
    BY <2>1, LinkFacts
  <2>3. r = CombineForward(State(sg, last), p)
    BY <1>2 DEF CombineBackward, State
  <2>4. \A x \in DOMAIN r.seg : Pair(r.seg, x) => x \in DOMAIN sg /\ Pair(sg, x) /\ sg[x].next = p
    BY <1>1, <1>2, <2>1, <2>3, ForwardApart
  <2> QED
    BY <2>2, <2>4 DEF Apart
<1>3. CASE ~(p # NULL /\ sg[p].free)
  <2>1. r.seg = sg
    BY <1>3 DEF CombineBackward, State
  <2> QED
    BY <1>1, <1>3, <2>1 DEF Apart
<1> QED
  BY <1>2, <1>3

\* A segment that is taken ends no pair, and neither does what was cut from it.
LEMMA TakenApart ==
  ASSUME NEW sg, NEW last, NEW end, HeapOK(sg, last, end), Apart(sg),
         NEW this \in DOMAIN sg, sg[this].free,
         NEW new, DOMAIN sg \subseteq DOMAIN new, ~new[this].free,
         \A x \in DOMAIN sg \ {this} : new[x].next = sg[x].next /\ new[x].free = sg[x].free,
         \A x \in DOMAIN new \ DOMAIN sg : new[x].next = sg[this].next
  PROVE  Apart(new)
<1> DEFINE m == sg[this].next
<1>1. ASSUME NEW x \in DOMAIN new, Pair(new, x) PROVE FALSE
  <2>1. CASE x \notin DOMAIN sg
    <3>1. m # NULL /\ new[m].free
      BY <1>1, <2>1 DEF Pair
    <3>2. m \in DOMAIN sg /\ m # this
      BY <3>1, LinkFacts
    <3>3. sg[m].free
      BY <3>1, <3>2
    <3> QED
      BY <3>1, <3>3 DEF Apart, Pair
  <2>2. CASE x \in DOMAIN sg
    <3>1. x # this
      BY <1>1, <2>2 DEF Pair
    <3>2. sg[x].free /\ sg[x].next # NULL /\ new[sg[x].next].free
      BY <1>1, <2>2, <3>1 DEF Pair
    <3>3. sg[x].next \in DOMAIN sg /\ sg[x].next # this
      BY <2>2, <3>2, LinkFacts
    <3>4. sg[sg[x].next].free
      BY <3>2, <3>3
    <3> QED
      BY <2>2, <3>2, <3>4 DEF Apart, Pair
  <2> QED
    BY <2>1, <2>2
<1> QED
  BY <1>1 DEF Apart

\* What split leaves: the successor moves to the new segment.
Shape(sg, this, r) ==
    /\ DOMAIN sg \subseteq DOMAIN r
    /\ \A x \in DOMAIN r : r[x] \in Fields
    /\ \A x \in DOMAIN sg \ {this} : r[x].next = sg[x].next /\ r[x].free = sg[x].free
    /\ \A x \in DOMAIN r \ DOMAIN sg : r[x].next = sg[this].next

LEMMA SplitShape ==
  ASSUME NEW sg, NEW last, NEW end, HeapOK(sg, last, end), NEW this \in DOMAIN sg,
         NEW size \in Nat, sg[this].size > size + Header
  PROVE  Shape(sg, this, Split(State(sg, last), this, size).seg)
<1> DEFINE st == State(sg, last)
           r == Split(st, this, size).seg
           new == this + size + Header
           rest == sg[this].size - size - Header
           m == sg[this].next
<1>0. st.seg = sg /\ st.last = last
  BY DEF State
<1>a. \A x \in DOMAIN r : r[x] \in Fields
  BY SplitOK DEF Cut, HeapOK
<1>b. \A x \in DOMAIN sg : sg[x] \in Fields
  BY DEF HeapOK
<1>1. CASE size < Granule \/ rest < Granule
  <2>1. r = sg
    BY <1>0, <1>1 DEF Split
  <2> QED
    BY <1>a, <2>1 DEF Shape
<1>2. CASE ~(size < Granule \/ rest < Granule)
  <2> DEFINE cut == [s \in DOMAIN sg \cup {new} |->
                       IF s = new THEN Segment(rest, m, this, sg[this].free)
                       ELSE IF s = this THEN Segment(size, new, sg[s].prev, sg[s].free)
                       ELSE IF s = m THEN [sg[s] EXCEPT !.prev = new]
                       ELSE sg[s]]
  <2>1. r = cut
    BY <1>0, <1>2 DEF Split, State
  <2>2. new \notin DOMAIN sg
    <3>1. /\ this \in Nat /\ sg[this].size \in Nat /\ Header \in Nat \ {0}
      BY HeapSizes DEF HeapOK, Fields, HeapAssumption
    <3>2. new \in DOMAIN sg => this + Header + sg[this].size <= new
      BY <3>1 DEF HeapOK, TilesOK, EndOf
    <3> QED
      BY <3>1, <3>2
  <2> HIDE DEF new, rest
  <2>3. DOMAIN r = DOMAIN sg \cup {new}
    BY <2>1
  <2>4. r[new].next = m
    <3>1. r[new] = Segment(rest, m, this, sg[this].free)
      BY <2>1
    <3> QED
      BY <3>1 DEF Segment
  <2>5. ASSUME NEW x \in DOMAIN sg \ {this}
        PROVE  r[x].next = sg[x].next /\ r[x].free = sg[x].free
    <3>1. r[x] = IF x = m THEN [sg[x] EXCEPT !.prev = new] ELSE sg[x]
      BY <2>1, <2>2
    <3>2. CASE x = m
      <4>1. r[x] = [sg[x] EXCEPT !.prev = new]
        BY <3>1, <3>2
      <4> QED
        BY <1>b, <4>1 DEF Fields
    <3>3. CASE x # m
      <4>1. r[x] = sg[x]
        BY <3>1, <3>3
      <4> QED
        BY <4>1
    <3> QED
      BY <3>2, <3>3
  <2> HIDE DEF r
  <2>6. Shape(sg, this, r)
    BY <1>a, <2>3, <2>4, <2>5 DEF Shape
  <2> QED
    BY <2>6 DEF r
<1> QED
  BY <1>1, <1>2

\* Behind the last segment there is no header.
LEMMA EndIsNew ==
  ASSUME NEW sg, NEW last, NEW end \in Nat, HeapOK(sg, last, end)
  PROVE  end \notin DOMAIN sg
<1>1. ASSUME NEW x \in DOMAIN sg PROVE x # end
  <2>1. x \in Nat /\ sg[x].size \in Nat /\ Header \in Nat \ {0}
    BY HeapSizes DEF HeapOK, Fields, HeapAssumption
  <2>2. x + Header + sg[x].size <= end
    BY DEF HeapOK, TilesOK, EndOf
  <2> QED
    BY <2>1, <2>2
<1> QED
  BY <1>1

\* A segment at the end makes a pair with last_seg at most.
LEMMA AppendApart ==
  ASSUME NEW sg, NEW last, NEW end \in Nat, HeapOK(sg, last, end), Apart(sg), NEW growth,
         NEW new, new = AppendSegment(sg, last, end, growth)
  PROVE  \A x \in DOMAIN new : Pair(new, x) => new[x].next = end
<1>1. end \notin DOMAIN sg
  BY EndIsNew
<1>2. /\ DOMAIN new = DOMAIN sg \cup {end}
      /\ \A x \in DOMAIN new : new[x] = IF x = end THEN Segment(growth - Header, NULL, last, TRUE)
                                       ELSE IF x = last THEN [sg[x] EXCEPT !.next = end]
                                       ELSE sg[x]
  BY DEF AppendSegment
<1>3. ASSUME NEW x \in DOMAIN new, Pair(new, x) PROVE new[x].next = end
  <2>1. CASE x = end
    <3>1. new[x] = Segment(growth - Header, NULL, last, TRUE)
      BY <1>2, <2>1
    <3>2. new[x].next = NULL
      BY <3>1 DEF Segment
    <3> QED
      BY <1>3, <3>2 DEF Pair
  <2>2. CASE x # end /\ x = last
    <3>1. new[x] = [sg[x] EXCEPT !.next = end] /\ sg[x] \in Fields
      BY <1>2, <2>2 DEF HeapOK
    <3> QED
      BY <3>1 DEF Fields
  <2>3. CASE x # end /\ x # last
    <3>1. x \in DOMAIN sg /\ new[x] = sg[x]
      BY <1>2, <2>3
    <3>2. sg[x].next \in DOMAIN sg /\ sg[x].next # NULL /\ sg[x].free
      BY <1>3, <3>1, LinkFacts DEF Pair
    <3>3. new[sg[x].next].free = sg[sg[x].next].free
      <4> DEFINE y == sg[x].next
      <4>1. y # end /\ y \in DOMAIN new /\ sg[y] \in Fields
        BY <1>1, <1>2, <3>2 DEF HeapOK
      <4>2. CASE y = last
        <5>1. new[y] = [sg[y] EXCEPT !.next = end]
          BY <1>2, <4>1, <4>2
        <5> QED
          BY <4>1, <5>1 DEF Fields
      <4>3. CASE y # last
        BY <1>2, <4>1, <4>3
      <4> QED
        BY <4>2, <4>3
    <3> QED
      BY <1>3, <3>1, <3>2, <3>3 DEF Apart, Pair
  <2> QED
    BY <2>1, <2>2, <2>3
<1> QED
  BY <1>3

-----------------------------------------------------------------------------
(* The actions.                                                              *)

MergeInv == HeapInv /\ Apart(seg)

LEMMA TakeSegmentApart ==
  ASSUME MergeInv, NEW s \in DOMAIN seg, TakeSegment(s) PROVE Apart(seg')
<1> DEFINE st == State(seg, last_seg)
           cut == IF seg[s].size > Size + Header THEN Split(st, s, Size) ELSE st
<1>1. HeapInv /\ Apart(seg)
  BY DEF MergeInv
<1>2. /\ ~halted /\ seg' = [cut.seg EXCEPT ![s].free = FALSE]
  BY DEF TakeSegment
<1>3. HeapOK(seg, last_seg, heap_end)
  BY <1>1, <1>2 DEF HeapInv
<1>4. seg[s].free
  BY DEF TakeSegment, FirstFit, CanTake
<1>5. Shape(seg, s, cut.seg)
  <2>1. CASE seg[s].size > Size + Header
    <3>1. Shape(seg, s, Split(st, s, Size).seg)
      BY <1>1, <1>3, <2>1, SizeFacts, SplitShape
    <3> QED
      BY <2>1, <3>1
  <2>2. CASE ~(seg[s].size > Size + Header)
    <3>1. cut.seg = seg
      BY <2>2 DEF State
    <3> QED
      BY <1>3, <3>1 DEF Shape, HeapOK
  <2> QED
    BY <2>1, <2>2
<1>6. PICK c : c = cut.seg
  OBVIOUS
<1>7. seg' = [c EXCEPT ![s].free = FALSE] /\ Shape(seg, s, c)
  BY <1>2, <1>5, <1>6
<1> HIDE DEF cut
<1>8. /\ DOMAIN seg' = DOMAIN c /\ ~seg'[s].free
      /\ \A x \in DOMAIN c \ {s} : seg'[x] = c[x]
  <2>1. s \in DOMAIN c /\ c[s] \in Fields
    BY <1>7 DEF Shape
  <2>2. seg'[s] = [c[s] EXCEPT !.free = FALSE]
    BY <1>7, <2>1
  <2>3. ~seg'[s].free
    BY <2>1, <2>2 DEF Fields
  <2> QED
    BY <1>7, <2>3
<1>9. PICK new : new = seg'
  OBVIOUS
<1>10. /\ DOMAIN seg \subseteq DOMAIN new /\ ~new[s].free
       /\ \A x \in DOMAIN seg \ {s} : new[x].next = seg[x].next /\ new[x].free = seg[x].free
       /\ \A x \in DOMAIN new \ DOMAIN seg : new[x].next = seg[s].next
  <2>1. /\ DOMAIN new = DOMAIN c /\ ~new[s].free
        /\ \A x \in DOMAIN c \ {s} : new[x] = c[x]
    BY <1>8, <1>9
  <2> QED
    BY <1>7, <2>1 DEF Shape
<1>11. Apart(new)
  BY <1>1, <1>3, <1>4, <1>10, TakenApart
<1> QED
  BY <1>9, <1>11

LEMMA ExpandHeapApart == ASSUME MergeInv, ExpandHeap PROVE Apart(seg')
<1> DEFINE sg == AppendSegment(seg, last_seg, heap_end, Growth)
           st == CombineBackward(State(sg, heap_end), heap_end)
<1>0. HeapInv /\ Apart(seg)
  BY DEF MergeInv
<1>1. /\ ~halted /\ seg' = st.seg
  BY DEF ExpandHeap
<1>2. HeapOK(seg, last_seg, heap_end) /\ heap_end \in Nat
  BY <1>0, <1>1 DEF HeapInv
<1>3. PICK new : new = sg
  OBVIOUS
<1>g. Growth \in Nat /\ Growth >= Header
  BY <1>0, SizeFacts
<1>4. PICK top \in Nat : top = heap_end + Growth
  BY <1>2, <1>g
<1>5. new = AppendSegment(seg, last_seg, heap_end, Growth)
  BY <1>3
<1>6. seg' = CombineBackward(State(new, heap_end), heap_end).seg
  BY <1>1, <1>3
<1> HIDE DEF sg, st
<1>7. HeapOK(new, heap_end, top) /\ DOMAIN new = DOMAIN seg \cup {heap_end}
  <2>1. PICK growth \in Nat : growth = Growth
    BY <1>g
  <2>2. growth >= Header /\ top = heap_end + growth /\ new = AppendSegment(seg, last_seg, heap_end, growth)
    BY <1>g, <1>4, <1>5, <2>1
  <2> QED
    BY <1>2, <1>4, <2>1, <2>2, AppendOK
<1>8. \A x \in DOMAIN new : Pair(new, x) => new[x].next = heap_end
  BY <1>0, <1>2, <1>5, AppendApart
<1>9. heap_end \in DOMAIN new
  BY <1>7
<1> QED
  BY <1>6, <1>7, <1>8, <1>9, BackwardApart

LEMMA FreeApart == ASSUME MergeInv, NEW s \in DOMAIN seg, Free(s) PROVE Apart(seg')
<1> DEFINE fs      == [seg EXCEPT ![s].free = TRUE]
           forward == CombineForward(State(fs, last_seg), s)
           st      == CombineBackward(forward, s)
<1>0. HeapInv /\ Apart(seg)
  BY DEF MergeInv
<1>1. ~halted /\ seg' = st.seg
  BY DEF Free
<1>2. HeapOK(seg, last_seg, heap_end)
  BY <1>0, <1>1 DEF HeapInv
<1>3. HeapOK(fs, last_seg, heap_end) /\ s \in DOMAIN fs
  BY <1>2, SetFreeOK
<1>4. /\ DOMAIN fs = DOMAIN seg /\ fs[s].free
      /\ \A x \in DOMAIN seg : fs[x].next = seg[x].next /\ (x # s => fs[x].free = seg[x].free)
  <2>1. DOMAIN fs = DOMAIN seg
    OBVIOUS
  <2>2. ASSUME NEW x \in DOMAIN seg
        PROVE  /\ fs[x].next = seg[x].next /\ (x # s => fs[x].free = seg[x].free)
               /\ (x = s => fs[x].free)
    <3>1. seg[x] \in Fields
      BY <1>2 DEF HeapOK
    <3>2. CASE x = s
      <4>1. fs[x] = [seg[x] EXCEPT !.free = TRUE]
        BY <3>2
      <4> QED
        BY <3>1, <3>2, <4>1 DEF Fields
    <3>3. CASE x # s
      BY <3>3
    <3> QED
      BY <3>2, <3>3
  <2> QED
    BY <2>1, <2>2
<1> HIDE DEF fs
<1>5. \A x \in DOMAIN fs : Pair(fs, x) => x = s \/ fs[x].next = s
  <2>1. ASSUME NEW x \in DOMAIN fs, Pair(fs, x), x # s, fs[x].next # s PROVE FALSE
    <3>1. x \in DOMAIN seg /\ seg[x].free /\ seg[x].next # NULL /\ fs[seg[x].next].free
      BY <1>4, <2>1 DEF Pair
    <3>2. seg[x].next \in DOMAIN seg /\ seg[x].next # s
      BY <1>2, <1>4, <2>1, <3>1, LinkFacts
    <3>3. seg[seg[x].next].free
      BY <1>4, <3>1, <3>2
    <3> QED
      BY <1>0, <3>1, <3>3 DEF Apart, Pair
  <2> QED
    BY <2>1
<1>6. /\ HeapOK(forward.seg, forward.last, heap_end) /\ s \in DOMAIN forward.seg
  BY <1>3, CombineForwardOK DEF Merged
<1>7. \A x \in DOMAIN forward.seg : Pair(forward.seg, x) => forward.seg[x].next = s
  BY <1>3, <1>4, <1>5, ForwardApart
<1>8. forward = State(forward.seg, forward.last)
  BY DEF CombineForward, State
<1> HIDE DEF forward
<1> DEFINE fsg == forward.seg
           fl == forward.last
<1>9. st = CombineBackward(State(fsg, fl), s)
  BY <1>8
<1> HIDE DEF fsg, fl, st
<1>10. /\ HeapOK(fsg, fl, heap_end) /\ s \in DOMAIN fsg
       /\ \A x \in DOMAIN fsg : Pair(fsg, x) => fsg[x].next = s
  BY <1>6, <1>7 DEF fsg, fl
<1>11. Apart(st.seg)
  BY <1>9, <1>10, BackwardApart
<1> QED
  BY <1>1, <1>11

LEMMA MergeStep == MergeInv /\ [Next]_vars => MergeInv'
<1> SUFFICES ASSUME MergeInv, [Next]_vars PROVE Apart(seg')
  BY HeapStep DEF MergeInv
<1>1. ASSUME NEW n \in Requests, Malloc(n) PROVE Apart(seg')
  BY <1>1 DEF MergeInv, Malloc
<1>2. ASSUME NEW s \in DOMAIN seg, TakeSegment(s) PROVE Apart(seg')
  BY <1>2, TakeSegmentApart
<1>3. CASE ExpandHeap
  BY <1>3, ExpandHeapApart
<1>4. CASE OutOfFrames
  BY <1>4 DEF MergeInv, OutOfFrames
<1>5. ASSUME NEW s \in DOMAIN seg, Free(s) PROVE Apart(seg')
  BY <1>5, FreeApart
<1>6. CASE UNCHANGED vars
  BY <1>6 DEF MergeInv, vars
<1> QED
  BY <1>1, <1>2, <1>3, <1>4, <1>5, <1>6 DEF Next

LEMMA InitMerge == Init => MergeInv
<1> SUFFICES ASSUME Init PROVE Apart(seg)
  BY InitHeap DEF MergeInv
<1>1. DOMAIN seg = {HeapStart} /\ seg[HeapStart].next = NULL
  <2>1. seg = [s \in {HeapStart} |-> Segment(InitPages * PageSize - Header, NULL, NULL, TRUE)]
    BY DEF Init
  <2>2. DOMAIN seg = {HeapStart} /\ seg[HeapStart] = Segment(InitPages * PageSize - Header, NULL, NULL, TRUE)
    BY <2>1
  <2> QED
    BY <2>2 DEF Segment
<1> QED
  BY <1>1 DEF Apart, Pair

LEMMA MergeAlways == Spec => []MergeInv
<1> QED
  BY InitMerge, MergeStep, PTL DEF Spec

\* free merges on both sides, expand_heap with what was last, and what malloc cuts
\* off has a neighbour in use: whatever was allocated and freed, no request is
\* refused that a merge could have met.
THEOREM FreeNeighboursMerged == Spec => []NoAdjacentFree
<1>1. MergeInv => NoAdjacentFree
  BY DEF MergeInv, Apart, Pair, NoAdjacentFree, Headers
<1> QED
  BY <1>1, MergeAlways, PTL

-----------------------------------------------------------------------------
(* What malloc and free show to their callers is an Arena, for every page,    *)
(* header and granule size and every sequence of requests.                    *)
-----------------------------------------------------------------------------
(* Granules.                                                                 *)

LEMMA TimesMono ==
  ASSUME NEW g \in Nat, NEW p \in Nat, NEW q \in Nat, p <= q
  PROVE  g * p <= g * q
OBVIOUS

LEMMA Multiples ==
  ASSUME NEW g \in Nat \ {0}, NEW m \in Nat, NEW r \in Nat, m % g = 0, r % g = 0, r < m
  PROVE  r + g <= m
<1> DEFINE p == m \div g
           q == r \div g
<1>1. p \in Nat /\ q \in Nat /\ m = g * p /\ r = g * q
  OBVIOUS
<1> HIDE DEF p, q
<1>2. ~(p <= q)
  <2>1. SUFFICES ASSUME p <= q PROVE FALSE
    OBVIOUS
  <2>2. g * p <= g * q
    BY <1>1, <2>1, TimesMono
  <2> QED
    BY <1>1, <2>2
<1>3. g * (q + 1) <= g * p
  BY <1>1, <1>2, TimesMono
<1>4. g * (q + 1) = g * q + g
  BY <1>1
<1> QED
  BY <1>1, <1>3, <1>4

\* malloc rounds a request to what an Arena's caller needs, and no more.
LEMMA NeededIsRounded ==
  ASSUME NEW n \in Nat, NEW g \in Nat \ {0}
  PROVE  /\ Round(n, g) \in n .. (n + g - 1) /\ Round(n, g) % g = 0
         /\ \A m \in n .. (n + g - 1) : m % g = 0 => m = Round(n, g)
<1>1. n % g \in 0 .. (g - 1)
  OBVIOUS
<1>2. Round(n, g) \in n .. (n + g - 1)
  BY <1>1 DEF Round
<1>3. Round(n, g) % g = 0
  <2> DEFINE q == n \div g
  <2>1. q \in Nat /\ n = g * q + (n % g)
    OBVIOUS
  <2> HIDE DEF q
  <2>2. CASE n % g = 0
    BY <2>2 DEF Round
  <2>3. CASE n % g # 0
    <3>1. Round(n, g) = g * q + g
      BY <1>1, <2>1, <2>3 DEF Round
    <3>2. g * q + g = g * (q + 1)
      BY <2>1
    <3>3. (g * (q + 1)) % g = 0
      BY <2>1
    <3> QED
      BY <3>1, <3>2, <3>3
  <2> QED
    BY <2>2, <2>3
<1>4. ASSUME NEW m \in n .. (n + g - 1), m % g = 0 PROVE m = Round(n, g)
  <2>1. Round(n, g) \in Nat /\ m \in Nat
    BY <1>2
  <2>2. ~(m < Round(n, g))
    BY <1>2, <1>3, <1>4, <2>1, Multiples
  <2>3. ~(Round(n, g) < m)
    BY <1>2, <1>3, <1>4, <2>1, Multiples
  <2> QED
    BY <2>1, <2>2, <2>3
<1> QED
  BY <1>2, <1>3, <1>4

-----------------------------------------------------------------------------
(* The blocks of a list, as a function of its headers.                       *)

InUse(sg) == {h \in DOMAIN sg : ~sg[h].free}
BlocksOf(sg) == [a \in {h + Header : h \in InUse(sg)} |-> sg[a - Header].size]

LEMMA BlocksAre == Blocks = BlocksOf(seg) /\ Blocks' = BlocksOf(seg')
<1>1. Blocks = BlocksOf(seg)
  BY DEF Blocks, BlocksOf, InUse, Headers
<1>2. Blocks' = BlocksOf(seg')
  BY DEF Blocks, BlocksOf, InUse, Headers
<1> QED
  BY <1>1, <1>2

LEMMA BlockFacts ==
  ASSUME NEW sg, DOMAIN sg \subseteq Nat
  PROVE  /\ DOMAIN BlocksOf(sg) = {h + Header : h \in InUse(sg)}
         /\ \A h \in InUse(sg) : /\ h + Header \in DOMAIN BlocksOf(sg)
                                 /\ BlocksOf(sg)[h + Header] = sg[h].size
         /\ \A a \in DOMAIN BlocksOf(sg) : a - Header \in InUse(sg) /\ a = (a - Header) + Header
<1>1. Header \in Nat
  BY HeapSizes DEF HeapAssumption
<1>2. DOMAIN BlocksOf(sg) = {h + Header : h \in InUse(sg)}
  BY DEF BlocksOf
<1>3. \A h \in InUse(sg) : h \in Nat /\ (h + Header) - Header = h
  BY <1>1 DEF InUse
<1>4. ASSUME NEW h \in InUse(sg)
      PROVE  h + Header \in DOMAIN BlocksOf(sg) /\ BlocksOf(sg)[h + Header] = sg[h].size
  BY <1>3 DEF BlocksOf
<1>5. ASSUME NEW a \in DOMAIN BlocksOf(sg)
      PROVE  a - Header \in InUse(sg) /\ a = (a - Header) + Header
  <2>1. PICK h \in InUse(sg) : a = h + Header
    BY <1>2
  <2> QED
    BY <1>1, <1>3, <2>1
<1> QED
  BY <1>2, <1>4, <1>5

\* Nothing of what is in use has changed.
Same(sg, new) == InUse(new) = InUse(sg) /\ \A h \in InUse(sg) : new[h].size = sg[h].size

LEMMA SameBlocks ==
  ASSUME NEW sg, NEW new, DOMAIN sg \subseteq Nat, DOMAIN new \subseteq Nat, Same(sg, new)
  PROVE  BlocksOf(new) = BlocksOf(sg)
<1>1. {h + Header : h \in InUse(new)} = {h + Header : h \in InUse(sg)}
  BY DEF Same
<1>2. ASSUME NEW a \in {h + Header : h \in InUse(sg)} PROVE new[a - Header].size = sg[a - Header].size
  <2>1. a - Header \in InUse(sg)
    <3>1. PICK h \in InUse(sg) : a = h + Header
      OBVIOUS
    <3>2. h \in Nat /\ Header \in Nat
      BY HeapSizes DEF InUse, HeapAssumption
    <3> QED
      BY <3>1, <3>2
  <2> QED
    BY <2>1 DEF Same
<1> QED
  BY <1>1, <1>2 DEF BlocksOf

LEMMA SameFromUse ==
  ASSUME NEW sg, NEW new, SameInUse(sg, new)
  PROVE  Same(sg, new)
BY DEF SameInUse, Same, InUse

LEMMA SameTrans ==
  ASSUME NEW sg, NEW mid, NEW new, Same(sg, mid), Same(mid, new)
  PROVE  Same(sg, new)
BY DEF Same

\* expand_heap's new segment is free.
LEMMA AppendSame ==
  ASSUME NEW sg, NEW last, NEW end \in Nat, HeapOK(sg, last, end), NEW growth,
         NEW new, new = AppendSegment(sg, last, end, growth)
  PROVE  Same(sg, new)
<1>1. end \notin DOMAIN sg
  BY EndIsNew
<1>2. /\ DOMAIN new = DOMAIN sg \cup {end}
      /\ \A x \in DOMAIN new : new[x] = IF x = end THEN Segment(growth - Header, NULL, last, TRUE)
                                       ELSE IF x = last THEN [sg[x] EXCEPT !.next = end]
                                       ELSE sg[x]
  BY DEF AppendSegment
<1>3. new[end].free
  <2>1. new[end] = Segment(growth - Header, NULL, last, TRUE)
    BY <1>2
  <2> QED
    BY <2>1 DEF Segment
<1>4. ASSUME NEW x \in DOMAIN sg PROVE new[x].free = sg[x].free /\ new[x].size = sg[x].size
  <2>1. sg[x] \in Fields /\ new[x] = IF x = last THEN [sg[x] EXCEPT !.next = end] ELSE sg[x]
    BY <1>1, <1>2 DEF HeapOK
  <2>2. CASE x = last
    <3>1. new[x] = [sg[x] EXCEPT !.next = end]
      BY <2>1, <2>2
    <3> QED
      BY <2>1, <3>1 DEF Fields
  <2>3. CASE x # last
    BY <2>1, <2>3
  <2> QED
    BY <2>2, <2>3
<1>5. InUse(new) = InUse(sg)
  BY <1>2, <1>3, <1>4 DEF InUse
<1> QED
  BY <1>4, <1>5 DEF Same, InUse

-----------------------------------------------------------------------------
(* The refinement.                                                           *)

LEMMA InitIsArena == Init => A!ArenaInit
<1> SUFFICES ASSUME Init PROVE A!ArenaInit
  OBVIOUS
<1>1. seg = [s \in {HeapStart} |-> Segment(InitPages * PageSize - Header, NULL, NULL, TRUE)]
  BY DEF Init
<1>2. DOMAIN seg = {HeapStart} /\ seg[HeapStart].free
  <2>1. DOMAIN seg = {HeapStart} /\ seg[HeapStart] = Segment(InitPages * PageSize - Header, NULL, NULL, TRUE)
    BY <1>1
  <2> QED
    BY <2>1 DEF Segment
<1>3. InUse(seg) = {}
  BY <1>2 DEF InUse
<1>4. BlocksOf(seg) = [a \in {} |-> 0]
  BY <1>3 DEF BlocksOf
<1>5. heap_end \in Nat /\ heap_end > HeapStart /\ asked = 0
  <2>1. PICK whole \in Nat \ {0} : whole = InitPages * PageSize
    BY HeapSizes DEF HeapAssumption
  <2>2. heap_end = HeapStart + whole /\ HeapStart \in Nat
    BY <2>1, HeapSizes DEF Init, HeapAssumption
  <2> QED
    BY <2>1, <2>2 DEF Init
<1> QED
  BY <1>4, <1>5, BlocksAre DEF A!ArenaInit

LEMMA MallocIsRequest ==
  ASSUME NEW n \in Requests, Malloc(n)
  PROVE  A!Request(n)
<1>1. asked = 0 /\ asked' = n /\ seg' = seg /\ heap_end' = heap_end
  BY DEF Malloc
<1> QED
  BY <1>1, BlocksAre DEF A!Request

LEMMA ExpandIsGrow ==
  ASSUME HeapInv, ExpandHeap
  PROVE  A!Grow
<1> DEFINE sg == AppendSegment(seg, last_seg, heap_end, Growth)
           st == CombineBackward(State(sg, heap_end), heap_end)
<1>1. /\ ~halted /\ asked # 0 /\ seg' = st.seg /\ heap_end' = heap_end + Growth /\ asked' = asked
  BY DEF ExpandHeap
<1>2. HeapOK(seg, last_seg, heap_end) /\ heap_end \in Nat
  BY <1>1 DEF HeapInv
<1>3. Growth \in Nat /\ Growth >= Header /\ Header \in Nat \ {0}
  BY SizeFacts, HeapSizes DEF HeapAssumption
<1>4. PICK growth \in Nat : growth = Growth
  BY <1>3
<1>5. PICK top \in Nat : top = heap_end + growth
  BY <1>2, <1>4
<1>6. PICK new : new = sg
  OBVIOUS
<1>7. new = AppendSegment(seg, last_seg, heap_end, growth) /\ growth >= Header
  BY <1>3, <1>4, <1>6
<1>8. PICK r : r = CombineBackward(State(new, heap_end), heap_end)
  OBVIOUS
<1>9. seg' = r.seg
  BY <1>1, <1>6, <1>8
<1> HIDE DEF sg, st
<1>10. HeapOK(new, heap_end, top) /\ DOMAIN new = DOMAIN seg \cup {heap_end}
  BY <1>2, <1>4, <1>5, <1>7, AppendOK
<1>11. heap_end \in DOMAIN new
  BY <1>10
<1>12. HeapOK(r.seg, r.last, top) /\ SameInUse(new, r.seg)
  BY <1>8, <1>10, <1>11, CombineBackwardKeeps
<1>13. Same(seg, new)
  BY <1>2, <1>7, AppendSame
<1>14. Same(seg, r.seg)
  BY <1>12, <1>13, SameFromUse, SameTrans
<1>15. DOMAIN seg \subseteq Nat /\ DOMAIN r.seg \subseteq Nat
  BY <1>2, <1>12 DEF HeapOK
<1>16. BlocksOf(r.seg) = BlocksOf(seg)
  BY <1>14, <1>15, SameBlocks
<1>17. Blocks' = Blocks
  BY <1>9, <1>16, BlocksAre
<1>18. heap_end' > heap_end
  BY <1>1, <1>2, <1>3
<1> QED
  BY <1>1, <1>17, <1>18 DEF A!Grow

\* request_page stops after some pages, or before the first.
LEMMA OutIsGrow ==
  ASSUME HeapInv, OutOfFrames
  PROVE  A!Grow \/ UNCHANGED A!arenaVars
<1>1. asked # 0 /\ asked' = asked /\ seg' = seg /\ heap_end \in Nat /\ ~halted
  BY DEF OutOfFrames, HeapInv
<1>2. Blocks' = Blocks
  BY <1>1, BlocksAre
<1>3. heap_end' >= heap_end /\ heap_end' \in Nat
  <2> DEFINE pages == (MaxEnd - heap_end) \div PageSize
  <2>1. MaxEnd - heap_end \in Nat /\ PageSize \in Nat \ {0}
    BY <1>1, HeapSizes DEF HeapAssumption, HeapInv
  <2>2. pages \in Nat
    BY <2>1
  <2>3. heap_end' = heap_end + pages * PageSize
    BY DEF OutOfFrames
  <2> HIDE DEF pages
  <2>4. pages * PageSize \in Nat
    BY <2>1, <2>2
  <2> QED
    BY <1>1, <2>3, <2>4
<1>4. heap_end' > heap_end \/ heap_end' = heap_end
  BY <1>1, <1>3
<1> QED
  BY <1>1, <1>2, <1>4 DEF A!Grow, A!arenaVars

\* free gives back one block; the merging is not seen.
LEMMA FreeIsRelease ==
  ASSUME HeapInv, NEW s \in DOMAIN seg, Free(s)
  PROVE  \E a \in DOMAIN Blocks : A!Release(a)
<1> DEFINE fs      == [seg EXCEPT ![s].free = TRUE]
           forward == CombineForward(State(fs, last_seg), s)
           st      == CombineBackward(forward, s)
<1>1. /\ ~halted /\ asked = 0 /\ ~seg[s].free /\ seg' = st.seg
      /\ heap_end' = heap_end /\ asked' = asked
  BY DEF Free
<1>2. HeapOK(seg, last_seg, heap_end)
  BY <1>1 DEF HeapInv
<1>3. HeapOK(fs, last_seg, heap_end) /\ s \in DOMAIN fs
  BY <1>2, SetFreeOK
<1>4. /\ DOMAIN fs = DOMAIN seg /\ fs[s].free
      /\ \A x \in DOMAIN seg \ {s} : fs[x] = seg[x]
  <2>1. seg[s] \in Fields /\ fs[s] = [seg[s] EXCEPT !.free = TRUE]
    BY <1>2 DEF HeapOK
  <2>2. fs[s].free
    BY <2>1 DEF Fields
  <2> QED
    BY <2>2
<1> HIDE DEF fs
<1>5. SameInUse(fs, forward.seg) /\ HeapOK(forward.seg, forward.last, heap_end) /\ s \in DOMAIN forward.seg
  BY <1>3, <1>4, CombineForwardKeeps
<1>6. forward = State(forward.seg, forward.last)
  BY DEF CombineForward, State
<1> HIDE DEF forward
<1> DEFINE fsg == forward.seg
           fl == forward.last
<1>7. st = CombineBackward(State(fsg, fl), s)
  BY <1>6
<1> HIDE DEF fsg, fl, st
<1>8. HeapOK(fsg, fl, heap_end) /\ s \in DOMAIN fsg /\ SameInUse(fs, fsg)
  BY <1>5 DEF fsg, fl
<1>9. SameInUse(fsg, st.seg) /\ HeapOK(st.seg, st.last, heap_end)
  BY <1>7, <1>8, CombineBackwardKeeps
<1>10. Same(fs, st.seg)
  BY <1>8, <1>9, SameFromUse, SameTrans
<1>11. /\ DOMAIN seg \subseteq Nat /\ DOMAIN fs \subseteq Nat /\ DOMAIN st.seg \subseteq Nat
       /\ Header \in Nat
  BY <1>2, <1>3, <1>9, HeapSizes DEF HeapOK, HeapAssumption
<1>12. BlocksOf(seg') = BlocksOf(fs)
  BY <1>1, <1>10, <1>11, SameBlocks
<1>13. InUse(fs) = InUse(seg) \ {s} /\ s \in InUse(seg)
  BY <1>1, <1>4 DEF InUse
<1>14. BlocksOf(fs) = [x \in DOMAIN BlocksOf(seg) \ {s + Header} |-> BlocksOf(seg)[x]]
  <2>1. DOMAIN BlocksOf(fs) = DOMAIN BlocksOf(seg) \ {s + Header}
    <3>1. DOMAIN BlocksOf(fs) = {h + Header : h \in InUse(seg) \ {s}}
      BY <1>11, <1>13, BlockFacts
    <3>2. DOMAIN BlocksOf(seg) = {h + Header : h \in InUse(seg)}
      BY <1>11, BlockFacts
    <3>3. \A h \in InUse(seg) : h \in Nat /\ (h + Header = s + Header => h = s)
      BY <1>11, <1>13 DEF InUse
    <3> QED
      BY <1>13, <3>1, <3>2, <3>3
  <2>2. ASSUME NEW x \in DOMAIN BlocksOf(fs) PROVE BlocksOf(fs)[x] = BlocksOf(seg)[x]
    <3>1. x - Header \in InUse(fs) /\ x = (x - Header) + Header
      BY <1>11, BlockFacts
    <3>2. x - Header \in InUse(seg) /\ x - Header # s
      BY <1>13, <3>1
    <3>3. fs[x - Header] = seg[x - Header]
      BY <1>4, <3>2 DEF InUse
    <3>4. BlocksOf(fs)[x] = fs[x - Header].size /\ BlocksOf(seg)[x] = seg[x - Header].size
      BY <1>11, <3>1, <3>2, BlockFacts
    <3> QED
      BY <3>3, <3>4
  <2>3. BlocksOf(fs) = [x \in DOMAIN BlocksOf(fs) |-> BlocksOf(fs)[x]]
    BY DEF BlocksOf
  <2> QED
    BY <2>1, <2>2, <2>3
<1>15. s + Header \in DOMAIN BlocksOf(seg)
  BY <1>11, <1>13, BlockFacts
<1>16. A!Release(s + Header)
  BY <1>1, <1>12, <1>14, BlocksAre DEF A!Release
<1> QED
  BY <1>15, <1>16, BlocksAre

\* malloc hands out a new block behind a header, and no other block changes.
LEMMA TakeIsGrant ==
  ASSUME HeapInv, NEW s \in DOMAIN seg, TakeSegment(s)
  PROVE  A!SomeGrant
<1> DEFINE st == State(seg, last_seg)
           cut == IF seg[s].size > Size + Header THEN Split(st, s, Size) ELSE st
<1>1. /\ ~halted /\ asked # 0 /\ asked' = 0 /\ heap_end' = heap_end
      /\ seg' = [cut.seg EXCEPT ![s].free = FALSE] /\ last_seg' = cut.last
  BY DEF TakeSegment
<1>2. HeapOK(seg, last_seg, heap_end)
  BY <1>1 DEF HeapInv
<1>3. seg[s].free /\ seg[s].size >= Size
  BY DEF TakeSegment, FirstFit, CanTake
<1>4. Cut(seg, heap_end, s, Size, cut)
  <2>1. CASE seg[s].size > Size + Header
    <3>1. Cut(seg, heap_end, s, Size, Split(st, s, Size))
      BY <1>2, <2>1, SizeFacts, SplitOK
    <3> QED
      BY <2>1, <3>1
  <2>2. CASE ~(seg[s].size > Size + Header)
    <3>1. cut.seg = seg /\ cut.last = last_seg
      BY <2>2 DEF State
    <3> QED
      BY <1>2, <1>3, <3>1 DEF Cut
  <2> QED
    BY <2>1, <2>2
<1>5. PICK c, new : c = cut.seg /\ new = seg'
  OBVIOUS
<1>6. /\ new = [c EXCEPT ![s].free = FALSE] /\ HeapOK(c, cut.last, heap_end)
      /\ DOMAIN seg \subseteq DOMAIN c /\ c[s].size >= Size
      /\ \A t \in DOMAIN seg \ {s} : c[t].size = seg[t].size /\ c[t].free = seg[t].free
      /\ \A t \in (DOMAIN c \ DOMAIN seg) \cup {s} : c[t].free
  BY <1>1, <1>3, <1>4, <1>5 DEF Cut
<1> HIDE DEF cut
<1>7. HeapOK(new, cut.last, heap_end) /\ DOMAIN new = DOMAIN c
  BY <1>2, <1>6, SetFreeOK
<1>8. /\ ~new[s].free /\ new[s].size = c[s].size
      /\ \A t \in DOMAIN c \ {s} : new[t] = c[t]
  <2>1. s \in DOMAIN c /\ c[s] \in Fields
    BY <1>6 DEF HeapOK
  <2>2. new[s] = [c[s] EXCEPT !.free = FALSE]
    BY <1>6, <2>1
  <2>3. ~new[s].free /\ new[s].size = c[s].size
    BY <2>1, <2>2 DEF Fields
  <2> QED
    BY <1>6, <2>3
<1>9. /\ InUse(new) = InUse(seg) \cup {s} /\ s \notin InUse(seg)
      /\ \A t \in InUse(seg) : new[t].size = seg[t].size
  <2>1. s \notin InUse(seg) /\ s \in InUse(new)
    BY <1>3, <1>6, <1>7, <1>8 DEF InUse
  <2>2. ASSUME NEW t \in InUse(seg) PROVE t \in InUse(new) /\ new[t].size = seg[t].size
    BY <1>6, <1>7, <1>8, <2>1 DEF InUse
  <2>3. ASSUME NEW t \in InUse(new), t # s PROVE t \in InUse(seg)
    BY <1>6, <1>7, <1>8, <2>3 DEF InUse
  <2> QED
    BY <2>1, <2>2, <2>3
<1>10. /\ DOMAIN seg \subseteq Nat /\ DOMAIN new \subseteq Nat /\ Header \in Nat /\ Size \in Nat
       /\ new[s].size \in Nat /\ s \in Nat /\ heap_end \in Nat /\ s \in DOMAIN new
  BY <1>2, <1>6, <1>7, SizeFacts, HeapSizes DEF HeapOK, HeapAssumption, Fields
<1> DEFINE a == s + Header
           n == new[s].size
<1>11. /\ a \in DOMAIN BlocksOf(new) /\ BlocksOf(new)[a] = n /\ a \notin DOMAIN BlocksOf(seg)
  <2>1. a \in DOMAIN BlocksOf(new) /\ BlocksOf(new)[a] = n
    BY <1>9, <1>10, BlockFacts
  <2>2. a - Header = s
    BY <1>10
  <2>3. a \notin DOMAIN BlocksOf(seg)
    BY <1>9, <1>10, <2>2, BlockFacts
  <2> QED
    BY <2>1, <2>3
<1>12. BlocksOf(new) = [x \in DOMAIN BlocksOf(seg) \cup {a} |-> IF x = a THEN n ELSE BlocksOf(seg)[x]]
  <2>1. DOMAIN BlocksOf(new) = DOMAIN BlocksOf(seg) \cup {a}
    <3>1. DOMAIN BlocksOf(new) = {h + Header : h \in InUse(seg) \cup {s}}
      BY <1>9, <1>10, BlockFacts
    <3>2. DOMAIN BlocksOf(seg) = {h + Header : h \in InUse(seg)}
      BY <1>10, BlockFacts
    <3> QED
      BY <3>1, <3>2
  <2>2. ASSUME NEW x \in DOMAIN BlocksOf(seg) PROVE BlocksOf(new)[x] = BlocksOf(seg)[x]
    <3>1. x - Header \in InUse(seg) /\ x = (x - Header) + Header
      BY <1>10, BlockFacts
    <3> PICK h \in InUse(seg) : h = x - Header /\ x = h + Header
      BY <3>1
    <3>2. h \in InUse(new) /\ new[h].size = seg[h].size
      BY <1>9
    <3>3. BlocksOf(seg)[h + Header] = seg[h].size
      BY <1>10, BlockFacts, Zenon
    <3>4. BlocksOf(new)[h + Header] = new[h].size
      BY <1>10, <3>2, BlockFacts, Zenon
    <3> QED
      BY <3>2, <3>3, <3>4
  <2>3. BlocksOf(new) = [x \in DOMAIN BlocksOf(new) |-> BlocksOf(new)[x]]
    BY DEF BlocksOf
  <2> QED
    BY <1>11, <2>1, <2>2, <2>3
<1>13. a >= HeapStart /\ a + n <= heap_end
  <2>1. HeapStart <= s /\ s + Header + n <= heap_end /\ HeapStart \in Nat
    BY <1>7, <1>10, HeapSizes DEF HeapOK, TilesOK, EndOf, HeapAssumption
  <2> QED
    BY <1>10, <2>1
<1>14. ASSUME NEW b \in DOMAIN BlocksOf(seg) PROVE a + n <= b \/ b + BlocksOf(seg)[b] <= a
  <2>1. PICK t : t = b - Header
    OBVIOUS
  <2>2. t \in InUse(seg) /\ b = t + Header /\ BlocksOf(seg)[b] = seg[t].size
    BY <1>10, <2>1, BlockFacts
  <2>3. t \in DOMAIN new /\ t \in Nat /\ t # s /\ new[t].size = seg[t].size /\ seg[t].size \in Nat
    BY <1>2, <1>6, <1>7, <1>9, <1>10, <2>2 DEF InUse, HeapOK, Fields
  <2>4. s < t => s + Header + n <= t
    BY <1>7, <1>10, <2>3 DEF HeapOK, TilesOK, EndOf
  <2>5. t < s => t + Header + seg[t].size <= s
    BY <1>7, <1>10, <2>3 DEF HeapOK, TilesOK, EndOf
  <2> QED
    BY <1>10, <2>2, <2>3, <2>4, <2>5
<1>15. n >= A!Needed(asked)
  <2>1. asked \in Nat /\ Granule \in Nat \ {0}
    BY HeapSizes DEF HeapInv, HeapAssumption
  <2>2. A!Needed(asked) = Round(asked, Granule)
    BY <2>1, NeededIsRounded DEF A!Needed
  <2> QED
    BY <1>6, <1>8, <2>2 DEF Size
<1> HIDE DEF a, n
<1>16. A!Grant(a, n)
  BY <1>1, <1>5, <1>12, <1>13, <1>14, <1>15, BlocksAre DEF A!Grant
<1>17. a \in DOMAIN Blocks' \ DOMAIN Blocks /\ Blocks'[a] = n
  BY <1>5, <1>11, BlocksAre
<1> QED
  BY <1>16, <1>17 DEF A!SomeGrant

LEMMA StepIsArena == HeapInv /\ [Next]_vars => [A!ArenaNext]_(A!arenaVars)
<1> SUFFICES ASSUME HeapInv, [Next]_vars PROVE A!ArenaNext \/ UNCHANGED A!arenaVars
  OBVIOUS
<1> USE DEF A!ArenaNext
<1>1. ASSUME NEW n \in Requests, Malloc(n) PROVE A!ArenaNext
  BY <1>1, MallocIsRequest
<1>2. ASSUME NEW s \in DOMAIN seg, TakeSegment(s) PROVE A!ArenaNext
  BY <1>2, TakeIsGrant
<1>3. CASE ExpandHeap
  BY <1>3, ExpandIsGrow
<1>4. CASE OutOfFrames
  BY <1>4, OutIsGrow
<1>5. ASSUME NEW s \in DOMAIN seg, Free(s) PROVE A!ArenaNext
  BY <1>5, FreeIsRelease
<1>6. CASE UNCHANGED vars
  <2>1. UNCHANGED <<seg, heap_end, asked>>
    BY <1>6 DEF vars
  <2> QED
    BY <2>1, BlocksAre DEF A!arenaVars
<1> QED
  BY <1>1, <1>2, <1>3, <1>4, <1>5, <1>6 DEF Next

\* Every block that malloc hands out is mapped, as long as the caller needs, and
\* apart from every other, and it stays as it is until it is freed, whatever is
\* split and merged around it.
THEOREM HeapImplementsArena == Spec => ImplementsArena
<1> QED
  BY InitIsArena, StepIsArena, HeapAlways, PTL DEF Spec, ImplementsArena, A!ArenaSpec
=============================================================================
