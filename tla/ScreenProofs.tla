---------------------------- MODULE ScreenProofs ----------------------------
(***************************************************************************)
(* What the screen promises in every size, with every number of planes:       *)
(* draw_line ends where it should and keeps to the line, the marks of the     *)
(* buffer lead write_screen to all that was drawn, and text is a roll of      *)
(* paper however it scrolls.                                                  *)
(***************************************************************************)
EXTENDS Screen, WellFoundedInduction, TLAPS

-----------------------------------------------------------------------------
(* Induction over numbers, by sets, and the functions that recursion defines. *)

\* A set of numbers that is not empty has a least element.
LEMMA Least ==
  ASSUME NEW K \in SUBSET Nat, K # {}
  PROVE  \E k \in K : \A j \in K : k <= j
<1> DEFINE R == OpToRel(<, Nat)
<1>1. IsWellFoundedOn(R, Nat)
  BY NatLessThanWellFounded
<1>2. \A x, y \in Nat : <<y, x>> \in R <=> y < x
  BY DEF OpToRel
<1> HIDE DEF R
<1>3. \E x \in K : \A y \in K : <<y, x>> \notin R
  BY <1>1, WFMin, Zenon
<1>4. PICK x \in K : \A y \in K : <<y, x>> \notin R
  BY <1>3
<1>5. \A y \in K : ~(y < x)
  BY <1>2, <1>4
<1>6. \A y \in K : x <= y
  BY <1>5
<1> QED
  BY <1>6

\* A set of numbers that holds 0 and the successor of each of its elements is Nat.
LEMMA Successors ==
  ASSUME NEW K \in SUBSET Nat, 0 \in K, \A k \in K : k + 1 \in K
  PROVE  K = Nat
<1> SUFFICES ASSUME Nat \ K # {} PROVE FALSE
  OBVIOUS
<1>1. PICK n \in Nat \ K : \A j \in Nat \ K : n <= j
  BY Least
<1>2. n # 0 /\ n - 1 \in Nat /\ n - 1 < n /\ (n - 1) + 1 = n
  BY <1>1
<1>3. n - 1 \in K
  BY <1>1, <1>2
<1> QED
  BY <1>1, <1>2, <1>3

\* What n steps make of x, step k of them being F[k, _]; there is such a function.
Histories(P, n, x, F) ==
  {h \in [0 .. n -> P] : \A k \in 0 .. n : h[k] = IF k = 0 THEN x ELSE F[<<k, h[k - 1]>>]}

LEMMA HistoryExists ==
  ASSUME NEW P, NEW x \in P, NEW F \in [Nat \X P -> P], NEW n \in Nat
  PROVE  Histories(P, n, x, F) # {}
<1> DEFINE T == {m \in Nat : Histories(P, m, x, F) # {}}
<1>1. 0 \in T
  <2> DEFINE h == [k \in 0 .. 0 |-> x]
  <2>1. h \in Histories(P, 0, x, F)
    BY DEF Histories
  <2> QED
    BY <2>1
<1>2. ASSUME NEW m \in T PROVE m + 1 \in T
  <2>1. PICK f \in [0 .. m -> P] : \A k \in 0 .. m : f[k] = IF k = 0 THEN x ELSE F[<<k, f[k - 1]>>]
    BY DEF Histories
  <2>2. m \in Nat /\ m + 1 \in Nat /\ m \in 0 .. m /\ (m + 1) - 1 = m /\ m + 1 # 0
    OBVIOUS
  <2> DEFINE v == F[<<m + 1, f[m]>>]
             h == [k \in 0 .. (m + 1) |-> IF k = m + 1 THEN v ELSE f[k]]
  <2>3. v \in P
    <3>1. <<m + 1, f[m]>> \in Nat \X P
      BY <2>1, <2>2
    <3> QED
      BY <3>1
  <2>4. h \in [0 .. (m + 1) -> P]
    <3> HIDE DEF v
    <3>1. \A k \in 0 .. (m + 1) : k # m + 1 => k \in 0 .. m
      BY <2>2
    <3> QED
      BY <2>1, <2>3, <3>1
  <2>5. \A k \in 0 .. m : h[k] = f[k]
    BY <2>2
  <2>6. h[m + 1] = v
    BY <2>2
  <2> HIDE DEF h
  <2>7. ASSUME NEW k \in 0 .. (m + 1)
        PROVE  h[k] = IF k = 0 THEN x ELSE F[<<k, h[k - 1]>>]
    <3>1. CASE k = m + 1
      BY <2>2, <2>5, <2>6, <3>1
    <3>2. CASE k # m + 1
      <4>1. k \in 0 .. m
        BY <2>2, <3>2
      <4>2. k # 0 => k - 1 \in 0 .. m
        BY <2>2, <4>1
      <4> QED
        BY <2>1, <2>5, <4>1, <4>2
    <3> QED
      BY <3>1, <3>2
  <2>8. h \in Histories(P, m + 1, x, F)
    BY <2>4, <2>7 DEF Histories
  <2> QED
    BY <2>2, <2>8
<1>3. T \subseteq Nat
  OBVIOUS
<1> HIDE DEF T
<1>4. n \in T
  BY <1>1, <1>2, <1>3, Successors
<1> QED
  BY <1>4 DEF T

-----------------------------------------------------------------------------
(* draw_line.                                                                *)

Signs == {-1, 0, 1}

LEMMA SignFacts ==
  ASSUME NEW n \in Int
  PROVE  /\ Sign(n) \in Signs /\ Size(n) \in Nat
         /\ n = Sign(n) * Size(n)
         /\ Sign(n) = 0 => Size(n) = 0
<1>1. CASE n < 0
  <2>1. Sign(n) = -1 /\ Size(n) = -n
    BY <1>1 DEF Sign, Size
  <2>2. -1 * (-n) = n /\ -n \in Nat /\ -1 # 0
    BY <1>1
  <2> QED
    BY <2>1, <2>2 DEF Signs
<1>2. CASE n = 0
  <2>1. Sign(n) = 0 /\ Size(n) = 0
    BY <1>2 DEF Sign, Size
  <2> QED
    BY <2>1, <1>2 DEF Signs
<1>3. CASE n > 0
  <2>1. Sign(n) = 1 /\ Size(n) = n
    BY <1>3 DEF Sign, Size
  <2> QED
    BY <2>1, <1>3 DEF Signs
<1> QED
  BY <1>1, <1>2, <1>3

LEMMA Distributes ==
  ASSUME NEW x \in Int, NEW y \in Int, NEW z \in Int
  PROVE  (x + y) * z = x * z + y * z /\ z * (x + y) = z * x + z * y
OBVIOUS

\* The loop of draw_line with its coordinates called by what they do: a goes one step
\* each time, c only where err is below slow.
Loop(a, c, e, F, S, sa, sc) ==
  \A t \in 1 .. F : /\ a[t] = a[t - 1] + sa
                    /\ c[t] = c[t - 1] + (IF e[t - 1] < S THEN sc ELSE 0)
                    /\ e[t] = e[t - 1] - S + (IF e[t - 1] < S THEN F ELSE 0)

\* After t turns: err is what c is behind or ahead of the line, in units of 1/F, and
\* never as much as a whole step.
At(t, av, cv, ev, F, S, sa, sc, a0, c0, H) ==
  /\ av \in Int /\ cv \in Int /\ ev \in Int
  /\ av - a0 = t * sa
  /\ (cv - c0) * F = sc * (t * S + ev - H)
  /\ 0 <= ev /\ (F > 0 => ev < F)

LEMMA ErrFollows ==
  ASSUME NEW F \in Nat, NEW S \in 0 .. F, NEW sa \in Signs, NEW sc \in Signs,
         NEW a, NEW c, NEW e, NEW a0 \in Int, NEW c0 \in Int,
         NEW H \in Nat, F > 0 => H < F,
         a[0] = a0, c[0] = c0, e[0] = H, Loop(a, c, e, F, S, sa, sc)
  PROVE  \A t \in 0 .. F : At(t, a[t], c[t], e[t], F, S, sa, sc, a0, c0, H)
<1> DEFINE Holds(t) == At(t, a[t], c[t], e[t], F, S, sa, sc, a0, c0, H)
           K == {t \in Nat : t <= F => Holds(t)}
<1>s. sa \in Int /\ sc \in Int
  BY DEF Signs
<1>1. 0 \in K
  <2>1. 0 * sa = 0 /\ 0 * S = 0 /\ sc * 0 = 0 /\ 0 * F = 0
    BY <1>s
  <2>2. a[0] - a0 = 0 /\ c[0] - c0 = 0 /\ 0 + e[0] - H = 0
    OBVIOUS
  <2>3. (c[0] - c0) * F = sc * (0 * S + e[0] - H)
    BY <2>1, <2>2
  <2>4. Holds(0)
    BY <2>1, <2>2, <2>3 DEF At
  <2> HIDE DEF Holds
  <2> QED
    BY <2>4
<1>2. ASSUME NEW t \in K PROVE t + 1 \in K
  <2> SUFFICES ASSUME t + 1 <= F PROVE Holds(t + 1)
    OBVIOUS
  <2>1. t \in Nat /\ t <= F /\ t + 1 \in 1 .. F /\ (t + 1) - 1 = t /\ F > 0
    OBVIOUS
  <2> PICK at, ct, et : at = a[t] /\ ct = c[t] /\ et = e[t]
    OBVIOUS
  <2> PICK an, cn, en : an = a[t + 1] /\ cn = c[t + 1] /\ en = e[t + 1]
    OBVIOUS
  <2>2. At(t, at, ct, et, F, S, sa, sc, a0, c0, H)
    BY <2>1
  <2>3. at \in Int /\ ct \in Int /\ et \in Int /\ 0 <= et /\ et < F
    BY <2>1, <2>2 DEF At
  <2>a. at - a0 = t * sa
    BY <2>2 DEF At
  <2>c. (ct - c0) * F = sc * (t * S + et - H)
    BY <2>2 DEF At
  <2> HIDE DEF K
  <2>4. /\ an = at + sa
        /\ cn = ct + (IF et < S THEN sc ELSE 0)
        /\ en = et - S + (IF et < S THEN F ELSE 0)
    BY <2>1 DEF Loop
  <2>5. (t + 1) * S = t * S + S /\ t * S \in Nat
    BY <2>1
  <2>6. an \in Int /\ an - a0 = (t + 1) * sa
    <3>1. (t + 1) * sa = t * sa + 1 * sa /\ 1 * sa = sa /\ t * sa \in Int
      BY <1>s, <2>1, Distributes
    <3> PICK m \in Int : m = t * sa
      BY <3>1
    <3>2. at - a0 = m
      BY <2>a
    <3>3. an \in Int /\ an - a0 = m + sa
      BY <1>s, <2>3, <2>4, <3>2
    <3> QED
      BY <3>1, <3>3
  <2>7. CASE et < S
    <3>1. cn = ct + sc /\ en = et - S + F
      BY <2>4, <2>7
    <3>2. (cn - c0) * F = (ct - c0) * F + sc * F
      <4> PICK z \in Int : z = ct - c0
        BY <2>3
      <4>1. cn - c0 = z + sc
        BY <1>s, <2>3, <3>1
      <4>2. (z + sc) * F = z * F + sc * F
        BY <1>s, Distributes
      <4> QED
        BY <4>1, <4>2
    <3>3. sc * (t * S + et - H) + sc * F = sc * ((t + 1) * S + en - H)
      <4> PICK z \in Int : z = t * S + et - H
        BY <2>3, <2>5
      <4>1. (t + 1) * S + en - H = z + F
        BY <2>3, <2>5, <3>1
      <4>2. sc * z + sc * F = sc * (z + F)
        BY <1>s, Distributes
      <4> QED
        BY <4>1, <4>2
    <3>4. (cn - c0) * F = sc * ((t + 1) * S + en - H)
      BY <2>c, <3>2, <3>3
    <3>5. cn \in Int /\ en \in Int /\ 0 <= en /\ en < F
      BY <1>s, <2>3, <2>7, <3>1
    <3>6. At(t + 1, an, cn, en, F, S, sa, sc, a0, c0, H)
      BY <2>6, <3>4, <3>5 DEF At
    <3> QED
      BY <3>6
  <2>8. CASE ~(et < S)
    <3>1. cn = ct /\ en = et - S
      BY <2>3, <2>4, <2>8
    <3>2. (t + 1) * S + en - H = t * S + et - H
      BY <2>3, <2>5, <3>1
    <3>3. (cn - c0) * F = sc * ((t + 1) * S + en - H)
      BY <2>c, <3>1, <3>2
    <3>4. cn \in Int /\ en \in Int /\ 0 <= en /\ en < F
      BY <2>3, <2>8, <3>1
    <3>5. At(t + 1, an, cn, en, F, S, sa, sc, a0, c0, H)
      BY <2>6, <3>3, <3>4 DEF At
    <3> QED
      BY <3>5
  <2> QED
    BY <2>7, <2>8
<1>3. K \subseteq Nat
  OBVIOUS
<1> HIDE DEF K
<1>4. K = Nat
  BY <1>1, <1>2, <1>3, Successors
<1>5. ASSUME NEW t \in 0 .. F PROVE Holds(t)
  <2>1. t \in K /\ t <= F
    BY <1>4
  <2> QED
    BY <2>1 DEF K
<1> QED
  BY <1>5
-----------------------------------------------------------------------------
(* What this says of a coordinate.                                           *)

\* v is, after t of F steps, at most half a pixel from the line from v0 to v0 + dv.
Near(v, v0, dv, t, F) == 2 * Size((v - v0) * F - t * dv) <= F

LEMMA SizeBound ==
  ASSUME NEW z \in Int, NEW F \in Int
  PROVE  2 * Size(z) <= F <=> -F <= 2 * z /\ 2 * z <= F
BY DEF Size

LEMMA FastNear ==
  ASSUME NEW F \in Nat, NEW t \in 0 .. F, NEW sa \in Signs, NEW a \in Int, NEW a0 \in Int,
         NEW da \in Int, a - a0 = t * sa, da = sa * F
  PROVE  Near(a, a0, da, t, F)
<1>1. sa \in Int /\ t \in Int
  BY DEF Signs
<1>2. (t * sa) * F = t * (sa * F) /\ t * (sa * F) \in Int
  BY <1>1
<1>3. (a - a0) * F - t * da = 0
  BY <1>2
<1>4. Size(0) = 0
  BY DEF Size
<1> QED
  BY <1>3, <1>4 DEF Near

LEMMA SlowNear ==
  ASSUME NEW F \in Nat, NEW t \in 0 .. F, NEW S \in Nat, NEW sc \in Signs,
         NEW c \in Int, NEW c0 \in Int, NEW dc \in Int, NEW e \in Int, NEW H \in Nat,
         2 * H <= F, F <= 2 * H + 1, 0 <= e, e < F,
         (c - c0) * F = sc * (t * S + e - H), dc = sc * S
  PROVE  Near(c, c0, dc, t, F)
<1>1. sc \in Int /\ t \in Int
  BY DEF Signs
<1>2. t * S \in Int /\ t * dc = sc * (t * S)
  BY <1>1
<1>3. PICK z \in Int : z = e - H
  OBVIOUS
<1>4. PICK m \in Int : m = t * S
  BY <1>2
<1>5. (c - c0) * F = sc * m + sc * z
  <2>1. t * S + e - H = m + z
    BY <1>3, <1>4
  <2> QED
    BY <1>1, <2>1, Distributes
<1>6. sc * m \in Int /\ sc * z \in Int
  BY <1>1
<1>7. (c - c0) * F - t * dc = sc * z
  BY <1>2, <1>4, <1>5, <1>6
<1>8. -F <= 2 * z /\ 2 * z <= F
  BY <1>3
<1>9. 2 * Size(sc * z) <= F
  <2>1. sc * z = z \/ sc * z = -z \/ sc * z = 0
    BY DEF Signs
  <2> QED
    BY <1>6, <1>8, <2>1, SizeBound
<1> QED
  BY <1>7, <1>9 DEF Near

Between(v, v1, v2) == (v1 <= v /\ v <= v2) \/ (v2 <= v /\ v <= v1)

LEMMA NearBetween ==
  ASSUME NEW F \in Nat, F > 0, NEW t \in 0 .. F, NEW v \in Int, NEW v1 \in Int, NEW v2 \in Int,
         Near(v, v1, v2 - v1, t, F)
  PROVE  Between(v, v1, v2) /\ (t = F => v = v2)
<1> PICK v0 \in Int, dv \in Int : v0 = v1 /\ dv = v2 - v1
  OBVIOUS
<1>1. PICK u \in Int : u = v - v0
  OBVIOUS
<1>2. u * F \in Int /\ t * dv \in Int /\ dv * F \in Int
  OBVIOUS
<1>3. -F <= 2 * (u * F - t * dv) /\ 2 * (u * F - t * dv) <= F
  BY <1>1, <1>2, SizeBound DEF Near
<1>4. /\ u <= -1 => u * F <= -F
      /\ u >= 1 => u * F >= F
  OBVIOUS
<1>5. /\ dv >= 0 => 0 <= t * dv /\ t * dv <= dv * F
      /\ dv <= 0 => t * dv <= 0 /\ dv * F <= t * dv
  OBVIOUS
<1>6. PICK r \in Int : r = u - dv
  OBVIOUS
<1>7. r * F = u * F - dv * F
  BY <1>1, <1>6
<1>8. /\ r <= -1 => r * F <= -F
      /\ r >= 1 => r * F >= F
  OBVIOUS
<1>9. r * F \in Int
  OBVIOUS
<1>10. /\ dv >= 0 => 0 <= u /\ r <= 0
       /\ dv <= 0 => r >= 0 /\ u <= 0
  BY <1>2, <1>3, <1>4, <1>5, <1>7, <1>8, <1>9
<1>11. t = F => r = 0
  <2> SUFFICES ASSUME t = F PROVE r = 0
    OBVIOUS
  <2>1. t * dv = dv * F
    OBVIOUS
  <2>2. -F <= 2 * (r * F) /\ 2 * (r * F) <= F
    BY <1>2, <1>3, <1>7, <1>9, <2>1
  <2> QED
    BY <1>8, <1>9, <2>2
<1>12. v2 = v0 + dv /\ v1 = v0
  OBVIOUS
<1> QED
  BY <1>1, <1>6, <1>10, <1>11, <1>12 DEF Between
-----------------------------------------------------------------------------
(* The points of draw_line.                                                  *)

Places == [x : Int, y : Int, err : Int]

\* One turn of the loop of draw_line.
After(p, fast, slow, dd, pd) ==
  LET d == IF p.err < slow THEN dd ELSE pd
  IN  [x |-> p.x + d[1], y |-> p.y + d[2], err |-> p.err - slow + (IF p.err < slow THEN fast ELSE 0)]

\* w is what the loop makes of (x1, y1).
Runs(w, fast, slow, x1, y1, dd, pd) ==
  w = [t \in 0 .. fast |-> IF t = 0 THEN [x |-> x1, y |-> y1, err |-> FirstErr(fast)]
                           ELSE After(w[t - 1], fast, slow, dd, pd)]

\* The points that w goes through.
Track(w, fast) == [k \in 1 .. fast + 1 |-> <<w[k - 1].x, w[k - 1].y>>]

LEMMA AfterIsPlace ==
  ASSUME NEW fast \in Int, NEW slow \in Int, NEW p \in Places,
         NEW dd \in Int \X Int, NEW pd \in Int \X Int
  PROVE  After(p, fast, slow, dd, pd) \in Places
<1>1. p.x \in Int /\ p.y \in Int /\ p.err \in Int
  BY DEF Places
<1>2. /\ dd[1] \in Int /\ dd[2] \in Int /\ pd[1] \in Int /\ pd[2] \in Int
  OBVIOUS
<1> QED
  BY <1>1, <1>2 DEF Places, After

LEMMA LoopRuns ==
  ASSUME NEW fast \in Nat, NEW slow \in Nat, NEW x1 \in Int, NEW y1 \in Int,
         NEW dd \in Int \X Int, NEW pd \in Int \X Int
  PROVE  \E w \in [0 .. fast -> Places] : Runs(w, fast, slow, x1, y1, dd, pd)
<1> PICK x0 : x0 = [x |-> x1, y |-> y1, err |-> FirstErr(fast)]
  OBVIOUS
<1>1. x0 \in Places
  BY DEF Places, FirstErr
<1> DEFINE Then(p) == After(p, fast, slow, dd, pd)
           F == [q \in Nat \X Places |-> Then(q[2])]
<1>2. \A p \in Places : Then(p) \in Places
  BY AfterIsPlace
<1> HIDE DEF Then
<1>3. F \in [Nat \X Places -> Places]
  <2>1. \A q \in Nat \X Places : q[2] \in Places /\ Then(q[2]) \in Places
    BY <1>2
  <2> QED
    BY <2>1
<1>4. \A k \in Nat, p \in Places : F[<<k, p>>] = Then(p)
  OBVIOUS
<1> HIDE DEF F
<1>5. Histories(Places, fast, x0, F) # {}
  BY <1>1, <1>3, HistoryExists
<1>6. PICK w \in [0 .. fast -> Places] :
        \A k \in 0 .. fast : w[k] = IF k = 0 THEN x0 ELSE F[<<k, w[k - 1]>>]
  BY <1>5 DEF Histories
<1>7. ASSUME NEW t \in 0 .. fast PROVE w[t] = IF t = 0 THEN x0 ELSE Then(w[t - 1])
  <2>1. t # 0 => t - 1 \in 0 .. fast /\ t \in Nat
    OBVIOUS
  <2>2. t # 0 => w[t - 1] \in Places
    BY <2>1
  <2> QED
    BY <1>4, <1>6, <2>1, <2>2
<1>8. w = [t \in 0 .. fast |-> IF t = 0 THEN x0 ELSE Then(w[t - 1])]
  BY <1>7
<1> QED
  BY <1>8 DEF Then, Runs

\* The points of the line are what the loop of draw_line makes.
Drawn(line, x1, y1, x2, y2) ==
  LET dx == Size(x2 - x1)
      dy == Size(y2 - y1)
      fast == IF dx > dy THEN dx ELSE dy
      slow == IF dx > dy THEN dy ELSE dx
      dd == <<Sign(x2 - x1), Sign(y2 - y1)>>
      pd == IF dx > dy THEN <<dd[1], 0>> ELSE <<0, dd[2]>>
  IN  \E w \in [0 .. fast -> Places] : Runs(w, fast, slow, x1, y1, dd, pd) /\ line = Track(w, fast)

LEMMA LineRuns ==
  ASSUME NEW x1 \in Int, NEW y1 \in Int, NEW x2 \in Int, NEW y2 \in Int
  PROVE  Drawn(Line(x1, y1, x2, y2), x1, y1, x2, y2)
<1> DEFINE dx == Size(x2 - x1)
           dy == Size(y2 - y1)
           fast == IF dx > dy THEN dx ELSE dy
           slow == IF dx > dy THEN dy ELSE dx
           dd == <<Sign(x2 - x1), Sign(y2 - y1)>>
           pd == IF dx > dy THEN <<dd[1], 0>> ELSE <<0, dd[2]>>
           W == CHOOSE f : Runs(f, fast, slow, x1, y1, dd, pd)
<1>1. Line(x1, y1, x2, y2) = [k \in 1 .. fast + 1 |-> <<W[k - 1].x, W[k - 1].y>>]
  BY DEF Line, Runs, After
<1>2. fast \in Nat /\ slow \in Nat /\ dd \in Int \X Int /\ pd \in Int \X Int
  <2>1. dx \in Nat /\ dy \in Nat /\ Sign(x2 - x1) \in Int /\ Sign(y2 - y1) \in Int
    BY SignFacts DEF Signs
  <2> QED
    BY <2>1
<1> HIDE DEF dx, dy, fast, slow, dd, pd
<1>3. PICK v \in [0 .. fast -> Places] : Runs(v, fast, slow, x1, y1, dd, pd)
  BY <1>2, LoopRuns
<1>4. PICK w : w = W
  OBVIOUS
<1>5. Runs(w, fast, slow, x1, y1, dd, pd)
  BY <1>3, <1>4
<1>6. Line(x1, y1, x2, y2) = Track(w, fast)
  BY <1>1, <1>4 DEF Track
<1> HIDE DEF W
<1>7. w \in [0 .. fast -> Places]
  <2> DEFINE T == {t \in Nat : t <= fast => w[t] \in Places}
  <2>1. 0 \in T
    <3>1. w[0] = [x |-> x1, y |-> y1, err |-> FirstErr(fast)]
      BY <1>2, <1>5 DEF Runs
    <3> QED
      BY <1>2, <3>1 DEF Places, FirstErr
  <2>2. ASSUME NEW t \in T PROVE t + 1 \in T
    <3> SUFFICES ASSUME t + 1 <= fast PROVE w[t + 1] \in Places
      OBVIOUS
    <3>1. t + 1 \in 0 .. fast /\ t + 1 # 0 /\ (t + 1) - 1 = t /\ w[t] \in Places
      BY <1>2
    <3>2. w[t + 1] = After(w[t], fast, slow, dd, pd)
      BY <1>5, <3>1 DEF Runs
    <3> PICK p \in Places : p = w[t]
      BY <3>1
    <3>3. fast \in Int /\ slow \in Int
      BY <1>2
    <3>4. After(p, fast, slow, dd, pd) \in Places
      BY <1>2, <3>3, AfterIsPlace, Zenon
    <3> QED
      BY <3>2, <3>4
  <2>3. T \subseteq Nat
    OBVIOUS
  <2> HIDE DEF T
  <2>4. T = Nat
    BY <2>1, <2>2, <2>3, Successors
  <2>5. \A t \in 0 .. fast : w[t] \in Places
    BY <1>2, <2>4 DEF T
  <2> QED
    BY <1>5, <2>5 DEF Runs
<1>8. \E u \in [0 .. fast -> Places] :
         Runs(u, fast, slow, x1, y1, dd, pd) /\ Line(x1, y1, x2, y2) = Track(u, fast)
  BY <1>5, <1>6, <1>7
<1> QED
  BY <1>8 DEF dx, dy, fast, slow, dd, pd, Drawn

LEMMA CourseNear ==
  ASSUME NEW F \in Nat, NEW S \in 0 .. F, NEW sa \in Signs, NEW sc \in Signs,
         NEW a, NEW c, NEW e, NEW a0 \in Int, NEW c0 \in Int,
         NEW da \in Int, da = sa * F, NEW dc \in Int, dc = sc * S,
         NEW H \in Nat, 2 * H <= F, F <= 2 * H + 1,
         a[0] = a0, c[0] = c0, e[0] = H, Loop(a, c, e, F, S, sa, sc)
  PROVE  \A t \in 0 .. F : Near(a[t], a0, da, t, F) /\ Near(c[t], c0, dc, t, F)
<1>1. F > 0 => H < F
  OBVIOUS
<1>2. \A t \in 0 .. F : At(t, a[t], c[t], e[t], F, S, sa, sc, a0, c0, H)
  BY <1>1, ErrFollows
<1> SUFFICES ASSUME NEW t \in 0 .. F PROVE Near(a[t], a0, da, t, F) /\ Near(c[t], c0, dc, t, F)
  OBVIOUS
<1>3. At(t, a[t], c[t], e[t], F, S, sa, sc, a0, c0, H)
  BY <1>2
<1>4. a[t] \in Int /\ c[t] \in Int /\ e[t] \in Int
  BY <1>3 DEF At
<1> PICK at \in Int, ct \in Int, et \in Int : at = a[t] /\ ct = c[t] /\ et = e[t]
  BY <1>4
<1>5. /\ at - a0 = t * sa
      /\ (ct - c0) * F = sc * (t * S + et - H)
      /\ 0 <= et /\ (F > 0 => et < F)
  BY <1>3 DEF At
<1>6. Near(at, a0, da, t, F)
  BY <1>5, FastNear
<1>7. Near(ct, c0, dc, t, F)
  <2>1. CASE F > 0
    BY <1>5, <2>1, SlowNear
  <2>2. CASE F = 0
    <3>1. t = 0 /\ S = 0
      BY <2>2
    <3>2. ct = c0 /\ sc * 0 = 0
      BY <3>1 DEF Signs
    <3>3. (ct - c0) * F = 0 /\ t * dc = 0
      <4>1. ct - c0 = 0 /\ 0 * F = 0 /\ 0 * dc = 0
        BY <3>2
      <4> QED
        BY <3>1, <4>1
    <3>4. Size(0 - 0) = 0
      BY DEF Size
    <3> QED
      BY <2>2, <3>3, <3>4 DEF Near
  <2> QED
    BY <2>1, <2>2
<1> QED
  BY <1>6, <1>7

\* x is the coordinate that goes one step each time.
LEMMA FlatCourse ==
  ASSUME NEW F \in Nat, NEW S \in 0 .. F, NEW sx \in Signs, NEW sy \in Signs,
         NEW x1 \in Int, NEW y1 \in Int, NEW w \in [0 .. F -> Places],
         NEW dx \in Int, dx = sx * F, NEW dy \in Int, dy = sy * S,
         Runs(w, F, S, x1, y1, <<sx, sy>>, <<sx, 0>>)
  PROVE  /\ w[0].x = x1 /\ w[0].y = y1
         /\ \A t \in 0 .. F : Near(w[t].x, x1, dx, t, F) /\ Near(w[t].y, y1, dy, t, F)
<1> DEFINE a == [t \in 0 .. F |-> w[t].x]
           c == [t \in 0 .. F |-> w[t].y]
           e == [t \in 0 .. F |-> w[t].err]
<1>1. w[0].x = x1 /\ w[0].y = y1 /\ w[0].err = F \div 2
  BY DEF Runs, FirstErr
<1> PICK H \in Nat : H = F \div 2 /\ 2 * H <= F /\ F <= 2 * H + 1
  OBVIOUS
<1>2. a[0] = x1 /\ c[0] = y1 /\ e[0] = H
  BY <1>1
<1>3. Loop(a, c, e, F, S, sx, sy)
  <2> SUFFICES ASSUME NEW t \in 1 .. F
               PROVE  /\ a[t] = a[t - 1] + sx
                      /\ c[t] = c[t - 1] + (IF e[t - 1] < S THEN sy ELSE 0)
                      /\ e[t] = e[t - 1] - S + (IF e[t - 1] < S THEN F ELSE 0)
    BY DEF Loop
  <2>1. t \in 0 .. F /\ t - 1 \in 0 .. F /\ t # 0
    OBVIOUS
  <2>2. w[t] = After(w[t - 1], F, S, <<sx, sy>>, <<sx, 0>>)
    BY <2>1 DEF Runs
  <2> PICK p : p = w[t - 1]
    OBVIOUS
  <2>3. /\ w[t].x = p.x + sx
        /\ w[t].y = p.y + (IF p.err < S THEN sy ELSE 0)
        /\ w[t].err = p.err - S + (IF p.err < S THEN F ELSE 0)
    BY <2>2 DEF After
  <2> QED
    BY <2>1, <2>3
<1> HIDE DEF a, c, e
<1>4. \A t \in 0 .. F : Near(a[t], x1, dx, t, F) /\ Near(c[t], y1, dy, t, F)
  BY <1>2, <1>3, CourseNear
<1> QED
  BY <1>1, <1>4 DEF a, c

\* y is.
LEMMA SteepCourse ==
  ASSUME NEW F \in Nat, NEW S \in 0 .. F, NEW sx \in Signs, NEW sy \in Signs,
         NEW x1 \in Int, NEW y1 \in Int, NEW w \in [0 .. F -> Places],
         NEW dx \in Int, dx = sx * S, NEW dy \in Int, dy = sy * F,
         Runs(w, F, S, x1, y1, <<sx, sy>>, <<0, sy>>)
  PROVE  /\ w[0].x = x1 /\ w[0].y = y1
         /\ \A t \in 0 .. F : Near(w[t].x, x1, dx, t, F) /\ Near(w[t].y, y1, dy, t, F)
<1> DEFINE a == [t \in 0 .. F |-> w[t].y]
           c == [t \in 0 .. F |-> w[t].x]
           e == [t \in 0 .. F |-> w[t].err]
<1>1. w[0].x = x1 /\ w[0].y = y1 /\ w[0].err = F \div 2
  BY DEF Runs, FirstErr
<1> PICK H \in Nat : H = F \div 2 /\ 2 * H <= F /\ F <= 2 * H + 1
  OBVIOUS
<1>2. a[0] = y1 /\ c[0] = x1 /\ e[0] = H
  BY <1>1
<1>3. Loop(a, c, e, F, S, sy, sx)
  <2> SUFFICES ASSUME NEW t \in 1 .. F
               PROVE  /\ a[t] = a[t - 1] + sy
                      /\ c[t] = c[t - 1] + (IF e[t - 1] < S THEN sx ELSE 0)
                      /\ e[t] = e[t - 1] - S + (IF e[t - 1] < S THEN F ELSE 0)
    BY DEF Loop
  <2>1. t \in 0 .. F /\ t - 1 \in 0 .. F /\ t # 0
    OBVIOUS
  <2>2. w[t] = After(w[t - 1], F, S, <<sx, sy>>, <<0, sy>>)
    BY <2>1 DEF Runs
  <2> PICK p : p = w[t - 1]
    OBVIOUS
  <2>3. /\ w[t].y = p.y + sy
        /\ w[t].x = p.x + (IF p.err < S THEN sx ELSE 0)
        /\ w[t].err = p.err - S + (IF p.err < S THEN F ELSE 0)
    BY <2>2 DEF After
  <2> QED
    BY <2>1, <2>3
<1> HIDE DEF a, c, e
<1>4. \A t \in 0 .. F : Near(a[t], y1, dy, t, F) /\ Near(c[t], x1, dx, t, F)
  BY <1>2, <1>3, CourseNear
<1> QED
  BY <1>1, <1>4 DEF a, c

\* The line goes from one point to the other, near to where it should be.
Straight(line, x1, y1, x2, y2) ==
  \E F \in Nat : \E u, v \in [0 .. F -> Int] :
     /\ line = [k \in 1 .. F + 1 |-> <<u[k - 1], v[k - 1]>>]
     /\ u[0] = x1 /\ v[0] = y1
     /\ \A t \in 0 .. F : Near(u[t], x1, x2 - x1, t, F) /\ Near(v[t], y1, y2 - y1, t, F)
     /\ F = 0 => x1 = x2 /\ y1 = y2

LEMMA LineFacts ==
  ASSUME NEW x1 \in Int, NEW y1 \in Int, NEW x2 \in Int, NEW y2 \in Int
  PROVE  Straight(Line(x1, y1, x2, y2), x1, y1, x2, y2)
<1> PICK line : line = Line(x1, y1, x2, y2)
  OBVIOUS
<1>0. Drawn(line, x1, y1, x2, y2)
  BY LineRuns
<1> DEFINE dx == x2 - x1
           dy == y2 - y1
           ax == Size(dx)
           ay == Size(dy)
           sx == Sign(dx)
           sy == Sign(dy)
<1> DEFINE fast == IF ax > ay THEN ax ELSE ay
           slow == IF ax > ay THEN ay ELSE ax
           dd == <<sx, sy>>
           pd == IF ax > ay THEN <<dd[1], 0>> ELSE <<0, dd[2]>>
<1>1. /\ ax \in Nat /\ ay \in Nat /\ sx \in Signs /\ sy \in Signs
      /\ dx = sx * ax /\ dy = sy * ay /\ dx \in Int /\ dy \in Int
  BY SignFacts
<1>2. \E w \in [0 .. fast -> Places] :
         Runs(w, fast, slow, x1, y1, dd, pd) /\ line = Track(w, fast)
  BY <1>0 DEF Drawn
<1>a. (ax = 0 => dx = 0) /\ (ay = 0 => dy = 0)
  BY DEF Size
<1>b. dx = 0 /\ dy = 0 => x1 = x2 /\ y1 = y2
  OBVIOUS
<1> HIDE DEF dx, dy, ax, ay, sx, sy
<1>3. PICK w \in [0 .. fast -> Places] :
         Runs(w, fast, slow, x1, y1, dd, pd) /\ line = Track(w, fast)
  BY <1>2
<1>4. fast \in Nat /\ slow \in 0 .. fast
  BY <1>1
<1>5. /\ w[0].x = x1 /\ w[0].y = y1
      /\ \A t \in 0 .. fast : Near(w[t].x, x1, dx, t, fast) /\ Near(w[t].y, y1, dy, t, fast)
  <2>1. CASE ax > ay
    <3>1. fast = ax /\ slow = ay /\ pd = <<sx, 0>>
      BY <2>1
    <3>2. dx = sx * fast /\ dy = sy * slow
      BY <1>1, <3>1
    <3>3. Runs(w, fast, slow, x1, y1, <<sx, sy>>, <<sx, 0>>)
      BY <1>3, <3>1
    <3> HIDE DEF fast, slow, pd
    <3> QED
      BY <1>1, <1>4, <3>2, <3>3, FlatCourse
  <2>2. CASE ~(ax > ay)
    <3>1. fast = ay /\ slow = ax /\ pd = <<0, sy>>
      BY <2>2
    <3>2. dx = sx * slow /\ dy = sy * fast
      BY <1>1, <3>1
    <3>3. Runs(w, fast, slow, x1, y1, <<sx, sy>>, <<0, sy>>)
      BY <1>3, <3>1
    <3> HIDE DEF fast, slow, pd
    <3> QED
      BY <1>1, <1>4, <3>2, <3>3, SteepCourse
  <2> QED
    BY <2>1, <2>2
<1>6. fast = 0 => x1 = x2 /\ y1 = y2
  <2> SUFFICES ASSUME fast = 0 PROVE x1 = x2 /\ y1 = y2
    OBVIOUS
  <2>1. ax = 0 /\ ay = 0
    BY <1>1
  <2> QED
    BY <2>1, <1>a, <1>b
<1> HIDE DEF fast, slow, dd, pd
<1> DEFINE u == [t \in 0 .. fast |-> w[t].x]
           v == [t \in 0 .. fast |-> w[t].y]
<1>7. u \in [0 .. fast -> Int] /\ v \in [0 .. fast -> Int]
  BY DEF Places
<1>8. line = [k \in 1 .. fast + 1 |-> <<u[k - 1], v[k - 1]>>]
  <2>1. \A k \in 1 .. fast + 1 : k - 1 \in 0 .. fast
    BY <1>4
  <2>2. \A k \in 1 .. fast + 1 : <<w[k - 1].x, w[k - 1].y>> = <<u[k - 1], v[k - 1]>>
    BY <2>1
  <2> QED
    BY <1>3, <2>2 DEF Track
<1>9. u[0] = x1 /\ v[0] = y1
  BY <1>4, <1>5
<1>10. \A t \in 0 .. fast : Near(u[t], x1, x2 - x1, t, fast) /\ Near(v[t], y1, y2 - y1, t, fast)
  BY <1>5 DEF dx, dy
<1> HIDE DEF u, v
<1> QED
  BY <1>4, <1>6, <1>7, <1>8, <1>9, <1>10 DEF Straight

\* A line ends at its ends, and every point of it lies within the box of its ends.
InBox(line, x1, y1, x2, y2) ==
  \E F \in Nat :
     /\ line \in [1 .. F + 1 -> Int \X Int]
     /\ line[1] = <<x1, y1>> /\ line[F + 1] = <<x2, y2>>
     /\ \A k \in 1 .. F + 1 :
          /\ Near(line[k][1], x1, x2 - x1, k - 1, F) /\ Near(line[k][2], y1, y2 - y1, k - 1, F)
          /\ Between(line[k][1], x1, x2) /\ Between(line[k][2], y1, y2)

LEMMA LineInBox ==
  ASSUME NEW x1 \in Int, NEW y1 \in Int, NEW x2 \in Int, NEW y2 \in Int
  PROVE  InBox(Line(x1, y1, x2, y2), x1, y1, x2, y2)
<1> PICK line : line = Line(x1, y1, x2, y2)
  OBVIOUS
<1>a. Straight(line, x1, y1, x2, y2)
  BY LineFacts
<1>0. PICK F \in Nat : \E u, v \in [0 .. F -> Int] :
           /\ line = [k \in 1 .. F + 1 |-> <<u[k - 1], v[k - 1]>>]
           /\ u[0] = x1 /\ v[0] = y1
           /\ \A t \in 0 .. F : Near(u[t], x1, x2 - x1, t, F) /\ Near(v[t], y1, y2 - y1, t, F)
           /\ F = 0 => x1 = x2 /\ y1 = y2
  BY <1>a DEF Straight
<1>1. PICK u \in [0 .. F -> Int], v \in [0 .. F -> Int] :
           /\ line = [k \in 1 .. F + 1 |-> <<u[k - 1], v[k - 1]>>]
           /\ u[0] = x1 /\ v[0] = y1
           /\ \A t \in 0 .. F : Near(u[t], x1, x2 - x1, t, F) /\ Near(v[t], y1, y2 - y1, t, F)
           /\ F = 0 => x1 = x2 /\ y1 = y2
  BY <1>0
<1>2. line \in [1 .. F + 1 -> Int \X Int] /\ line[1] = <<x1, y1>>
  <2>1. \A k \in 1 .. F + 1 : k - 1 \in 0 .. F
    OBVIOUS
  <2>2. 1 \in 1 .. F + 1 /\ 1 - 1 = 0
    OBVIOUS
  <2> QED
    BY <1>1, <2>1, <2>2
<1>3. ASSUME NEW t \in 0 .. F
      PROVE  /\ t = F => u[t] = x2 /\ v[t] = y2
             /\ Between(u[t], x1, x2)
             /\ Between(v[t], y1, y2)
  <2> PICK ut \in Int, vt \in Int : ut = u[t] /\ vt = v[t]
    BY <1>1
  <2>1. CASE F = 0
    <3>1. t = 0 /\ ut = x1 /\ vt = y1 /\ x1 = x2 /\ y1 = y2
      BY <1>1, <2>1
    <3> QED
      BY <3>1 DEF Between
  <2>2. CASE F > 0
    <3>1. Near(ut, x1, x2 - x1, t, F) /\ Near(vt, y1, y2 - y1, t, F)
      BY <1>1
    <3>2. Between(ut, x1, x2) /\ (t = F => ut = x2)
      BY <2>2, <3>1, NearBetween
    <3>3. Between(vt, y1, y2) /\ (t = F => vt = y2)
      BY <2>2, <3>1, NearBetween
    <3> QED
      BY <3>2, <3>3
  <2> QED
    BY <2>1, <2>2
<1>4. line[F + 1] = <<x2, y2>>
  <2>1. F + 1 \in 1 .. F + 1 /\ (F + 1) - 1 = F /\ F \in 0 .. F
    OBVIOUS
  <2> QED
    BY <1>1, <1>3, <2>1
<1>5. ASSUME NEW k \in 1 .. F + 1
      PROVE  /\ Near(line[k][1], x1, x2 - x1, k - 1, F) /\ Near(line[k][2], y1, y2 - y1, k - 1, F)
             /\ Between(line[k][1], x1, x2) /\ Between(line[k][2], y1, y2)
  <2>1. k - 1 \in 0 .. F
    OBVIOUS
  <2>2. line[k][1] = u[k - 1] /\ line[k][2] = v[k - 1]
    BY <1>1
  <2> QED
    BY <1>1, <1>3, <2>1, <2>2
<1> QED
  BY <1>2, <1>4, <1>5 DEF InBox

\* draw_line, for every two points: from one to the other, in steps to a neighbour,
\* and nowhere more than half a pixel from the line.
LEMMA LinesAreRight == RightLines
<1> SUFFICES ASSUME NEW x1 \in 0 .. Far, NEW y1 \in 0 .. Far, NEW x2 \in 0 .. Far, NEW y2 \in 0 .. Far
             PROVE  LET line == Line(x1, y1, x2, y2)
                        dx == x2 - x1
                        dy == y2 - y1
                        fast == Len(line) - 1
                    IN  /\ line[1] = <<x1, y1>> /\ Last(line) = <<x2, y2>>
                        /\ \A t \in 0 .. fast :
                             /\ 2 * Size((line[t + 1][1] - x1) * fast - t * dx) <= fast
                             /\ 2 * Size((line[t + 1][2] - y1) * fast - t * dy) <= fast
  BY DEF RightLines
<1> PICK line : line = Line(x1, y1, x2, y2)
  OBVIOUS
<1>0. InBox(line, x1, y1, x2, y2)
  BY LineInBox
<1>1. PICK F \in Nat :
     /\ line \in [1 .. F + 1 -> Int \X Int]
     /\ line[1] = <<x1, y1>> /\ line[F + 1] = <<x2, y2>>
     /\ \A k \in 1 .. F + 1 :
          Near(line[k][1], x1, x2 - x1, k - 1, F) /\ Near(line[k][2], y1, y2 - y1, k - 1, F)
  BY <1>0 DEF InBox
<1>2. line \in Seq(Int \X Int) /\ Len(line) = F + 1
  BY <1>1
<1>3. Last(line) = <<x2, y2>>
  BY <1>1, <1>2 DEF Last
<1>4. ASSUME NEW t \in 0 .. F
      PROVE  /\ 2 * Size((line[t + 1][1] - x1) * F - t * (x2 - x1)) <= F
             /\ 2 * Size((line[t + 1][2] - y1) * F - t * (y2 - y1)) <= F
  <2>1. t + 1 \in 1 .. F + 1 /\ (t + 1) - 1 = t
    OBVIOUS
  <2>2. Near(line[t + 1][1], x1, x2 - x1, t, F) /\ Near(line[t + 1][2], y1, y2 - y1, t, F)
    BY <1>1, <2>1
  <2> QED
    BY <2>2 DEF Near
<1>5. Len(line) - 1 = F
  BY <1>2
<1> QED
  BY <1>1, <1>3, <1>4, <1>5

\* Every line of a picture is right, wherever its ends are.
THEOREM LinesAlwaysRight == Spec => []LinesRight
<1>1. LinesRight
  BY LinesAreRight DEF LinesRight
<1> QED
  BY <1>1, PTL
-----------------------------------------------------------------------------
(* The bytes of the buffer and of its marks.                                 *)

Memories == [Bytes -> SUBSET Planes]

LEMMA Sizes ==
  /\ GWide \in Nat /\ GWide > 0 /\ GHigh \in Nat /\ GHigh > 0 /\ FontHeight \in Nat /\ FontHeight > 0
  /\ Width = GWide /\ Height \in Nat /\ Height > 0 /\ Height = GHigh * FontHeight
<1>1. /\ GWide \in Nat /\ GWide > 0 /\ GHigh \in Nat /\ GHigh > 0 /\ FontHeight \in Nat /\ FontHeight > 0
  BY ScreenSizes
<1>2. GHigh * FontHeight \in Nat /\ GHigh * FontHeight > 0
  BY <1>1
<1> QED
  BY <1>1, <1>2 DEF Width, Height

\* The screen ends where the marks of the rows begin, and these where those of the
\* columns begin; the memory goes on for a row of characters behind the screen.
LEMMA Layout ==
  \E A \in Nat, R \in Nat :
    /\ \A y : RowMark(y) = A + y
    /\ \A x : ColumnMark(x) = A + Height + x
    /\ A = Width * Height /\ R = Width * FontHeight /\ FontHeight <= R
    /\ Bytes = 0 .. A + R + Height + Width
<1> PICK W \in Nat, H \in Nat, F \in Nat : W = Width /\ H = Height /\ F = FontHeight /\ W > 0
  BY Sizes
<1>1. W * H \in Nat /\ W * F \in Nat /\ W * (H + F) = W * H + W * F /\ F <= W * F
  OBVIOUS
<1> QED
  BY <1>1 DEF RowMark, ColumnMark, Bytes

LEMMA OnScreen ==
  ASSUME NEW x \in 0 .. Width - 1, NEW y \in 0 .. Height - 1
  PROVE  /\ Pixel(x, y) \in Bytes /\ RowMark(y) \in Bytes /\ ColumnMark(x) \in Bytes
         /\ Pixel(x, y) \in Int /\ Pixel(x, y) < RowMark(0)
         /\ RowMark(0) <= RowMark(y) /\ RowMark(y) <= ColumnMark(Width - 1)
         /\ RowMark(0) <= ColumnMark(x) /\ ColumnMark(x) <= ColumnMark(Width - 1)
         /\ RowMark(0) \in Int /\ ColumnMark(Width - 1) \in Int
<1> PICK A \in Nat, R \in Nat :
    /\ \A n : RowMark(n) = A + n
    /\ \A n : ColumnMark(n) = A + Height + n
    /\ A = Width * Height /\ R = Width * FontHeight /\ FontHeight <= R
    /\ Bytes = 0 .. A + R + Height + Width
  BY Layout
<1> PICK W \in Nat, H \in Nat : W = Width /\ H = Height /\ W > 0 /\ H > 0
  BY Sizes
<1>1. y * W \in Nat /\ y * W <= (H - 1) * W /\ (H - 1) * W = W * H - W
  OBVIOUS
<1>2. Pixel(x, y) \in Nat /\ Pixel(x, y) < A
  BY <1>1 DEF Pixel
<1>3. A \in Nat /\ x \in 0 .. W - 1 /\ y \in 0 .. H - 1 /\ Bytes = 0 .. A + R + H + W
  OBVIOUS
<1>4. /\ RowMark(0) = A /\ RowMark(y) = A + y
      /\ ColumnMark(x) = A + H + x /\ ColumnMark(Width - 1) = A + H + (W - 1)
  <2>1. RowMark(0) = A + 0 /\ RowMark(y) = A + y
    OBVIOUS
  <2>2. ColumnMark(x) = A + Height + x /\ ColumnMark(Width - 1) = A + Height + (Width - 1)
    OBVIOUS
  <2> QED
    BY <1>3, <2>1, <2>2
<1>5. x \in Nat /\ x < W /\ y \in Nat /\ y < H
  OBVIOUS
<1>6. /\ A + y \in Nat /\ A + H + x \in Nat /\ A + H + (W - 1) \in Nat
      /\ A <= A + y /\ A + y <= A + H + (W - 1)
      /\ A <= A + H + x /\ A + H + x <= A + H + (W - 1)
      /\ A + H + (W - 1) <= A + R + H + W
  BY <1>5
<1>7. /\ Pixel(x, y) \in 0 .. A + R + H + W
      /\ A + y \in 0 .. A + R + H + W /\ A + H + x \in 0 .. A + R + H + W
  BY <1>2, <1>6
<1> QED
  <2>1. Pixel(x, y) \in Bytes /\ RowMark(y) \in Bytes /\ ColumnMark(x) \in Bytes
    BY <1>3, <1>4, <1>7, Zenon
  <2>2. Pixel(x, y) \in Int /\ Pixel(x, y) < RowMark(0)
    BY <1>2, <1>4
  <2>3. RowMark(0) \in Int /\ ColumnMark(Width - 1) \in Int
    <3>1. A \in Int /\ A + H + (W - 1) \in Int
      BY <1>6
    <3> QED
      BY <1>4, <3>1, Zenon
  <2>4. RowMark(0) <= RowMark(y) /\ RowMark(y) <= ColumnMark(Width - 1)
    BY <1>4, <1>6, Zenon
  <2>5. RowMark(0) <= ColumnMark(x) /\ ColumnMark(x) <= ColumnMark(Width - 1)
    BY <1>4, <1>6, Zenon
  <2> QED
    BY <2>1, <2>2, <2>3, <2>4, <2>5, Zenon

LEMMA BelowScreen ==
  ASSUME NEW x \in 0 .. Width - 1, NEW y \in Height .. Height + FontHeight - 1
  PROVE  /\ Pixel(x, y) \in Bytes /\ RowMark(y) \in Bytes /\ ColumnMark(x) \in Bytes
         /\ Pixel(x, y) \in Int /\ RowMark(y) \in Int /\ ColumnMark(x) \in Int
         /\ RowMark(0) \in Int /\ RowMark(0) <= Pixel(x, y)
         /\ RowMark(0) <= RowMark(y) /\ RowMark(0) <= ColumnMark(x)
<1> PICK A \in Nat, R \in Nat :
    /\ \A n : RowMark(n) = A + n
    /\ \A n : ColumnMark(n) = A + Height + n
    /\ A = Width * Height /\ R = Width * FontHeight /\ FontHeight <= R
    /\ Bytes = 0 .. A + R + Height + Width
  BY Layout
<1> PICK W \in Nat, H \in Nat, F \in Nat :
        W = Width /\ H = Height /\ F = FontHeight /\ W > 0 /\ H > 0 /\ F > 0
  BY Sizes
<1> PICK j \in Nat : j = y - H /\ j <= F - 1
  OBVIOUS
<1>1. y * W = W * H + j * W /\ j * W \in Nat /\ j * W <= (F - 1) * W /\ (F - 1) * W = W * F - W
  OBVIOUS
<1>2. Pixel(x, y) \in Nat /\ A <= Pixel(x, y) /\ Pixel(x, y) <= A + R
  BY <1>1 DEF Pixel
<1>3. x \in 0 .. W - 1 /\ y = H + j /\ j \in Nat /\ j <= R /\ Bytes = 0 .. A + R + H + W
  OBVIOUS
<1>4. RowMark(0) = A + 0 /\ RowMark(y) = A + y /\ ColumnMark(x) = A + H + x
  OBVIOUS
<1>5. /\ A + y \in Nat /\ A <= A + y /\ A + y <= A + R + H + W
      /\ A + H + x \in Nat /\ A <= A + H + x /\ A + H + x <= A + R + H + W
  BY <1>3
<1>6. /\ Pixel(x, y) \in 0 .. A + R + H + W
      /\ A + y \in 0 .. A + R + H + W /\ A + H + x \in 0 .. A + R + H + W
  BY <1>2, <1>5
<1> QED
  BY <1>2, <1>3, <1>4, <1>5, <1>6

\* Two pixels never share a byte.
LEMMA PixelInjective ==
  ASSUME NEW p \in Pixels, NEW q \in Pixels, Pixel(p[1], p[2]) = Pixel(q[1], q[2])
  PROVE  p = q
<1> PICK W \in Nat : W = Width /\ W > 0
  BY Sizes
<1> PICK x \in Int, y \in Int, u \in Int, v \in Int :
        p = <<x, y>> /\ q = <<u, v>> /\ x \in 0 .. W - 1 /\ u \in 0 .. W - 1
  BY Sizes DEF Pixels
<1>1. x + y * W = u + v * W
  BY DEF Pixel
<1> PICK d \in Int : d = y - v
  OBVIOUS
<1>2. d * W = y * W - v * W /\ d * W \in Int /\ y * W \in Int /\ v * W \in Int
  OBVIOUS
<1>3. d * W = u - x
  BY <1>1, <1>2
<1>4. (d >= 1 => d * W >= W) /\ (d <= -1 => d * W <= -W)
  OBVIOUS
<1>5. d = 0
  BY <1>2, <1>3, <1>4
<1> QED
  BY <1>1, <1>5
-----------------------------------------------------------------------------
(* Drawing.                                                                  *)

LEMMA WriteFacts ==
  ASSUME NEW m \in Memories, NEW x, NEW y, NEW c \in SUBSET Planes,
         Pixel(x, y) \in Bytes, RowMark(y) \in Bytes, ColumnMark(x) \in Bytes,
         Pixel(x, y) # RowMark(y), Pixel(x, y) # ColumnMark(x)
  PROVE  /\ write_pixel4p(m, x, y, c) \in Memories
         /\ write_pixel4p(m, x, y, c)[Pixel(x, y)] = c
         /\ write_pixel4p(m, x, y, c)[RowMark(y)] = Mark
         /\ write_pixel4p(m, x, y, c)[ColumnMark(x)] = Mark
         /\ \A a \in Bytes : a \notin {Pixel(x, y), RowMark(y), ColumnMark(x)}
               => write_pixel4p(m, x, y, c)[a] = m[a]
<1> PICK i, j, k : i = Pixel(x, y) /\ j = RowMark(y) /\ k = ColumnMark(x)
  OBVIOUS
<1>1. write_pixel4p(m, x, y, c) = [m EXCEPT ![i] = c, ![j] = Mark, ![k] = Mark]
  BY DEF write_pixel4p
<1>2. i \in Bytes /\ j \in Bytes /\ k \in Bytes /\ i # j /\ i # k
  OBVIOUS
<1>3. Mark \in SUBSET Planes
  BY DEF Mark
<1> QED
  BY <1>1, <1>2, <1>3 DEF Memories

\* What a write changes whose pixel may be a mark itself: nothing else.
LEMMA WriteElsewhere ==
  ASSUME NEW m \in Memories, NEW x, NEW y, NEW c \in SUBSET Planes,
         Pixel(x, y) \in Bytes, RowMark(y) \in Bytes, ColumnMark(x) \in Bytes
  PROVE  /\ write_pixel4p(m, x, y, c) \in Memories
         /\ \A a \in Bytes : a \notin {Pixel(x, y), RowMark(y), ColumnMark(x)}
               => write_pixel4p(m, x, y, c)[a] = m[a]
<1> PICK i, j, k : i = Pixel(x, y) /\ j = RowMark(y) /\ k = ColumnMark(x)
  OBVIOUS
<1>1. write_pixel4p(m, x, y, c) = [m EXCEPT ![i] = c, ![j] = Mark, ![k] = Mark]
  BY DEF write_pixel4p
<1>2. i \in Bytes /\ j \in Bytes /\ k \in Bytes /\ Mark \in SUBSET Planes
  BY DEF Mark
<1> QED
  BY <1>1, <1>2 DEF Memories

\* What every point of ps keeps, all of them keep.
LEMMA PointsKeep ==
  ASSUME NEW M, NEW m \in M, NEW ps, Len(ps) \in Nat, NEW c,
         \A k \in 1 .. Len(ps), v \in M : write_pixel4p(v, ps[k][1], ps[k][2], c) \in M
  PROVE  Points(m, ps, c) \in M
<1> PICK n \in Nat : n = Len(ps)
  OBVIOUS
<1> DEFINE Then(k, v) == write_pixel4p(v, ps[k][1], ps[k][2], c)
           F == [q \in Nat \X M |-> IF q[1] \in 1 .. n THEN Then(q[1], q[2]) ELSE q[2]]
           Along(f) == f = [k \in 0 .. n |-> IF k = 0 THEN m ELSE Then(k, f[k - 1])]
           w == CHOOSE f : Along(f)
<1>1. \A k \in 1 .. n, v \in M : Then(k, v) \in M
  OBVIOUS
<1>2. Points(m, ps, c) = w[n]
  BY DEF Points
<1> HIDE DEF Then
<1>3. F \in [Nat \X M -> M]
  <2>1. \A q \in Nat \X M : q[1] \in Nat /\ q[2] \in M
    OBVIOUS
  <2>2. \A q \in Nat \X M : (IF q[1] \in 1 .. n THEN Then(q[1], q[2]) ELSE q[2]) \in M
    BY <1>1, <2>1
  <2> QED
    BY <2>2
<1>4. \A k \in 1 .. n, v \in M : F[<<k, v>>] = Then(k, v)
  OBVIOUS
<1> HIDE DEF F
<1>5. Histories(M, n, m, F) # {}
  BY <1>3, HistoryExists
<1>6. PICK h \in [0 .. n -> M] : \A k \in 0 .. n : h[k] = IF k = 0 THEN m ELSE F[<<k, h[k - 1]>>]
  BY <1>5 DEF Histories
<1>7. ASSUME NEW k \in 0 .. n PROVE h[k] = IF k = 0 THEN m ELSE Then(k, h[k - 1])
  <2>1. k # 0 => k \in 1 .. n /\ k - 1 \in 0 .. n
    OBVIOUS
  <2>2. k # 0 => h[k - 1] \in M
    BY <2>1
  <2> QED
    BY <1>4, <1>6, <2>1, <2>2
<1>8. Along(h)
  BY <1>7
<1> PICK u : u = w
  OBVIOUS
<1>9. Along(u)
  <2> HIDE DEF Along
  <2> QED
    BY <1>8
<1>10. Points(m, ps, c) = u[n]
  BY <1>2
<1> HIDE DEF w
<1> DEFINE K == {k \in Nat : k <= n => u[k] \in M}
<1>11. 0 \in K
  BY <1>9
<1>12. ASSUME NEW k \in K PROVE k + 1 \in K
  <2> SUFFICES ASSUME k + 1 <= n PROVE u[k + 1] \in M
    OBVIOUS
  <2>1. k + 1 \in 0 .. n /\ k + 1 \in 1 .. n /\ k + 1 # 0 /\ (k + 1) - 1 = k /\ u[k] \in M
    OBVIOUS
  <2>2. u[k + 1] = Then(k + 1, u[k])
    BY <1>9, <2>1
  <2> QED
    BY <1>1, <2>1, <2>2
<1>13. K \subseteq Nat
  OBVIOUS
<1> HIDE DEF K
<1>14. K = Nat
  BY <1>11, <1>12, <1>13, Successors
<1>15. u[n] \in M
  BY <1>14 DEF K
<1> QED
  BY <1>10, <1>15

\* The pixels that differ from the buffer are marked.
Led(m, s) == \A p \in Pixels : s[p] = m[Pixel(p[1], p[2])] \/ Marked(m, p)

\* A pixel drawn on the screen is marked, and the marks of the others stay.
LEMMA WriteLeads ==
  ASSUME NEW s \in [Pixels -> SUBSET Planes], NEW m \in Memories, Led(m, s),
         NEW q \in Pixels, NEW c \in SUBSET Planes
  PROVE  write_pixel4p(m, q[1], q[2], c) \in Memories /\ Led(write_pixel4p(m, q[1], q[2], c), s)
<1> PICK x \in 0 .. Width - 1, y \in 0 .. Height - 1 : q = <<x, y>>
  BY DEF Pixels
<1>0. q[1] = x /\ q[2] = y
  OBVIOUS
<1> PICK v : v = write_pixel4p(m, x, y, c)
  OBVIOUS
<1>1. /\ Pixel(x, y) \in Bytes /\ RowMark(y) \in Bytes /\ ColumnMark(x) \in Bytes
      /\ Pixel(x, y) # RowMark(y) /\ Pixel(x, y) # ColumnMark(x)
  <2>1. RowMark(y) \in Int /\ ColumnMark(x) \in Int
    BY OnScreen DEF Bytes
  <2> QED
    BY <2>1, OnScreen
<1>2. /\ v \in Memories /\ v[RowMark(y)] = Mark /\ v[ColumnMark(x)] = Mark
      /\ \A a \in Bytes : a \notin {Pixel(x, y), RowMark(y), ColumnMark(x)} => v[a] = m[a]
  BY <1>1, WriteFacts
<1>3. ASSUME NEW p \in Pixels PROVE s[p] = v[Pixel(p[1], p[2])] \/ Marked(v, p)
  <2> PICK z \in 0 .. Width - 1, t \in 0 .. Height - 1 : p = <<z, t>>
    BY DEF Pixels
  <2>0. p[1] = z /\ p[2] = t
    OBVIOUS
  <2>1. CASE Planes = {}
    <3>1. s[p] \in SUBSET Planes /\ Pixel(z, t) \in Bytes
      BY OnScreen
    <3> QED
      BY <1>2, <2>0, <2>1, <3>1 DEF Memories
  <2>2. CASE Planes # {} /\ p = q
    BY <1>0, <1>2, <2>2 DEF Marked, Mark
  <2>3. CASE Planes # {} /\ p # q
    <3>1. Pixel(z, t) # Pixel(x, y)
      BY <1>0, <2>0, <2>3, PixelInjective
    <3>2. Pixel(z, t) \notin {RowMark(y), ColumnMark(x)}
      <4>1. RowMark(y) \in Int /\ ColumnMark(x) \in Int
        BY OnScreen DEF Bytes
      <4> QED
        BY <4>1, OnScreen
    <3>3. v[Pixel(z, t)] = m[Pixel(z, t)]
      BY <1>2, <3>1, <3>2, OnScreen
    <3>4. ASSUME m[RowMark(t)] # {} PROVE v[RowMark(t)] # {}
      <4>1. RowMark(t) # Pixel(x, y)
        <5>1. RowMark(t) \in Int
          BY OnScreen DEF Bytes
        <5> QED
          BY <5>1, OnScreen
      <4> QED
        BY <1>2, <2>3, <3>4, <4>1, OnScreen DEF Mark
    <3>5. ASSUME m[ColumnMark(z)] # {} PROVE v[ColumnMark(z)] # {}
      <4>1. ColumnMark(z) # Pixel(x, y)
        <5>1. ColumnMark(z) \in Int
          BY OnScreen DEF Bytes
        <5> QED
          BY <5>1, OnScreen
      <4> QED
        BY <1>2, <2>3, <3>5, <4>1, OnScreen DEF Mark
    <3>6. s[p] = m[Pixel(z, t)] \/ (m[RowMark(t)] # {} /\ m[ColumnMark(z)] # {})
      BY <2>0 DEF Led, Marked
    <3> QED
      BY <2>0, <3>3, <3>4, <3>5, <3>6 DEF Marked
  <2> QED
    BY <2>1, <2>2, <2>3
<1>4. Led(v, s)
  BY <1>3 DEF Led
<1> QED
  BY <1>0, <1>2, <1>4

\* A point below the screen changes no pixel.
LEMMA WriteBelow ==
  ASSUME NEW m \in Memories, NEW x \in 0 .. Width - 1,
         NEW y \in Height .. Height + FontHeight - 1, NEW c \in SUBSET Planes
  PROVE  /\ write_pixel4p(m, x, y, c) \in Memories
         /\ \A p \in Pixels :
              write_pixel4p(m, x, y, c)[Pixel(p[1], p[2])] = m[Pixel(p[1], p[2])]
<1>1. /\ write_pixel4p(m, x, y, c) \in Memories
      /\ \A a \in Bytes : a \notin {Pixel(x, y), RowMark(y), ColumnMark(x)}
               => write_pixel4p(m, x, y, c)[a] = m[a]
  BY WriteElsewhere, BelowScreen
<1>2. ASSUME NEW p \in Pixels
      PROVE  Pixel(p[1], p[2]) \in Bytes /\ Pixel(p[1], p[2]) \notin {Pixel(x, y), RowMark(y), ColumnMark(x)}
  <2> PICK z \in 0 .. Width - 1, t \in 0 .. Height - 1 : p = <<z, t>>
    BY DEF Pixels
  <2>1. Pixel(z, t) \in Bytes /\ Pixel(z, t) \in Int /\ Pixel(z, t) < RowMark(0) /\ p[1] = z /\ p[2] = t
    BY OnScreen
  <2> QED
    BY <2>1, BelowScreen
<1> QED
  BY <1>1, <1>2
\* Points on the screen, one after the other.
LEMMA PointsLead ==
  ASSUME NEW s \in [Pixels -> SUBSET Planes], NEW m \in Memories, Led(m, s),
         NEW ps \in Seq(Pixels), NEW c \in SUBSET Planes
  PROVE  Points(m, ps, c) \in Memories /\ Led(Points(m, ps, c), s)
<1> DEFINE M == {v \in Memories : Led(v, s)}
<1>1. ASSUME NEW k \in 1 .. Len(ps), NEW v \in M
      PROVE  write_pixel4p(v, ps[k][1], ps[k][2], c) \in M
  <2>1. ps[k] \in Pixels /\ v \in Memories /\ Led(v, s)
    OBVIOUS
  <2> PICK q \in Pixels : q = ps[k]
    BY <2>1
  <2> QED
    BY <2>1, WriteLeads
<1>2. m \in M
  OBVIOUS
<1> HIDE DEF M
<1>3. Points(m, ps, c) \in M
  BY <1>1, <1>2, PointsKeep
<1> QED
  BY <1>3 DEF M

\* Quotients and remainders of a number below a product.
LEMMA InBlock ==
  ASSUME NEW n \in Nat, NEW h \in Nat, h > 0, NEW w \in Nat, n < w * h
  PROVE  n \div h \in 0 .. w - 1 /\ n % h \in 0 .. h - 1
<1> PICK q \in Nat, r \in 0 .. h - 1 : q = n \div h /\ r = n % h /\ n = q * h + r
  OBVIOUS
<1>1. q * h < w * h
  <2>1. q * h \in Nat /\ w * h \in Nat
    OBVIOUS
  <2> QED
    BY <2>1
<1>2. (q >= w) => q * h >= w * h
  OBVIOUS
<1>3. q < w
  BY <1>1, <1>2
<1> QED
  BY <1>3

RectPoints(x0, y0, width, height) ==
  [k \in 1 .. width * height |-> <<x0 + (k - 1) \div height, y0 + ((k - 1) % height)>>]

\* fill_rect draws inside the rectangle.
LEMMA RectInside ==
  ASSUME NEW x0 \in Int, NEW y0 \in Int, NEW width \in Nat, NEW height \in Nat
  PROVE  /\ RectPoints(x0, y0, width, height)
              \in Seq((x0 .. x0 + width - 1) \X (y0 .. y0 + height - 1))
         /\ Len(RectPoints(x0, y0, width, height)) = width * height
<1> PICK n \in Nat : n = width * height
  OBVIOUS
<1>1. ASSUME NEW k \in 1 .. n
      PROVE  <<x0 + (k - 1) \div height, y0 + ((k - 1) % height)>>
                \in (x0 .. x0 + width - 1) \X (y0 .. y0 + height - 1)
  <2>1. height > 0
    <3>1. height = 0 => width * height = 0
      OBVIOUS
    <3> QED
      BY <3>1
  <2>2. k - 1 \in Nat /\ k - 1 < width * height
    OBVIOUS
  <2> PICK q, r : q = (k - 1) \div height /\ r = (k - 1) % height
    OBVIOUS
  <2>3. q \in 0 .. width - 1 /\ r \in 0 .. height - 1
    BY <2>1, <2>2, InBlock
  <2>4. x0 + q \in x0 .. x0 + width - 1 /\ y0 + r \in y0 .. y0 + height - 1
    BY <2>3
  <2> QED
    BY <2>4
<1> DEFINE P == (x0 .. x0 + width - 1) \X (y0 .. y0 + height - 1)
           Place1(k) == <<x0 + (k - 1) \div height, y0 + ((k - 1) % height)>>
<1>2. RectPoints(x0, y0, width, height) = [k \in 1 .. n |-> Place1(k)]
  BY DEF RectPoints
<1> HIDE DEF P, Place1
<1>3. \A k \in 1 .. n : Place1(k) \in P
  BY <1>1 DEF Place1, P
<1>4. [k \in 1 .. n |-> Place1(k)] \in Seq(P) /\ Len([k \in 1 .. n |-> Place1(k)]) = n
  BY <1>3
<1> QED
  BY <1>2, <1>4 DEF P

LEMMA FillLeads ==
  ASSUME NEW s \in [Pixels -> SUBSET Planes], NEW m \in Memories, Led(m, s),
         NEW x0 \in Int, NEW y0 \in Int, NEW width \in Nat, NEW height \in Nat, NEW c \in SUBSET Planes,
         0 <= x0, x0 + width <= Width, 0 <= y0, y0 + height <= Height
  PROVE  fill_rect(m, x0, y0, width, height, c) \in Memories
         /\ Led(fill_rect(m, x0, y0, width, height, c), s)
<1> PICK ps : ps = RectPoints(x0, y0, width, height)
  OBVIOUS
<1>1. ps \in Seq((x0 .. x0 + width - 1) \X (y0 .. y0 + height - 1))
  BY RectInside
<1>2. (x0 .. x0 + width - 1) \X (y0 .. y0 + height - 1) \subseteq Pixels
  BY Sizes DEF Pixels
<1>3. ps \in Seq(Pixels)
  BY <1>1, <1>2
<1>4. fill_rect(m, x0, y0, width, height, c) = Points(m, ps, c)
  BY DEF fill_rect, RectPoints
<1> QED
  BY <1>3, <1>4, PointsLead

\* A line between two pixels stays on the screen.
LEMMA LineOnScreen ==
  ASSUME NEW x1 \in 0 .. Width - 1, NEW y1 \in 0 .. Height - 1,
         NEW x2 \in 0 .. Width - 1, NEW y2 \in 0 .. Height - 1
  PROVE  Line(x1, y1, x2, y2) \in Seq(Pixels)
<1> PICK line : line = Line(x1, y1, x2, y2)
  OBVIOUS
<1>1. InBox(line, x1, y1, x2, y2)
  BY LineInBox
<1>2. PICK F \in Nat :
     /\ line \in [1 .. F + 1 -> Int \X Int]
     /\ \A k \in 1 .. F + 1 : Between(line[k][1], x1, x2) /\ Between(line[k][2], y1, y2)
  BY <1>1 DEF InBox
<1>3. ASSUME NEW k \in 1 .. F + 1 PROVE line[k] \in Pixels
  <2>0. line[k] \in Int \X Int
    BY <1>2
  <2> PICK u \in Int, v \in Int : line[k] = <<u, v>>
    BY <2>0
  <2>1. Between(u, x1, x2) /\ Between(v, y1, y2)
    BY <1>2
  <2>2. u \in 0 .. Width - 1 /\ v \in 0 .. Height - 1
    BY <2>1, Sizes DEF Between
  <2> QED
    BY <2>2 DEF Pixels
<1>4. line \in [1 .. F + 1 -> Pixels]
  BY <1>2, <1>3
<1>5. line \in Seq(Pixels)
  <2> PICK m \in Nat : m = F + 1
    OBVIOUS
  <2> QED
    BY <1>4
<1> QED
  BY <1>5

LEMMA RectOnScreen ==
  ASSUME NEW p \in Pixels, NEW q \in Pixels, p[1] <= q[1], p[2] <= q[2]
  PROVE  draw_rect(p[1], p[2], q[1] - p[1], q[2] - p[2]) \in Seq(Pixels)
<1> PICK x \in 0 .. Width - 1, y \in 0 .. Height - 1 : p[1] = x /\ p[2] = y
  BY DEF Pixels
<1> PICK u \in 0 .. Width - 1, v \in 0 .. Height - 1 : q[1] = u /\ q[2] = v
  BY DEF Pixels
<1>1. x + (u - x) = u /\ y + (v - y) = v
  OBVIOUS
<1>2. /\ Line(x, y, u, y) \in Seq(Pixels) /\ Line(x, y, x, v) \in Seq(Pixels)
      /\ Line(u, y, u, v) \in Seq(Pixels) /\ Line(x, v, u, v) \in Seq(Pixels)
  BY LineOnScreen
<1>3. draw_rect(x, y, u - x, v - y)
        = Line(x, y, u, y) \o Line(x, y, x, v) \o Line(u, y, u, v) \o Line(x, v, u, v)
  BY <1>1 DEF draw_rect
<1>4. draw_rect(x, y, u - x, v - y) \in Seq(Pixels)
  <2> PICK i, j, k, n \in Seq(Pixels) :
          /\ i = Line(x, y, u, y) /\ j = Line(x, y, x, v)
          /\ k = Line(u, y, u, v) /\ n = Line(x, v, u, v)
    BY <1>2
  <2>1. i \o j \in Seq(Pixels)
    OBVIOUS
  <2>2. (i \o j) \o k \in Seq(Pixels)
    BY <2>1
  <2>3. ((i \o j) \o k) \o n \in Seq(Pixels)
    BY <2>2
  <2> QED
    BY <1>3, <2>3
<1> QED
  BY <1>4
\* A character, also in the row below the screen, where it changes no pixel.
LEMMA FontLeads ==
  ASSUME NEW s \in [Pixels -> SUBSET Planes], NEW m \in Memories,
         \A p \in Pixels : s[p] = m[Pixel(p[1], p[2])],
         NEW x \in 0 .. GWide - 1, NEW row \in 0 .. GHigh, NEW c \in SUBSET Planes
  PROVE  draw_font(m, x, row * FontHeight, c) \in Memories /\ Led(draw_font(m, x, row * FontHeight, c), s)
<1> PICK y : y = row * FontHeight
  OBVIOUS
<1>1. Led(m, s) /\ Planes \in SUBSET Planes
  BY DEF Led
<1>2. CASE row < GHigh
  <2>1. y \in Nat /\ y + FontHeight <= Height
    <3> PICK F \in Nat, G \in Nat : F = FontHeight /\ G = GHigh
      BY Sizes
    <3>1. row * F \in Nat /\ (row + 1) * F = row * F + F
      OBVIOUS
    <3>2. (row + 1) * F <= G * F
      BY <1>2
    <3> QED
      BY <3>1, <3>2, Sizes
  <2>2. x \in Int /\ 0 <= x /\ x + 1 <= Width /\ 1 \in Nat /\ y \in Int /\ 0 <= y /\ FontHeight \in Nat
    BY <2>1, Sizes
  <2> PICK f : f = fill_rect(m, x, y, 1, FontHeight, c)
    OBVIOUS
  <2>3. f \in Memories /\ Led(f, s)
    BY <1>1, <2>1, <2>2, FillLeads
  <2> PICK q \in Pixels : q[1] = x /\ q[2] = y
    <3>1. <<x, y>> \in Pixels
      BY <2>1, <2>2, Sizes DEF Pixels
    <3> QED
      BY <3>1
  <2>4. write_pixel4p(f, x, y, Planes) \in Memories /\ Led(write_pixel4p(f, x, y, Planes), s)
    BY <1>1, <2>3, WriteLeads
  <2> QED
    BY <2>4 DEF draw_font
<1>3. CASE row = GHigh
  <2>1. y = Height /\ y \in Nat
    BY <1>3, Sizes
  <2> DEFINE M == {v \in Memories : \A p \in Pixels : s[p] = v[Pixel(p[1], p[2])]}
  <2>2. ASSUME NEW v \in M, NEW t \in Height .. Height + FontHeight - 1, NEW k \in SUBSET Planes
        PROVE  write_pixel4p(v, x, t, k) \in M
    <3>1. v \in Memories /\ x \in 0 .. Width - 1
      BY Sizes
    <3> QED
      BY <3>1, WriteBelow
  <2> PICK ps : ps = RectPoints(x, y, 1, FontHeight)
    OBVIOUS
  <2>3. ps \in Seq((x .. x + 1 - 1) \X (y .. y + FontHeight - 1))
    <3>1. x \in Int /\ y \in Int /\ 1 \in Nat /\ FontHeight \in Nat
      BY <2>1, Sizes
    <3> QED
      BY <3>1, RectInside
  <2>4. ASSUME NEW k \in 1 .. Len(ps) PROVE ps[k][1] = x /\ ps[k][2] \in Height .. Height + FontHeight - 1
    <3>1. ps[k] \in (x .. x + 1 - 1) \X (y .. y + FontHeight - 1)
      BY <2>3
    <3>2. ps[k][1] \in x .. x + 1 - 1 /\ ps[k][2] \in y .. y + FontHeight - 1
      BY <3>1
    <3> QED
      BY <2>1, <3>2
  <2>5. Len(ps) \in Nat /\ m \in M
    BY <2>3
  <2> HIDE DEF M
  <2>6. Points(m, ps, c) \in M
    BY <2>2, <2>4, <2>5, PointsKeep
  <2>7. y \in Height .. Height + FontHeight - 1
    BY <2>1, Sizes
  <2>8. write_pixel4p(Points(m, ps, c), x, y, Planes) \in M
    BY <1>1, <2>2, <2>6, <2>7
  <2>9. draw_font(m, x, y, c) = write_pixel4p(Points(m, ps, c), x, y, Planes)
    BY DEF draw_font, fill_rect, RectPoints
  <2>10. draw_font(m, x, y, c) \in M
    BY <2>8, <2>9
  <2> QED
    BY <2>10 DEF M, Led
<1> QED
  BY <1>2, <1>3, Sizes

-----------------------------------------------------------------------------
(* write_screen.                                                             *)

LEMMA WriteScreenShows ==
  ASSUME NEW m \in Memories, picture, shown \in [Pixels -> SUBSET Planes], Led(m, shown),
         write_screen(m)
  PROVE  /\ mem' \in Memories /\ shown' \in [Pixels -> SUBSET Planes]
         /\ \A p \in Pixels : shown'[p] = mem'[Pixel(p[1], p[2])]
<1>1. mem' = [a \in Bytes |-> IF a \in RowMark(0) .. ColumnMark(Width - 1) THEN {} ELSE m[a]]
  BY DEF write_screen, Unmarked
<1>2. mem' \in Memories
  BY <1>1 DEF Memories
<1>3. shown' = [p \in Pixels |-> {i \in Planes : p \in copy_plane(shown, m, i)}]
  BY DEF write_screen
<1>4. shown' \in [Pixels -> SUBSET Planes]
  BY <1>3
<1>5. ASSUME NEW p \in Pixels PROVE shown'[p] = mem'[Pixel(p[1], p[2])]
  <2>1. Pixel(p[1], p[2]) \in Bytes /\ Pixel(p[1], p[2]) \notin RowMark(0) .. ColumnMark(Width - 1)
    <3> PICK x \in 0 .. Width - 1, y \in 0 .. Height - 1 : p[1] = x /\ p[2] = y
      BY DEF Pixels
    <3> QED
      BY OnScreen
  <2>2. mem'[Pixel(p[1], p[2])] = m[Pixel(p[1], p[2])]
    BY <1>1, <2>1
  <2> PICK n : n = m[Pixel(p[1], p[2])]
    OBVIOUS
  <2>3. n \subseteq Planes /\ shown[p] \subseteq Planes
    BY <2>1 DEF Memories
  <2>4. shown'[p] = {i \in Planes : p \in copy_plane(shown, m, i)}
    BY <1>3
  <2>5. \A i : p \in copy_plane(shown, m, i) <=> IF Marked(m, p) THEN i \in n ELSE i \in shown[p]
    BY DEF copy_plane
  <2>6. shown[p] = n \/ Marked(m, p)
    BY DEF Led
  <2>7. shown'[p] = n
    BY <2>3, <2>4, <2>5, <2>6
  <2> QED
    BY <2>2, <2>7
<1> QED
  BY <1>2, <1>4, <1>5
-----------------------------------------------------------------------------
(* The cursor of drawn text, and the invariant.                              *)

\* Where the cursor may be in a picture: on the screen, or behind its last cell.
CursorIn(p, s) == s = <<GWide, GHigh>> /\ p \in 0 .. GWide * GHigh

LEMMA CursorRow ==
  ASSUME NEW p \in 0 .. GWide * GHigh
  PROVE  /\ p % GWide \in 0 .. GWide - 1 /\ p \div GWide \in 0 .. GHigh
         /\ p - (p % GWide) \in 0 .. GWide * GHigh
         /\ (p \div GWide + 1) * GWide \in 0 .. GWide * GHigh + GWide
<1> PICK w \in Nat, h \in Nat : w = GWide /\ h = GHigh /\ w > 0 /\ h > 0
  BY Sizes
<1>0. p \in Nat
  OBVIOUS
<1> PICK q \in Nat, r \in 0 .. w - 1 : q = p \div w /\ r = p % w /\ p = q * w + r
  BY <1>0
<1>1. q \in Nat /\ r \in 0 .. w - 1 /\ p = q * w + r
  OBVIOUS
<1>2. q * w \in Nat /\ (q + 1) * w = q * w + w /\ w * h \in Nat
  BY <1>1
<1>3. q * w <= w * h
  BY <1>1, <1>2
<1>4. q <= h
  <2>1. q >= h + 1 => q * w >= (h + 1) * w
    BY <1>1
  <2>2. (h + 1) * w = w * h + w
    OBVIOUS
  <2> QED
    BY <1>1, <1>2, <1>3, <2>1, <2>2
<1> QED
  BY <1>1, <1>2, <1>3, <1>4

\* Text that scrolls brings the cursor back.
LEMMA CursorStays ==
  ASSUME NEW cs, NEW p \in 0 .. GWide * GHigh + GWide, size = <<GWide, GHigh>>, set_cursor_pos(p, cs)
  PROVE  pos' \in 0 .. GWide * GHigh
<1> PICK w \in Nat, h \in Nat : w = GWide /\ h = GHigh /\ w > 0 /\ h > 0
  BY Sizes
<1>1. Wide = w /\ Cells = w * h /\ w * h \in Nat /\ w * h >= w
  BY DEF Wide, Cells
<1>2. CASE p <= Cells
  BY <1>1, <1>2 DEF set_cursor_pos
<1>3. CASE ~(p <= Cells)
  <2>0. p \in Nat
    OBVIOUS
  <2> PICK q \in Nat, r \in 0 .. w - 1 : q = p \div w /\ r = p % w /\ p = q * w + r
    BY <2>0
  <2>1. q \in Nat /\ r \in 0 .. w - 1 /\ p = q * w + r
    OBVIOUS
  <2>2. pos' = p - w - r
    BY <1>1, <1>3 DEF set_cursor_pos
  <2>3. q >= 1
    <3>1. q = 0 => q * w = 0
      OBVIOUS
    <3> QED
      BY <1>1, <1>3, <2>1, <3>1
  <2>4. q * w >= w /\ q * w \in Nat
    BY <2>1, <2>3
  <2> QED
    BY <1>1, <2>1, <2>2, <2>4
<1> QED
  BY <1>2, <1>3

\* The buffer has the picture that is shown but for what is marked, and the marks are
\* followed before anything else is drawn.
PictureInv ==
  /\ mem \in Memories /\ b \in SUBSET Planes
  /\ g => picture /\ CursorIn(pos, size)
  /\ picture => shown \in [Pixels -> SUBSET Planes] /\ Led(mem, shown)
  /\ picture /\ ~open => \A p \in Pixels : shown[p] = mem[Pixel(p[1], p[2])]

LEMMA PictureInit == Init => PictureInv
BY DEF Init, PictureInv, Memories, Empty

\* Text that is drawn later, or is not drawn, leaves the picture as it is.
LEMMA TextKeeps ==
  ASSUME PictureInv, UNCHANGED <<size, picture, g, b, pictures>>, g => pos' \in 0 .. GWide * GHigh
  PROVE  PictureInv'
BY DEF PictureInv, pictures, CursorIn, Led, Marked

LEMMA CursorKeeps ==
  ASSUME PictureInv, NEW cs, NEW p, Text(set_cursor_pos(p, cs)),
         g => p \in 0 .. GWide * GHigh + GWide
  PROVE  PictureInv'
<1>1. g => size = <<GWide, GHigh>>
  BY DEF PictureInv, CursorIn
<1>2. g => pos' \in 0 .. GWide * GHigh
  BY <1>1, CursorStays DEF Text
<1> QED
  BY <1>2, TextKeeps DEF Text
\* Each way of printing text, while it is drawn or while there is no picture.
LEMMA TextActionsKeep ==
  ASSUME PictureInv,
         NextLine \/ LineStart \/ new_line \/ Place \/ Clear \/ (\E c \in Chars : Put(c))
           \/ (\E line \in 0 .. size[2] - 1, col \in Colours : set_line_color(line, col, 0, Wide))
  PROVE  PictureInv'
<1> DEFINE Reach == 0 .. GWide * GHigh + GWide
<1>1. g => /\ pos \in 0 .. GWide * GHigh /\ Wide = GWide /\ Cells = GWide * GHigh
           /\ GWide \in Nat /\ GHigh \in Nat /\ GWide * GHigh \in Nat
  BY Sizes DEF PictureInv, CursorIn, Wide, Cells
<1>2. g => /\ pos + Wide \in Reach /\ pos - (pos % Wide) \in Reach
           /\ coord_from_pos(0, pos \div Wide + 1) \in Reach
           /\ \A p \in 0 .. Cells - 1 : p \in Reach
  <2> SUFFICES ASSUME g
               PROVE  /\ pos + Wide \in Reach /\ pos - (pos % Wide) \in Reach
                      /\ coord_from_pos(0, pos \div Wide + 1) \in Reach
                      /\ \A p \in 0 .. Cells - 1 : p \in Reach
    OBVIOUS
  <2> PICK n \in Nat : n = GWide * GHigh
    BY <1>1
  <2>1. /\ pos - (pos % GWide) \in 0 .. n
        /\ (pos \div GWide + 1) * GWide \in 0 .. n + GWide
    BY <1>1, CursorRow
  <2>2. coord_from_pos(0, pos \div Wide + 1) = (pos \div GWide + 1) * GWide
    <3> PICK z \in Int : z = (pos \div GWide + 1) * GWide
      BY <2>1
    <3> QED
      BY <1>1 DEF coord_from_pos
  <2> QED
    BY <1>1, <2>1, <2>2
<1> HIDE DEF Reach
<1>3. CASE NextLine
  BY <1>2, <1>3, CursorKeeps DEF NextLine, Reach
<1>4. CASE LineStart
  BY <1>2, <1>4, CursorKeeps DEF LineStart, Reach
<1>5. CASE new_line
  BY <1>2, <1>5, CursorKeeps DEF new_line, Reach
<1>6. CASE Place
  <2>1. PICK p \in 0 .. Cells - 1 : Text(set_cursor_pos(p, cells))
    BY <1>6 DEF Place, Text
  <2> QED
    BY <1>2, <2>1, CursorKeeps DEF Reach
<1>7. CASE Clear \/ (\E c \in Chars : Put(c))
             \/ (\E line \in 0 .. size[2] - 1, col \in Colours : set_line_color(line, col, 0, Wide))
  <2>1. ~picture /\ UNCHANGED <<size, picture, g, b, pictures>>
    BY <1>7 DEF Clear, Put, set_line_color, Text
  <2>2. ~g
    BY <2>1 DEF PictureInv
  <2> QED
    BY <2>1, <2>2, TextKeeps
<1> QED
  BY <1>3, <1>4, <1>5, <1>6, <1>7

LEMMA PutDrawnKeeps ==
  ASSUME PictureInv, PutDrawn
  PROVE  PictureInv'
<1>1. /\ picture /\ g /\ ~open /\ UNCHANGED <<size, picture, g, b, open>>
      /\ set_cursor_pos(pos + 1, cells)
      /\ write_screen(draw_font(mem, pos % Wide, (pos \div Wide) * FontHeight, b))
  BY DEF PutDrawn, Printing
<1>2. /\ mem \in Memories /\ b \in SUBSET Planes /\ size = <<GWide, GHigh>>
      /\ pos \in 0 .. GWide * GHigh /\ Wide = GWide
      /\ shown \in [Pixels -> SUBSET Planes]
      /\ \A p \in Pixels : shown[p] = mem[Pixel(p[1], p[2])]
  BY <1>1 DEF PictureInv, CursorIn, Wide
<1> PICK x, row : x = pos % GWide /\ row = pos \div GWide
  OBVIOUS
<1>3. x \in 0 .. GWide - 1 /\ row \in 0 .. GHigh
  BY <1>2, CursorRow
<1> PICK m : m = draw_font(mem, x, row * FontHeight, b)
  OBVIOUS
<1>4. m \in Memories /\ Led(m, shown)
  BY <1>2, <1>3, FontLeads
<1>5. write_screen(m)
  BY <1>1, <1>2
<1>6. /\ mem' \in Memories /\ shown' \in [Pixels -> SUBSET Planes]
      /\ \A p \in Pixels : shown'[p] = mem'[Pixel(p[1], p[2])]
  BY <1>1, <1>2, <1>4, <1>5, WriteScreenShows
<1>7. pos' \in 0 .. GWide * GHigh
  <2>1. pos + 1 \in 0 .. GWide * GHigh + GWide
    <3> PICK n \in Nat : n = GWide * GHigh
      BY Sizes
    <3> QED
      BY <1>2, Sizes
  <2> QED
    BY <1>1, <1>2, <2>1, CursorStays
<1>8. Led(mem', shown')
  BY <1>6 DEF Led
<1> QED
  BY <1>1, <1>2, <1>6, <1>7, <1>8 DEF PictureInv, CursorIn, Led

LEMMA ShowKeeps ==
  ASSUME PictureInv, Show
  PROVE  PictureInv'
<1>1. /\ write_screen(mem) /\ UNCHANGED <<size, pos, picture, g, b>> /\ open' = FALSE
  BY DEF Show, text
<1>2. mem \in Memories /\ b \in SUBSET Planes /\ (g => picture /\ CursorIn(pos, size))
  BY DEF PictureInv
<1>3. mem' \in Memories
  <2>1. mem' = [a \in Bytes |-> IF a \in RowMark(0) .. ColumnMark(Width - 1) THEN {} ELSE mem[a]]
    BY <1>1 DEF write_screen, Unmarked
  <2> QED
    BY <1>2, <2>1 DEF Memories
<1>4. ASSUME picture
      PROVE  /\ shown' \in [Pixels -> SUBSET Planes]
             /\ \A p \in Pixels : shown'[p] = mem'[Pixel(p[1], p[2])]
  <2>1. shown \in [Pixels -> SUBSET Planes] /\ Led(mem, shown)
    BY <1>4 DEF PictureInv
  <2> PICK m : m = mem
    OBVIOUS
  <2> QED
    BY <1>1, <1>2, <1>4, <2>1, WriteScreenShows
<1>5. g' => picture' /\ CursorIn(pos', size')
  BY <1>1, <1>2
<1> QED
  BY <1>1, <1>2, <1>3, <1>4, <1>5 DEF PictureInv, CursorIn, Led
LEMMA ClearedFacts ==
  ASSUME mem \in Memories, NEW c \in SUBSET Planes
  PROVE  /\ Cleared(c) \in Memories /\ Unmarked(Cleared(c)) \in Memories
         /\ \A p \in Pixels : /\ Cleared(c)[Pixel(p[1], p[2])] = c
                              /\ Unmarked(Cleared(c))[Pixel(p[1], p[2])] = c
                              /\ Cleared(c)[RowMark(p[2])] = Mark /\ Cleared(c)[ColumnMark(p[1])] = Mark
<1>1. Cleared(c) = [a \in Bytes |-> IF a < RowMark(0) THEN c
                                    ELSE IF a <= ColumnMark(Width - 1) THEN Mark ELSE mem[a]]
  BY DEF Cleared
<1>2. Unmarked(Cleared(c)) = [a \in Bytes |-> IF a \in RowMark(0) .. ColumnMark(Width - 1) THEN {}
                                              ELSE Cleared(c)[a]]
  BY DEF Unmarked
<1>3. Cleared(c) \in Memories
  BY <1>1 DEF Memories, Mark
<1>4. Unmarked(Cleared(c)) \in Memories
  BY <1>2, <1>3 DEF Memories
<1>5. ASSUME NEW p \in Pixels
      PROVE  /\ Cleared(c)[Pixel(p[1], p[2])] = c /\ Unmarked(Cleared(c))[Pixel(p[1], p[2])] = c
             /\ Cleared(c)[RowMark(p[2])] = Mark /\ Cleared(c)[ColumnMark(p[1])] = Mark
  <2> PICK x \in 0 .. Width - 1, y \in 0 .. Height - 1 : p[1] = x /\ p[2] = y
    BY DEF Pixels
  <2> PICK A \in Int, Z \in Int : A = RowMark(0) /\ Z = ColumnMark(Width - 1)
    BY OnScreen
  <2> PICK i \in Int, j \in Int, k \in Int : i = Pixel(x, y) /\ j = RowMark(y) /\ k = ColumnMark(x)
    BY OnScreen DEF Bytes
  <2>1. /\ i \in Bytes /\ j \in Bytes /\ k \in Bytes
        /\ i < A /\ A <= j /\ j <= Z /\ A <= k /\ k <= Z
    BY OnScreen
  <2>2. Cleared(c)[i] = c /\ Cleared(c)[j] = Mark /\ Cleared(c)[k] = Mark
    BY <1>1, <2>1
  <2>3. Unmarked(Cleared(c))[i] = c
    BY <1>2, <2>1, <2>2
  <2> QED
    BY <2>2, <2>3
<1> QED
  BY <1>3, <1>4, <1>5

\* Where everything is marked, anything may be shown.
LEMMA MarkedLeads ==
  ASSUME mem \in Memories, NEW c \in SUBSET Planes, NEW s \in [Pixels -> SUBSET Planes]
  PROVE  Led(Cleared(c), s)
<1> SUFFICES ASSUME NEW p \in Pixels
             PROVE  s[p] = Cleared(c)[Pixel(p[1], p[2])] \/ Marked(Cleared(c), p)
  BY DEF Led
<1>1. CASE Planes = {}
  <2>1. s[p] \in SUBSET Planes /\ Cleared(c)[Pixel(p[1], p[2])] = c
    BY ClearedFacts
  <2>2. s[p] = {} /\ c = {}
    BY <1>1, <2>1
  <2> QED
    BY <2>1, <2>2
<1>2. CASE Planes # {}
  BY <1>2, ClearedFacts DEF Marked, Mark
<1> QED
  BY <1>1, <1>2

LEMMA ModesKeep ==
  ASSUME PictureInv, (\E m \in Modes : set_mode(m)) \/ StartPicture \/ enter_graphics \/ (\E c \in Inks : gclear(c))
  PROVE  PictureInv'
<1>0. mem \in Memories /\ b \in SUBSET Planes /\ Inks \subseteq SUBSET Planes /\ (g => picture /\ CursorIn(pos, size))
  BY ScreenSizes DEF PictureInv
<1>n. 0 \in 0 .. GWide * GHigh
  <2> PICK n \in Nat : n = GWide * GHigh
    BY Sizes
  <2> QED
    OBVIOUS
<1>1. ASSUME NEW m \in Modes, set_mode(m) PROVE PictureInv'
  BY <1>0, <1>1 DEF set_mode, PictureInv, Memories, Empty
<1>2. CASE StartPicture
  <2>1. /\ ~picture /\ picture' = TRUE /\ g' = g /\ open' = TRUE /\ mem' = Cleared({}) /\ b' = {}
        /\ shown' \in [Pixels -> SUBSET Planes]
    BY <1>2 DEF StartPicture, Shows
  <2>2. mem' \in Memories /\ Led(mem', shown')
    BY <1>0, <2>1, ClearedFacts, MarkedLeads
  <2> QED
    BY <1>0, <2>1, <2>2 DEF PictureInv, Led
<1>3. CASE enter_graphics
  <2> PICK c \in Inks :
      /\ ~open /\ ~picture /\ Shows([p \in Pixels |-> c]) /\ mem' = Unmarked(Cleared(c))
      /\ g' = TRUE /\ size' = <<GWide, GHigh>> /\ pos' = 0 /\ b' = c /\ UNCHANGED open
    BY <1>3 DEF enter_graphics
  <2>1. picture' = TRUE /\ shown' = [p \in Pixels |-> c] /\ c \in SUBSET Planes
    BY <1>0 DEF Shows
  <2>2. mem' \in Memories /\ \A p \in Pixels : shown'[p] = mem'[Pixel(p[1], p[2])]
    BY <1>0, <2>1, ClearedFacts
  <2>3. shown' \in [Pixels -> SUBSET Planes] /\ Led(mem', shown')
    BY <2>1, <2>2 DEF Led
  <2> QED
    BY <1>n, <2>1, <2>2, <2>3 DEF PictureInv, Led, CursorIn
<1>4. ASSUME NEW c \in Inks, gclear(c) PROVE PictureInv'
  <2>1. /\ picture /\ UNCHANGED <<size, picture, g, shown>>
        /\ mem' = Cleared(c) /\ pos' = 0 /\ b' = c /\ open' = TRUE /\ c \in SUBSET Planes
    BY <1>0, <1>4 DEF gclear
  <2>2. shown \in [Pixels -> SUBSET Planes]
    BY <2>1 DEF PictureInv
  <2>3. mem' \in Memories /\ Led(mem', shown')
    BY <1>0, <2>1, <2>2, ClearedFacts, MarkedLeads
  <2>4. g' => CursorIn(pos', size')
    BY <1>0, <1>n, <2>1 DEF CursorIn
  <2> QED
    BY <2>1, <2>2, <2>3, <2>4 DEF PictureInv, Led, CursorIn
<1> QED
  BY <1>1, <1>2, <1>3, <1>4

\* The drawing of callers, who draw on the screen.
LEMMA DrawKeeps ==
  ASSUME PictureInv, Draw
  PROVE  PictureInv'
<1>1. mem \in Memories /\ Inks \subseteq SUBSET Planes
  BY ScreenSizes DEF PictureInv
<1>2. PICK p \in Pixels, q \in Pixels, c \in Inks :
    /\ open
    /\ \/ mem' = Points(mem, Line(p[1], p[2], q[1], q[2]), c)
       \/ p[1] <= q[1] /\ p[2] <= q[2]
            /\ \/ mem' = Points(mem, draw_rect(p[1], p[2], q[1] - p[1], q[2] - p[2]), c)
               \/ mem' = fill_rect(mem, p[1], p[2], q[1] - p[1] + 1, q[2] - p[2] + 1, c)
    /\ UNCHANGED <<text, picture, g, b, shown, open>>
  BY DEF Draw
<1>3. c \in SUBSET Planes
  BY <1>1
<1>4. ASSUME NEW s \in [Pixels -> SUBSET Planes], Led(mem, s)
      PROVE  mem' \in Memories /\ Led(mem', s)
  <2> PICK x \in 0 .. Width - 1, y \in 0 .. Height - 1 : p[1] = x /\ p[2] = y
    BY DEF Pixels
  <2> PICK u \in 0 .. Width - 1, v \in 0 .. Height - 1 : q[1] = u /\ q[2] = v
    BY DEF Pixels
  <2>1. CASE mem' = Points(mem, Line(x, y, u, v), c)
    <3>1. Line(x, y, u, v) \in Seq(Pixels)
      BY LineOnScreen
    <3> QED
      BY <1>1, <1>3, <1>4, <2>1, <3>1, PointsLead
  <2>2. CASE p[1] <= q[1] /\ p[2] <= q[2]
             /\ mem' = Points(mem, draw_rect(p[1], p[2], q[1] - p[1], q[2] - p[2]), c)
    <3>1. draw_rect(p[1], p[2], q[1] - p[1], q[2] - p[2]) \in Seq(Pixels)
      BY <2>2, RectOnScreen
    <3> QED
      BY <1>1, <1>3, <1>4, <2>2, <3>1, PointsLead
  <2>3. CASE x <= u /\ y <= v /\ mem' = fill_rect(mem, x, y, u - x + 1, v - y + 1, c)
    <3>1. /\ u - x + 1 \in Nat /\ v - y + 1 \in Nat /\ x \in Int /\ y \in Int
          /\ 0 <= x /\ x + (u - x + 1) <= Width /\ 0 <= y /\ y + (v - y + 1) <= Height
      BY <2>3, Sizes
    <3> QED
      BY <1>1, <1>3, <1>4, <2>3, <3>1, FillLeads
  <2> QED
    BY <1>2, <2>1, <2>2, <2>3
<1>5. mem' \in Memories
  <2> DEFINE s == [r \in Pixels |-> mem[Pixel(r[1], r[2])]]
  <2>1. \A r \in Pixels : Pixel(r[1], r[2]) \in Bytes
    <3> SUFFICES ASSUME NEW r \in Pixels PROVE Pixel(r[1], r[2]) \in Bytes
      OBVIOUS
    <3> PICK x \in 0 .. Width - 1, y \in 0 .. Height - 1 : r[1] = x /\ r[2] = y
      BY DEF Pixels
    <3> QED
      BY OnScreen
  <2>2. s \in [Pixels -> SUBSET Planes] /\ Led(mem, s)
    BY <1>1, <2>1 DEF Memories, Led
  <2> QED
    BY <1>4, <2>2
<1>6. picture => shown \in [Pixels -> SUBSET Planes] /\ Led(mem', shown)
  BY <1>4 DEF PictureInv
<1> QED
  BY <1>2, <1>5, <1>6 DEF PictureInv, Led, text, CursorIn

LEMMA PictureNext == PictureInv /\ [Next]_vars => PictureInv'
<1> SUFFICES ASSUME PictureInv, [Next]_vars PROVE PictureInv'
  OBVIOUS
<1>1. CASE UNCHANGED vars
  BY <1>1 DEF vars, text, pictures, PictureInv, CursorIn, Led, Marked
<1>2. CASE NextLine \/ LineStart \/ new_line \/ Place \/ Clear \/ (\E c \in Chars : Put(c))
           \/ (\E line \in 0 .. size[2] - 1, col \in Colours : set_line_color(line, col, 0, Wide))
  BY <1>2, TextActionsKeep
<1>3. CASE (\E m \in Modes : set_mode(m)) \/ StartPicture \/ enter_graphics \/ (\E c \in Inks : gclear(c))
  BY <1>3, ModesKeep
<1>4. CASE PutDrawn
  BY <1>4, PutDrawnKeeps
<1>5. CASE Draw
  BY <1>5, DrawKeeps
<1>6. CASE Show
  BY <1>6, ShowKeeps
<1> QED
  BY <1>1, <1>2, <1>3, <1>4, <1>5, <1>6 DEF Next

\* What is drawn is shown, by the marks, whatever is drawn and wherever text scrolls
\* off the screen.
THEOREM BufferAlwaysShown == Spec => []BufferShown
<1>1. PictureInv => BufferShown
  BY DEF PictureInv, BufferShown, Led
<1> QED
  BY <1>1, PictureInit, PictureNext, PTL DEF Spec
-----------------------------------------------------------------------------
(* Text: the screen is the end of a roll of paper.                            *)

Cell == [char : Chars \cup {0}, colour : Colours]

\* What text needs of the screen, while there is one: whole lines have scrolled away.
TextInv ==
  /\ size \in Modes \cup {<<GWide, GHigh>>}
  /\ ~picture => /\ pos \in 0 .. Cells /\ cells \in [0 .. Cells -> Cell]
                 /\ gone \in Seq(Cell) /\ \E n \in Nat : Len(gone) = n * Wide

\* The cells of s, and behind them the first n of c.
Joined(s, c, n) == s \o [k \in 1 .. n |-> c[k - 1]]

LEMMA DefaultIsColour == Default \in Colours /\ BlankCell \in Cell
<1>1. \E col \in Colours : \A d \in Colours : col <= d
  BY ScreenSizes, Least
<1> QED
  BY <1>1 DEF Default, BlankCell, Cell

LEMMA ScreenLines ==
  ASSUME NEW m \in Modes \cup {<<GWide, GHigh>>}
  PROVE  /\ m[1] \in Nat \ {0} /\ m[2] \in Nat \ {0}
         /\ m[1] * m[2] \in Nat /\ m[1] * m[2] >= m[1] /\ m[1] * m[2] = m[2] * m[1]
<1> PICK w \in Nat, h \in Nat : w = m[1] /\ h = m[2] /\ w > 0 /\ h > 0
  BY ScreenSizes
<1>1. w * h \in Nat /\ w * h >= w /\ w * h = h * w
  OBVIOUS
<1> QED
  BY <1>1

\* q is the lines s above the screen c.
IsRoll(q, s, c, n) ==
  /\ q \in Seq(Cell) /\ Len(q) = Len(s) + n
  /\ \A k \in 1 .. Len(s) + n : q[k] = IF k <= Len(s) THEN s[k] ELSE c[k - Len(s) - 1]

LEMMA JoinedFacts ==
  ASSUME NEW s \in Seq(Cell), NEW n \in Nat, NEW c \in [0 .. n -> Cell]
  PROVE  IsRoll(Joined(s, c, n), s, c, n)
<1> DEFINE t == [k \in 1 .. n |-> c[k - 1]]
<1>1. t \in Seq(Cell) /\ Len(t) = n
  <2>1. \A k \in 1 .. n : c[k - 1] \in Cell
    OBVIOUS
  <2> QED
    BY <2>1
<1>2. \A k \in 1 .. n : t[k] = c[k - 1]
  OBVIOUS
<1> HIDE DEF t
<1>3. /\ s \o t \in Seq(Cell) /\ Len(s \o t) = Len(s) + n
      /\ \A k \in 1 .. Len(s) + n : (s \o t)[k] = IF k <= Len(s) THEN s[k] ELSE t[k - Len(s)]
  BY <1>1
<1>4. \A k \in 1 .. Len(s) + n : k > Len(s) => t[k - Len(s)] = c[k - Len(s) - 1]
  BY <1>2
<1> QED
  BY <1>3, <1>4 DEF Joined, t, IsRoll

\* Sequences of cells are equal when their cells are.
LEMMA SameCells ==
  ASSUME NEW s \in Seq(Cell), NEW t \in Seq(Cell), Len(s) = Len(t), \A k \in 1 .. Len(s) : s[k] = t[k]
  PROVE  s = t
OBVIOUS

LEMMA BlankFacts ==
  ASSUME NEW n \in Nat, NEW col \in Colours
  PROVE  LET blank == [k \in 1 .. n |-> [char |-> 0, colour |-> col]]
         IN  blank \in Seq(Cell) /\ Len(blank) = n
             /\ \A k \in 1 .. n : blank[k] = [char |-> 0, colour |-> col]
<1>1. [char |-> 0, colour |-> col] \in Cell
  BY DEF Cell
<1> QED
  BY <1>1

LEMMA Divided ==
  ASSUME NEW w \in Nat \ {0}, NEW p \in Nat
  PROVE  \E q \in Nat, r \in 0 .. w - 1 : q = p \div w /\ r = p % w /\ p = q * w + r
<1>1. p \div w \in Nat /\ p % w \in 0 .. w - 1
  OBVIOUS
<1>2. p = w * (p \div w) + (p % w)
  OBVIOUS
<1>3. PICK q \in Nat : q = p \div w
  BY <1>1
<1>4. w * q = q * w
  OBVIOUS
<1> QED
  BY <1>1, <1>2, <1>3, <1>4

\* Whole lines above do not change the column.
LEMMA SameColumn ==
  ASSUME NEW w \in Nat \ {0}, NEW y \in Nat, NEW p \in Nat, \E n \in Nat : y = n * w
  PROVE  (y + p) % w = p % w
<1>1. y + p \in Nat
  OBVIOUS
<1>2. PICK q \in Nat, r \in 0 .. w - 1 : r = p % w /\ p = q * w + r
  <2>1. \E q \in Nat, r \in 0 .. w - 1 : q = p \div w /\ r = p % w /\ p = q * w + r
    BY Divided, Zenon
  <2> QED
    BY <2>1, Zenon
<1>3. PICK Q \in Nat, R \in 0 .. w - 1 : R = (y + p) % w /\ y + p = Q * w + R
  <2>1. \E z \in Nat, m \in 0 .. w - 1 : z = (y + p) \div w /\ m = (y + p) % w /\ y + p = z * w + m
    BY <1>1, Divided, Zenon
  <2> QED
    BY <2>1, Zenon
<1> PICK n \in Nat : y = n * w
  BY Zenon
<1>4. PICK d \in Int : d = Q - (n + q)
  OBVIOUS
<1>5. d * w = r - R
  <2>1. Q = d + (n + q)
    BY <1>4
  <2>2. Q * w = d * w + (n + q) * w /\ (n + q) * w = n * w + q * w
    BY <2>1, Distributes
  <2>3. PICK A \in Int, B \in Int, C \in Int, D \in Int : A = y /\ A = n * w /\ B = q * w /\ C = d * w /\ D = Q * w
    OBVIOUS
  <2>4. D = C + (A + B)
    BY <2>2, <2>3
  <2>5. p = B + r /\ A + p = D + R
    BY <1>2, <1>3, <2>3
  <2>6. C = r - R
    BY <2>4, <2>5
  <2> QED
    BY <2>3, <2>6
<1>6. d >= 1 => d * w >= w
  OBVIOUS
<1>7. d <= -1 => d * w <= -w
  OBVIOUS
<1>8. d = 0
  BY <1>5, <1>6, <1>7
<1>9. r = R
  BY <1>5, <1>8
<1> QED
  BY <1>2, <1>3, <1>9, Zenon

\* A line below the screen brings the cursor back to the start of a line.
LEMMA BackOnScreen ==
  ASSUME NEW w \in Nat \ {0}, NEW h \in Nat \ {0}, NEW p \in Nat, p > h * w, p <= h * w + w
  PROVE  p - w - (p % w) \in 0 .. h * w
<1>1. PICK q \in Nat, r \in 0 .. w - 1 : q = p \div w /\ r = p % w /\ p = q * w + r
  BY Divided
<1>2. PICK x \in Nat, y \in Nat : x = q * w /\ y = h * w /\ y >= w
  OBVIOUS
<1>3. q >= 1 => x >= w
  BY <1>2
<1>4. q = 0 => x = 0
  BY <1>2
<1>5. p = x + r /\ p > y /\ p <= y + w
  BY <1>1, <1>2
<1>6. p - w - r \in 0 .. y
  BY <1>2, <1>3, <1>4, <1>5
<1> QED
  BY <1>1, <1>2, <1>6

LEMMA RowFacts ==
  ASSUME NEW w \in Nat, NEW n \in Nat, w <= n, NEW c \in [0 .. n -> Cell]
  PROVE  LET row == [k \in 1 .. w |-> c[k - 1]]
         IN  row \in Seq(Cell) /\ Len(row) = w /\ \A k \in 1 .. w : row[k] = c[k - 1]
<1>1. \A k \in 1 .. w : c[k - 1] \in Cell
  OBVIOUS
<1> QED
  BY <1>1

LEMMA LongerBy ==
  ASSUME NEW s \in Seq(Cell), NEW t \in Seq(Cell)
  PROVE  /\ s \o t \in Seq(Cell) /\ Len(s \o t) = Len(s) + Len(t)
         /\ \A k \in 1 .. Len(s) + Len(t) : (s \o t)[k] = IF k <= Len(s) THEN s[k] ELSE t[k - Len(s)]
OBVIOUS

\* The paper and the place on it.
RollNow == IF picture THEN <<>> ELSE gone \o [k \in 1 .. Cells |-> cells[k - 1]]
AtNow == IF picture THEN 0 ELSE Len(gone) + pos

LEMMA MoveReads ==
  ASSUME NEW p, NEW col
  PROVE  Paper!Move(p, col) <=>
           IF p <= Len(RollNow) THEN AtNow' = p /\ RollNow' = RollNow
           ELSE /\ AtNow' = p - (p % Wide)
                /\ RollNow' = RollNow \o [k \in 1 .. Wide |-> [char |-> 0, colour |-> col]]
BY DEF Paper!Move, Paper!Behind, Paper!Blank, Paper!BlankCell, Paper!Wide, Wide, RollNow, AtNow

LEMMA ScreenFacts ==
  TextInv => /\ Wide \in Nat \ {0} /\ Cells \in Nat \ {0} /\ Cells >= Wide
             /\ \E h \in Nat \ {0} : Cells = h * Wide
<1> SUFFICES ASSUME TextInv
             PROVE  /\ Wide \in Nat \ {0} /\ Cells \in Nat \ {0} /\ Cells >= Wide
                    /\ \E h \in Nat \ {0} : Cells = h * Wide
  OBVIOUS
<1> PICK w \in Nat \ {0}, h \in Nat \ {0} : w = size[1] /\ h = size[2] /\ w * h \in Nat /\ w * h >= w /\ w * h = h * w
  BY ScreenLines DEF TextInv
<1>1. w = Wide /\ w * h = Cells
  BY DEF Wide, Cells
<1> QED
  BY <1>1

LEMMA RollFacts ==
  ASSUME TextInv, ~picture
  PROVE  /\ RollNow \in Seq(Cell) /\ Len(RollNow) = Len(gone) + Cells /\ RollNow # <<>>
         /\ AtNow = Len(gone) + pos /\ Len(gone) \in Nat
         /\ \A k \in 1 .. Len(gone) + Cells :
               RollNow[k] = IF k <= Len(gone) THEN gone[k] ELSE cells[k - Len(gone) - 1]
<1>1. gone \in Seq(Cell) /\ cells \in [0 .. Cells -> Cell] /\ Cells \in Nat \ {0}
  BY ScreenFacts DEF TextInv
<1>2. RollNow = Joined(gone, cells, Cells)
  BY DEF RollNow, Joined
<1>3. IsRoll(RollNow, gone, cells, Cells)
  BY <1>1, <1>2, JoinedFacts
<1>4. Len(gone) \in Nat /\ Len(RollNow) = Len(gone) + Cells
  BY <1>1, <1>3 DEF IsRoll
<1>5. RollNow # <<>>
  BY <1>1, <1>4
<1> QED
  BY <1>3, <1>4, <1>5 DEF AtNow, IsRoll

LEMMA RollFactsNext ==
  ASSUME TextInv', ~picture'
  PROVE  /\ RollNow' \in Seq(Cell) /\ Len(RollNow') = Len(gone') + Cells' /\ RollNow' # <<>>
         /\ AtNow' = Len(gone') + pos' /\ Len(gone') \in Nat
         /\ \A k \in 1 .. Len(gone') + Cells' :
               RollNow'[k] = IF k <= Len(gone') THEN gone'[k] ELSE cells'[k - Len(gone') - 1]
<1>1. gone' \in Seq(Cell) /\ cells' \in [0 .. Cells' -> Cell] /\ Cells' \in Nat \ {0}
  <2>1. size' \in Modes \cup {<<GWide, GHigh>>}
    BY DEF TextInv
  <2>2. Cells' = size'[1] * size'[2]
    BY DEF Cells
  <2>3. PICK w \in Nat \ {0}, h \in Nat \ {0} : w = size'[1] /\ h = size'[2] /\ w * h >= w
    BY <2>1, ScreenLines
  <2>4. w * h \in Nat \ {0}
    BY <2>3
  <2> QED
    BY <2>2, <2>3, <2>4 DEF TextInv
<1>2. RollNow' = Joined(gone', cells', Cells')
  BY DEF RollNow, Joined
<1>3. /\ RollNow' \in Seq(Cell) /\ Len(RollNow') = Len(gone') + Cells'
      /\ \A k \in 1 .. Len(gone') + Cells' :
            RollNow'[k] = IF k <= Len(gone') THEN gone'[k] ELSE cells'[k - Len(gone') - 1]
  <2>1. PICK s, c, n : s = gone' /\ c = cells' /\ n = Cells'
    OBVIOUS
  <2>2. s \in Seq(Cell) /\ n \in Nat /\ c \in [0 .. n -> Cell] /\ RollNow' = Joined(s, c, n)
    BY <1>1, <1>2, <2>1
  <2>3. IsRoll(RollNow', s, c, n)
    BY <2>2, JoinedFacts
  <2> QED
    BY <2>1, <2>3 DEF IsRoll
<1>4. Len(gone') \in Nat /\ RollNow' # <<>>
  BY <1>1, <1>3
<1> QED
  BY <1>3, <1>4 DEF AtNow

\* Where a step of text puts the cursor, a line below the screen at most.
LEMMA CursorKeepsText ==
  ASSUME TextInv, ~picture, UNCHANGED <<size, picture>>,
         NEW p \in 0 .. Cells + Wide, NEW cs \in [0 .. Cells -> Cell], set_cursor_pos(p, cs)
  PROVE  TextInv'
<1>0. /\ Wide \in Nat \ {0} /\ Cells \in Nat \ {0} /\ Cells >= Wide /\ p \in Nat /\ p <= Cells + Wide
      /\ gone \in Seq(Cell)
  BY ScreenFacts DEF TextInv
<1>9. (\E n \in Nat : Len(gone) = n * Wide) /\ (\E h \in Nat \ {0} : Cells = h * Wide)
  BY ScreenFacts DEF TextInv
<1> PICK w \in Nat \ {0}, c \in Nat \ {0}, h \in Nat \ {0}, n \in Nat :
      w = Wide /\ c = Cells /\ c = h * w /\ Len(gone) = n * w
  BY <1>0, <1>9
<1>1. Wide' = w /\ Cells' = c /\ c >= w
  BY <1>0 DEF Wide, Cells
<1>2. CASE p <= c
  <2>1. pos' = p /\ cells' = cs /\ gone' = gone
    BY <1>2 DEF set_cursor_pos
  <2>2. ~picture' /\ pos' \in 0 .. Cells' /\ cells' \in [0 .. Cells' -> Cell]
    BY <1>0, <1>1, <1>2, <2>1
  <2>3. gone' \in Seq(Cell) /\ \E m \in Nat : Len(gone') = m * Wide'
    BY <1>0, <1>1, <2>1
  <2>4. size' \in Modes \cup {<<GWide, GHigh>>}
    BY DEF TextInv
  <2> QED
    BY <2>2, <2>3, <2>4 DEF TextInv
<1>3. CASE ~(p <= c)
  <2>1. /\ pos' = p - w - (p % w)
        /\ gone' = gone \o [k \in 1 .. w |-> cs[k - 1]]
        /\ cells' = [k \in 0 .. c |-> IF k = c THEN cs[k] ELSE IF k < c - w THEN cs[k + w] ELSE BlankCell]
    BY <1>3 DEF set_cursor_pos, clear_down_row
  <2>2. pos' \in 0 .. c
    <3>1. p > h * w /\ p <= h * w + w
      BY <1>0, <1>1, <1>3
    <3>2. p - w - (p % w) \in 0 .. h * w
      BY <1>0, <3>1, BackOnScreen
    <3> QED
      BY <2>1, <3>2
  <2>3. cells' \in [0 .. c -> Cell]
    BY <1>1, <2>1, DefaultIsColour
  <2>4. gone' \in Seq(Cell) /\ Len(gone') = n * w + w
    <3> DEFINE row == [k \in 1 .. w |-> cs[k - 1]]
    <3>1. w \in Nat /\ c \in Nat /\ w <= c /\ cs \in [0 .. c -> Cell]
      BY <1>1
    <3>2. row \in Seq(Cell) /\ Len(row) = w
      BY <3>1, RowFacts
    <3>3. gone' = gone \o row /\ Len(gone) = n * w
      BY <2>1
    <3> HIDE DEF row
    <3>4. gone \o row \in Seq(Cell) /\ Len(gone \o row) = Len(gone) + Len(row)
      BY <1>0, <3>2, LongerBy
    <3> QED
      BY <3>2, <3>3, <3>4
  <2>5. Len(gone') = (n + 1) * w
    BY <2>4, Distributes
  <2>6. size' \in Modes \cup {<<GWide, GHigh>>} /\ ~picture'
    BY DEF TextInv
  <2>7. \E m \in Nat : Len(gone') = m * Wide'
    BY <1>1, <2>5
  <2> QED
    BY <1>1, <2>2, <2>3, <2>4, <2>6, <2>7 DEF TextInv
<1> QED
  BY <1>2, <1>3

\* Seen from the paper it goes to that place, over a new line where there is none.
LEMMA CursorMoves ==
  ASSUME TextInv, ~picture, UNCHANGED <<size, picture>>,
         NEW p \in 0 .. Cells + Wide, NEW cs \in [0 .. Cells -> Cell], set_cursor_pos(p, cs),
         \A k \in 0 .. Cells - 1 : cs[k] = cells[k]
  PROVE  Paper!Move(Len(gone) + p, Default)
<1>0. /\ Wide \in Nat \ {0} /\ Cells \in Nat \ {0} /\ Cells >= Wide /\ p \in Nat /\ p <= Cells + Wide
      /\ gone \in Seq(Cell) /\ Default \in Colours
  BY ScreenFacts, DefaultIsColour DEF TextInv
<1>20. Len(gone) \in Nat /\ \E n \in Nat : Len(gone) = n * Wide
  BY <1>0 DEF TextInv
<1>21. (Len(gone) + p) % Wide = p % Wide
  BY <1>0, <1>20, SameColumn
<1> PICK w \in Nat \ {0}, c \in Nat \ {0}, G \in Nat : w = Wide /\ c = Cells /\ c >= w /\ G = Len(gone)
  BY <1>0, <1>20
<1>1. Wide' = w /\ Cells' = c /\ ~picture'
  BY DEF Wide, Cells
<1>2. TextInv'
  BY CursorKeepsText
<1>3. RollNow \in Seq(Cell) /\ Len(RollNow) = G + c
  BY RollFacts
<1>4. \A k \in 1 .. G + c : RollNow[k] = IF k <= G THEN gone[k] ELSE cells[k - G - 1]
  BY RollFacts
<1> PICK H : H = Len(gone')
  OBVIOUS
<1>7. RollNow' \in Seq(Cell) /\ Len(RollNow') = H + c /\ AtNow' = H + pos' /\ H \in Nat
  BY <1>1, <1>2, RollFactsNext
<1>8. \A k \in 1 .. H + c : RollNow'[k] = IF k <= H THEN gone'[k] ELSE cells'[k - H - 1]
  BY <1>1, <1>2, RollFactsNext
<1>5. CASE p <= c
  <2>1. pos' = p /\ cells' = cs /\ gone' = gone
    BY <1>5 DEF set_cursor_pos
  <2>0. H = G
    BY <2>1
  <2>2. AtNow' = G + p /\ G + p <= Len(RollNow)
    BY <1>0, <1>3, <1>7, <1>5, <2>0, <2>1
  <2>3. \A k \in 1 .. G + c : RollNow'[k] = RollNow[k]
    <3> SUFFICES ASSUME NEW k \in 1 .. G + c PROVE RollNow'[k] = RollNow[k]
      OBVIOUS
    <3>1. k > G => k - G - 1 \in 0 .. Cells - 1
      OBVIOUS
    <3>2. k > G => cs[k - G - 1] = cells[k - G - 1]
      BY <3>1
    <3> QED
      BY <1>4, <1>8, <2>0, <2>1, <3>2
  <2>4. RollNow' = RollNow
    BY <1>3, <1>7, <2>0, <2>3, SameCells
  <2> QED
    BY <2>2, <2>4, MoveReads
<1>6. CASE ~(p <= c)
  <2> DEFINE row == [k \in 1 .. w |-> cs[k - 1]]
             blank == [k \in 1 .. w |-> [char |-> 0, colour |-> Default]]
  <2>1. /\ pos' = p - w - (p % w) /\ gone' = gone \o row
        /\ cells' = [k \in 0 .. c |-> IF k = c THEN cs[k] ELSE IF k < c - w THEN cs[k + w] ELSE BlankCell]
    BY <1>6 DEF set_cursor_pos, clear_down_row
  <2>2. row \in Seq(Cell) /\ Len(row) = w /\ \A k \in 1 .. w : row[k] = cells[k - 1]
    <3>1. w \in Nat /\ c \in Nat /\ w <= c /\ cs \in [0 .. c -> Cell]
      OBVIOUS
    <3>2. row \in Seq(Cell) /\ Len(row) = w /\ \A k \in 1 .. w : row[k] = cs[k - 1]
      BY <3>1, RowFacts
    <3>3. \A k \in 1 .. w : cs[k - 1] = cells[k - 1]
      OBVIOUS
    <3> QED
      BY <3>2, <3>3
  <2>3. blank \in Seq(Cell) /\ Len(blank) = w /\ \A k \in 1 .. w : blank[k] = BlankCell
    BY <1>0, BlankFacts DEF BlankCell
  <2>4. cells' = [k \in 0 .. c |-> IF k = c THEN cs[k] ELSE IF k < c - w THEN cells[k + w] ELSE BlankCell]
    <3>1. \A k \in 0 .. c : k < c - w => cs[k + w] = cells[k + w]
      OBVIOUS
    <3> QED
      BY <2>1, <3>1
  <2> HIDE DEF row
  <2>5. H = G + w /\ \A k \in 1 .. G + w : gone'[k] = IF k <= G THEN gone[k] ELSE row[k - G]
    <3>1. /\ Len(gone \o row) = Len(gone) + Len(row)
          /\ \A k \in 1 .. Len(gone) + Len(row) :
                (gone \o row)[k] = IF k <= Len(gone) THEN gone[k] ELSE row[k - Len(gone)]
      BY <1>0, <2>2, LongerBy
    <3>2. Len(gone) = G /\ Len(row) = w /\ gone' = gone \o row
      BY <2>1, <2>2
    <3> QED
      BY <3>1, <3>2
  <2> DEFINE longer == RollNow \o blank
  <2>6. /\ longer \in Seq(Cell) /\ Len(longer) = G + c + w
        /\ \A k \in 1 .. G + c + w : longer[k] = IF k <= G + c THEN RollNow[k] ELSE blank[k - (G + c)]
    <3>1. /\ longer \in Seq(Cell) /\ Len(longer) = Len(RollNow) + Len(blank)
          /\ \A k \in 1 .. Len(RollNow) + Len(blank) :
                longer[k] = IF k <= Len(RollNow) THEN RollNow[k] ELSE blank[k - Len(RollNow)]
      BY <1>3, <2>3, LongerBy
    <3>2. Len(RollNow) = G + c /\ Len(blank) = w
      BY <1>3, <2>3
    <3> HIDE DEF longer, blank
    <3> QED
      BY <3>1, <3>2
  <2> HIDE DEF longer, blank
  <2>7. \A k \in 1 .. G + c + w : RollNow'[k] = longer[k]
    <3> SUFFICES ASSUME NEW k \in 1 .. G + c + w PROVE RollNow'[k] = longer[k]
      OBVIOUS
    <3>0. RollNow'[k] = IF k <= G + w THEN gone'[k] ELSE cells'[k - G - w - 1]
      <4>1. k \in 1 .. H + c /\ k - H - 1 = k - G - w - 1
        BY <2>5
      <4> QED
        BY <1>8, <2>5, <4>1
    <3>9. longer[k] = IF k <= G + c THEN RollNow[k] ELSE blank[k - (G + c)]
      BY <2>6
    <3>1. CASE k <= G
      <4>1. RollNow'[k] = gone[k]
        BY <2>5, <3>0, <3>1
      <4>2. RollNow[k] = gone[k]
        BY <1>4, <3>1
      <4> QED
        BY <3>1, <3>9, <4>1, <4>2
    <3>2. CASE k > G /\ k <= G + w
      <4>0. k - G \in 1 .. w /\ k <= G + c /\ ~(k <= G)
        BY <3>2
      <4> PICK i \in 1 .. w : i = k - G /\ i - 1 = k - G - 1
        BY <4>0
      <4>1. RollNow'[k] = row[i]
        BY <2>5, <3>0, <3>2, <4>0
      <4>2. row[i] = cells[i - 1]
        BY <2>2, Zenon
      <4>3. RollNow[k] = cells[k - G - 1] /\ k <= G + c
        <5>1. k \in 1 .. G + c
          BY <4>0
        <5> QED
          BY <1>4, <4>0, <5>1
      <4> QED
        BY <3>9, <4>1, <4>2, <4>3
    <3>3. CASE k > G + w /\ k <= G + c
      <4>0. k - G - w - 1 \in 0 .. c /\ k - G - w - 1 < c - w /\ (k - G - w - 1) + w = k - G - 1
        BY <3>3
      <4> PICK j \in 0 .. c : j = k - G - w - 1 /\ j < c - w /\ j + w = k - G - 1
        BY <4>0
      <4>1. RollNow'[k] = cells'[j]
        <5>1. ~(k <= G + w)
          BY <3>3
        <5> QED
          BY <3>0, <5>1
      <4>2. cells'[j] = cells[k - G - 1]
        BY <2>4
      <4>3. RollNow[k] = cells[k - G - 1]
        <5>1. k \in 1 .. G + c /\ ~(k <= G)
          BY <3>3
        <5> QED
          BY <1>4, <5>1
      <4> QED
        BY <3>3, <3>9, <4>1, <4>2, <4>3
    <3>4. CASE k > G + c
      <4> PICK j \in 0 .. c : j = k - G - w - 1 /\ ~(j < c - w) /\ j # c
        BY <3>4
      <4>1. RollNow'[k] = cells'[j]
        BY <3>0, <3>4
      <4>2. cells'[j] = BlankCell
        BY <2>4
      <4>3. blank[k - (G + c)] = BlankCell
        <5>1. k - (G + c) \in 1 .. w
          BY <3>4
        <5> QED
          BY <2>3, <5>1
      <4> QED
        BY <3>4, <3>9, <4>1, <4>2, <4>3
    <3> QED
      BY <3>1, <3>2, <3>3, <3>4
  <2>8. RollNow' = longer
    <3>1. RollNow' \in Seq(Cell) /\ longer \in Seq(Cell) /\ Len(RollNow') = Len(longer)
      BY <1>7, <2>5, <2>6
    <3>2. Len(RollNow') = G + c + w
      BY <1>7, <2>5
    <3>3. \A k \in 1 .. Len(RollNow') : RollNow'[k] = longer[k]
      BY <2>7, <3>2, Zenon
    <3> QED
      BY <3>1, <3>3, SameCells, Zenon
  <2>9. AtNow' = (G + p) - ((G + p) % w)
    <3>2. (G + p) % w = p % w
      BY <1>21
    <3>3. PICK r \in 0 .. w - 1 : r = p % w
      BY <1>0, Divided
    <3>4. pos' = p - w - r
      BY <2>1, <3>3
    <3>5. AtNow' = H + pos' /\ H = G + w /\ p \in Nat
      BY <1>0, <1>7, <2>5
    <3>6. AtNow' = (G + p) - r
      BY <3>4, <3>5
    <3> QED
      BY <3>2, <3>3, <3>6
  <2>10. ~(G + p <= Len(RollNow))
    BY <1>0, <1>3, <1>6
  <2> QED
    BY <2>8, <2>9, <2>10, MoveReads DEF blank, longer
<1> QED
  BY <1>5, <1>6

-----------------------------------------------------------------------------
(* Each step of text is a step of the roll of paper.                         *)

\* The start of the line of w cells that place p is in.
Start(p, w) == p - (p % w)

LEMMA RowStart ==
  ASSUME NEW w \in Nat \ {0}, NEW p \in Nat
  PROVE  Start(p, w) \in 0 .. p /\ (p \div w + 1) * w = Start(p, w) + w
<1>1. PICK q \in Nat, r \in 0 .. w - 1 : q = p \div w /\ r = p % w /\ p = q * w + r
  BY Divided
<1>2. PICK x \in Nat : x = q * w
  OBVIOUS
<1>3. (q + 1) * w = x + w
  BY <1>2, Distributes
<1>4. p - r = x
  BY <1>1, <1>2
<1> QED
  BY <1>1, <1>2, <1>3, <1>4 DEF Start

LEMMA RowBelow ==
  ASSUME NEW w \in Nat \ {0}, NEW p \in Nat, NEW y \in Nat, \E n \in Nat : y = n * w
  PROVE  Start(y + p, w) = y + Start(p, w)
<1>1. PICK r \in Nat : r = p % w
  BY Divided
<1>2. (y + p) % w = r
  BY <1>1, SameColumn
<1> QED
  BY <1>1, <1>2 DEF Start

LEMMA FeedReads ==
  ASSUME NEW p \in {AtNow + Wide, Start(AtNow, Wide), Start(AtNow, Wide) + Wide}
                     \cup (Len(RollNow) - Cells .. Len(RollNow)),
         NEW col \in Colours, RollNow # <<>>, size' = size, Paper!Move(p, col)
  PROVE  Paper!Next
BY DEF Paper!Next, Paper!Feed, Paper!Behind, Paper!Top, Paper!Wide, Wide, Cells, RollNow, AtNow, Start

\* The cursor alone.
LEMMA CursorFeeds ==
  ASSUME TextInv, ~picture, NextLine \/ LineStart \/ new_line \/ Place
  PROVE  TextInv' /\ Paper!Next
<1>0. /\ Wide \in Nat \ {0} /\ Cells \in Nat \ {0} /\ Cells >= Wide
      /\ pos \in 0 .. Cells /\ cells \in [0 .. Cells -> Cell] /\ Default \in Colours
  BY ScreenFacts, DefaultIsColour DEF TextInv
<1> PICK n \in Nat : Len(gone) = n * Wide
  BY DEF TextInv
<1> PICK w \in Nat \ {0}, c \in Nat \ {0}, G \in Nat :
      w = Wide /\ c = Cells /\ c >= w /\ G = Len(gone) /\ G = n * w
  BY <1>0, RollFacts
<1>1. Len(RollNow) = G + c /\ AtNow = G + pos /\ RollNow # <<>>
  BY RollFacts
<1> DEFINE start == Start(pos, w)
<1>2. pos \in Nat /\ pos <= c
  BY <1>0
<1>3. start \in 0 .. pos /\ (pos \div w + 1) * w = start + w /\ Start(G + pos, w) = G + start
  <2>1. Start(pos, w) \in 0 .. pos /\ (pos \div w + 1) * w = Start(pos, w) + w
    BY <1>2, RowStart
  <2>2. Start(G + pos, w) = G + Start(pos, w)
    <3>1. \E m \in Nat : G = m * w
      OBVIOUS
    <3> QED
      BY <1>2, <3>1, RowBelow, Zenon
  <2> QED
    BY <2>1, <2>2
<1> HIDE DEF start
<1>4. ASSUME NEW p \in 0 .. c + w, Text(set_cursor_pos(p, cells)),
             G + p \in {G + pos + w, G + start, G + start + w} \cup (G .. G + c)
      PROVE  TextInv' /\ Paper!Next
  <2>1. UNCHANGED <<size, picture>> /\ set_cursor_pos(p, cells)
    BY <1>4 DEF Text
  <2>2. TextInv' /\ Paper!Move(G + p, Default)
    BY <1>0, <2>1, CursorKeepsText, CursorMoves
  <2>3. G + p \in {AtNow + Wide, Start(AtNow, Wide), Start(AtNow, Wide) + Wide}
                     \cup (Len(RollNow) - Cells .. Len(RollNow))
    <3>1. AtNow + Wide = G + pos + w /\ Start(AtNow, Wide) = G + start
      BY <1>1, <1>3
    <3>2. Len(RollNow) - Cells = G /\ Len(RollNow) = G + c
      BY <1>1
    <3> QED
      BY <1>4, <3>1, <3>2, Zenon
  <2> QED
    BY <1>0, <1>1, <2>1, <2>2, <2>3, FeedReads
<1>5. CASE NextLine
  BY <1>2, <1>4, <1>5 DEF NextLine
<1>6. CASE LineStart
  BY <1>2, <1>3, <1>4, <1>6 DEF LineStart, start, Start
<1>7. CASE new_line
  <2>1. coord_from_pos(0, pos \div Wide + 1) = start + w
    BY <1>2, <1>3 DEF coord_from_pos
  <2> QED
    BY <1>2, <1>3, <1>4, <1>7, <2>1 DEF new_line
<1>8. CASE Place
  <2>1. PICK p \in 0 .. Cells - 1 : Text(set_cursor_pos(p, cells))
    BY <1>8 DEF Place, Text
  <2>2. p \in 0 .. c + w /\ G + p \in G .. G + c
    OBVIOUS
  <2> QED
    BY <1>4, <2>1, <2>2
<1> QED
  BY <1>5, <1>6, <1>7, <1>8

LEMMA InkReads ==
  ASSUME NEW c \in Chars, RollNow # <<>>, size' = size, AtNow < Len(RollNow),
         RollNow' = [RollNow EXCEPT ![AtNow + 1].char = c], AtNow' = AtNow + 1
  PROVE  Paper!Next
BY DEF Paper!Next, Paper!Write, Paper!Ink, RollNow, AtNow

LEMMA LostReads ==
  ASSUME NEW col \in Colours, RollNow # <<>>, size' = size, AtNow = Len(RollNow), Paper!Move(AtNow + 1, col)
  PROVE  Paper!Next
BY DEF Paper!Next, Paper!Write, Paper!Lost, RollNow, AtNow

\* A character is ink where the cursor is, or is lost behind the end.
LEMMA PutWrites ==
  ASSUME TextInv, NEW ch \in Chars, Put(ch)
  PROVE  TextInv' /\ Paper!Next
<1> DEFINE cs == [cells EXCEPT ![pos].char = ch]
<1>1. ~picture /\ UNCHANGED <<size, picture>> /\ set_cursor_pos(pos + 1, cs)
  BY DEF Put, Text
<1>2. /\ Wide \in Nat \ {0} /\ Cells \in Nat \ {0} /\ Cells >= Wide
      /\ pos \in 0 .. Cells /\ cells \in [0 .. Cells -> Cell] /\ Default \in Colours
  BY <1>1, ScreenFacts, DefaultIsColour DEF TextInv
<1>3. cs \in [0 .. Cells -> Cell]
  <2>1. [cells[pos] EXCEPT !.char = ch] \in Cell
    BY <1>2 DEF Cell
  <2> QED
    BY <1>2, <2>1
<1>4. pos + 1 \in 0 .. Cells + Wide
  BY <1>2
<1>5. TextInv'
  <2> HIDE DEF cs
  <2> QED
    BY <1>1, <1>3, <1>4, CursorKeepsText
<1> PICK G \in Nat, c \in Nat \ {0} : G = Len(gone) /\ c = Cells
  BY <1>1, <1>2, RollFacts
<1>6. RollNow \in Seq(Cell) /\ Len(RollNow) = G + c /\ AtNow = G + pos /\ RollNow # <<>>
  BY <1>1, RollFacts
<1>7. \A k \in 1 .. G + c : RollNow[k] = IF k <= G THEN gone[k] ELSE cells[k - G - 1]
  BY <1>1, RollFacts
<1>8. CASE pos = Cells
  <2>1. \A k \in 0 .. Cells - 1 : cs[k] = cells[k]
    BY <1>2, <1>8
  <2> HIDE DEF cs
  <2>2. Paper!Move(G + (pos + 1), Default)
    BY <1>1, <1>3, <1>4, <2>1, CursorMoves
  <2>3. G + (pos + 1) = AtNow + 1 /\ AtNow = Len(RollNow)
    BY <1>2, <1>6, <1>8
  <2>4. Paper!Move(AtNow + 1, Default)
    BY <2>2, <2>3
  <2> QED
    BY <1>1, <1>2, <1>5, <1>6, <2>3, <2>4, LostReads
<1>9. CASE pos # Cells
  <2>1. pos' = pos + 1 /\ cells' = cs /\ gone' = gone /\ Cells' = Cells /\ ~picture'
    BY <1>1, <1>2, <1>9 DEF set_cursor_pos, Cells
  <2>2. /\ RollNow' \in Seq(Cell) /\ Len(RollNow') = G + c /\ AtNow' = G + (pos + 1)
        /\ \A k \in 1 .. G + c : RollNow'[k] = IF k <= G THEN gone[k] ELSE cs[k - G - 1]
    BY <1>5, <2>1, RollFactsNext
  <2> DEFINE inked == [RollNow EXCEPT ![AtNow + 1].char = ch]
  <2>3. AtNow + 1 \in 1 .. G + c
    BY <1>2, <1>6, <1>9
  <2>4. RollNow[AtNow + 1] = cells[pos]
    <3>1. PICK k \in 1 .. G + c : k = AtNow + 1
      BY <2>3
    <3>2. ~(k <= G) /\ k - G - 1 = pos
      BY <1>2, <1>6, <3>1
    <3>3. RollNow[k] = cells[k - G - 1]
      BY <1>7, <3>2
    <3> QED
      BY <3>1, <3>2, <3>3
  <2>5. /\ inked \in Seq(Cell) /\ Len(inked) = G + c
        /\ \A k \in 1 .. G + c :
              inked[k] = IF k = AtNow + 1 THEN [cells[pos] EXCEPT !.char = ch] ELSE RollNow[k]
    <3>1. [cells[pos] EXCEPT !.char = ch] \in Cell
      BY <1>2 DEF Cell
    <3> PICK cell \in Cell : cell = [cells[pos] EXCEPT !.char = ch]
      BY <3>1
    <3>2. inked = [RollNow EXCEPT ![AtNow + 1] = cell]
      BY <2>4
    <3> HIDE DEF inked
    <3> QED
      BY <1>6, <2>3, <3>2
  <2>6. \A k \in 1 .. G + c : RollNow'[k] = inked[k]
    <3> HIDE DEF inked
    <3> SUFFICES ASSUME NEW k \in 1 .. G + c PROVE RollNow'[k] = inked[k]
      OBVIOUS
    <3>1. CASE k <= G
      <4>1. k # AtNow + 1
        BY <1>2, <1>6, <3>1
      <4> QED
        BY <1>7, <2>2, <2>5, <3>1, <4>1
    <3>2. CASE k > G
      <4>0. k - G - 1 \in 0 .. c - 1
        BY <3>2
      <4> PICK j \in 0 .. c - 1 : j = k - G - 1
        BY <4>0
      <4>1. k = AtNow + 1 <=> j = pos
        BY <1>2, <1>6, <3>2
      <4>2. RollNow'[k] = cs[j] /\ RollNow[k] = cells[j]
        BY <1>7, <2>2, <3>2
      <4>3. cs[j] = IF j = pos THEN [cells[pos] EXCEPT !.char = ch] ELSE cells[j]
        BY <1>2
      <4> QED
        BY <2>5, <4>1, <4>2, <4>3
    <3> QED
      BY <3>1, <3>2
  <2>7. RollNow' = inked
    <3> HIDE DEF inked
    <3>1. RollNow' \in Seq(Cell) /\ inked \in Seq(Cell) /\ Len(RollNow') = Len(inked)
      BY <2>2, <2>5
    <3>2. \A k \in 1 .. Len(RollNow') : RollNow'[k] = inked[k]
      BY <2>2, <2>6, Zenon
    <3> QED
      BY <3>1, <3>2, SameCells, Zenon
  <2>8. AtNow' = AtNow + 1 /\ AtNow < Len(RollNow)
    BY <1>2, <1>6, <2>2, <2>3
  <2> QED
    BY <1>1, <1>5, <1>6, <2>7, <2>8, InkReads
<1> QED
  BY <1>8, <1>9

LEMMA PaintReads ==
  ASSUME NEW col \in Colours, NEW s \in SUBSET (Len(RollNow) - Cells + 1 .. Len(RollNow)),
         RollNow # <<>>, size' = size, AtNow' = AtNow,
         RollNow' = [k \in 1 .. Len(RollNow) |-> IF k \in s THEN [RollNow[k] EXCEPT !.colour = col] ELSE RollNow[k]]
  PROVE  Paper!Next
<1>1. /\ RollNow # <<>> /\ UNCHANGED <<AtNow, size>>
      /\ \E t \in SUBSET (Len(RollNow) - size[1] * size[2] + 1 .. Len(RollNow)), d \in Colours :
            RollNow' = [k \in 1 .. Len(RollNow) |-> IF k \in t THEN [RollNow[k] EXCEPT !.colour = d] ELSE RollNow[k]]
  BY Zenon DEF Cells
<1>2. Paper!Paint
  BY <1>1, Zenon DEF Paper!Paint, Paper!Top, RollNow, AtNow
<1> QED
  BY <1>2, Zenon DEF Paper!Next

\* Colours of a line are changed where it is, on the screen.
LEMMA ColoursPaint ==
  ASSUME TextInv, NEW line, NEW col \in Colours, NEW start, NEW end, set_line_color(line, col, start, end)
  PROVE  TextInv' /\ Paper!Next
<1> DEFINE In(k) == k \in line * Wide + start .. line * Wide + end - 1
<1>1. /\ ~picture /\ UNCHANGED <<size, picture, pos, gone>>
      /\ cells' = [k \in DOMAIN cells |-> IF In(k) THEN [cells[k] EXCEPT !.colour = col] ELSE cells[k]]
  BY DEF set_line_color, Text
<1> HIDE DEF In
<1>2. /\ Cells \in Nat \ {0} /\ pos \in 0 .. Cells /\ cells \in [0 .. Cells -> Cell]
  BY <1>1, ScreenFacts DEF TextInv
<1>3. \A x \in Cell : [x EXCEPT !.colour = col] \in Cell
  BY DEF Cell
<1>4. cells' \in [0 .. Cells -> Cell] /\ Cells' = Cells /\ Wide' = Wide /\ ~picture'
  BY <1>1, <1>2, <1>3 DEF Cells, Wide
<1>5. TextInv'
  BY <1>1, <1>2, <1>4 DEF TextInv
<1> PICK G \in Nat, c \in Nat \ {0} : G = Len(gone) /\ c = Cells
  BY <1>1, <1>2, RollFacts
<1>6. RollNow \in Seq(Cell) /\ Len(RollNow) = G + c /\ AtNow = G + pos /\ RollNow # <<>>
  BY <1>1, RollFacts
<1>7. \A k \in 1 .. G + c : RollNow[k] = IF k <= G THEN gone[k] ELSE cells[k - G - 1]
  BY <1>1, RollFacts
<1>8. RollNow' \in Seq(Cell) /\ Len(RollNow') = G + c /\ AtNow' = G + pos
  BY <1>1, <1>4, <1>5, RollFactsNext
<1>9. \A k \in 1 .. G + c : RollNow'[k] = IF k <= G THEN gone[k] ELSE cells'[k - G - 1]
  BY <1>1, <1>4, <1>5, RollFactsNext
<1> DEFINE s == {k \in G + 1 .. G + c : In(k - G - 1)}
           Painted(k) == IF k \in s THEN [RollNow[k] EXCEPT !.colour = col] ELSE RollNow[k]
           painted == [k \in 1 .. G + c |-> Painted(k)]
<1>10. painted \in Seq(Cell) /\ Len(painted) = G + c
  <2>1. \A k \in 1 .. G + c : Painted(k) \in Cell
    BY <1>3, <1>6
  <2> HIDE DEF Painted
  <2> QED
    BY <2>1
<1>11. \A k \in 1 .. G + c : RollNow'[k] = painted[k]
  <2> SUFFICES ASSUME NEW k \in 1 .. G + c PROVE RollNow'[k] = Painted(k)
    OBVIOUS
  <2>1. CASE k <= G
    BY <1>7, <1>9, <2>1
  <2>2. CASE k > G
    <3>0. k - G - 1 \in 0 .. c - 1
      BY <2>2
    <3> PICK j \in 0 .. c - 1 : j = k - G - 1
      BY <3>0
    <3>1. RollNow'[k] = cells'[j] /\ RollNow[k] = cells[j]
      BY <1>7, <1>9, <2>2
    <3>2. cells'[j] = IF In(j) THEN [cells[j] EXCEPT !.colour = col] ELSE cells[j]
      <4>1. j \in DOMAIN cells
        BY <1>2
      <4> QED
        BY <1>1, <4>1
    <3>3. k \in s <=> In(j)
      BY <2>2
    <3> QED
      BY <3>1, <3>2, <3>3
  <2> QED
    BY <2>1, <2>2
<1>12. RollNow' = painted
  <2> HIDE DEF painted
  <2> QED
    BY <1>8, <1>10, <1>11, SameCells
<1>13. s \in SUBSET (Len(RollNow) - Cells + 1 .. Len(RollNow))
  BY <1>6
<1> HIDE DEF s
<1>14. RollNow' = [k \in 1 .. Len(RollNow) |-> IF k \in s THEN [RollNow[k] EXCEPT !.colour = col] ELSE RollNow[k]]
  BY <1>6, <1>12
<1> QED
  BY <1>1, <1>5, <1>6, <1>8, <1>13, <1>14, PaintReads

LEMMA ClearReads ==
  ASSUME NEW col \in Colours, size' \in Modes \cup {<<GWide, GHigh>>}, AtNow' = 0,
         RollNow' = [k \in 1 .. Cells' |-> [char |-> 0, colour |-> col]]
  PROVE  Paper!Next
BY DEF Paper!Next, Paper!Clear, Paper!Blank, Paper!BlankCell, Cells, RollNow, AtNow

\* An empty screen is new paper.
LEMMA ClearsAreBlank ==
  ASSUME NEW s \in Modes \cup {<<GWide, GHigh>>}, NEW col \in Colours,
         size' = s, clear(s, col), picture' = FALSE
  PROVE  /\ TextInv' /\ AtNow' = 0
         /\ RollNow' = [k \in 1 .. Cells' |-> [char |-> 0, colour |-> col]]
<1> PICK c : c = s[1] * s[2]
  OBVIOUS
<1>1. Cells' = c /\ c \in Nat
  BY ScreenLines DEF Cells
<1>2. pos' = 0 /\ gone' = <<>> /\ cells' = [k \in 0 .. c |-> [char |-> 0, colour |-> col]]
  BY DEF clear
<1>3. [char |-> 0, colour |-> col] \in Cell
  BY DEF Cell
<1>4. gone' = <<>> /\ gone' \in Seq(Cell) /\ Len(gone') = 0
  <2>1. gone' = <<>>
    BY <1>2
  <2> QED
    BY <2>1
<1>9. \E n \in Nat : Len(gone') = n * Wide'
  <2>1. PICK w \in Nat : w = Wide'
    BY ScreenLines DEF Wide
  <2>2. PICK n \in Nat : n = 0
    OBVIOUS
  <2>3. n * w = 0
    BY <2>2
  <2> QED
    BY <1>4, <2>1, <2>3
<1>5. TextInv'
  BY <1>1, <1>2, <1>3, <1>4, <1>9 DEF TextInv
<1>6. /\ RollNow' \in Seq(Cell) /\ Len(RollNow') = c /\ AtNow' = 0
      /\ \A k \in 1 .. c : RollNow'[k] = [char |-> 0, colour |-> col]
  <2>1. /\ RollNow' \in Seq(Cell) /\ Len(RollNow') = 0 + c /\ AtNow' = 0 + 0
        /\ \A k \in 1 .. 0 + c : RollNow'[k] = IF k <= 0 THEN gone'[k] ELSE cells'[k - 0 - 1]
    BY <1>1, <1>2, <1>4, <1>5, RollFactsNext
  <2>2. \A k \in 1 .. c : k - 1 \in 0 .. c /\ k - 0 - 1 = k - 1 /\ ~(k <= 0)
    BY <1>1
  <2> QED
    BY <1>1, <1>2, <2>1, <2>2
<1> DEFINE blank == [k \in 1 .. c |-> [char |-> 0, colour |-> col]]
<1>7. blank \in Seq(Cell) /\ Len(blank) = c /\ \A k \in 1 .. c : blank[k] = [char |-> 0, colour |-> col]
  BY <1>1, BlankFacts
<1>8. RollNow' = blank
  <2> HIDE DEF blank
  <2> QED
    BY <1>6, <1>7, SameCells
<1> QED
  BY <1>1, <1>5, <1>6, <1>8

LEMMA PictureReads ==
  ASSUME RollNow' = <<>>, AtNow' = 0, size' \in Modes \cup {<<GWide, GHigh>>} \cup {size}
  PROVE  Paper!Next
BY DEF Paper!Next, Paper!Picture, RollNow, AtNow

PaperVars == <<RollNow, AtNow, size>>

\* While there is a picture there is no paper.
LEMMA NoPaper ==
  ASSUME TextInv, picture, picture', size' = size
  PROVE  TextInv' /\ UNCHANGED PaperVars
BY DEF TextInv, PaperVars, RollNow, AtNow

LEMMA SamePaper ==
  ASSUME TextInv, UNCHANGED <<text, picture>>
  PROVE  TextInv' /\ UNCHANGED PaperVars
BY DEF TextInv, PaperVars, RollNow, AtNow, text, Cells, Wide

LEMMA PaperStep ==
  ASSUME TextInv, [Next]_vars
  PROVE  TextInv' /\ [Paper!Next]_PaperVars
<1>1. CASE UNCHANGED vars \/ Draw \/ Show
  <2>1. UNCHANGED <<text, picture>>
    BY <1>1 DEF vars, Draw, Show
  <2> QED
    BY <2>1, SamePaper
<1>2. CASE NextLine \/ LineStart \/ new_line \/ Place
  <2>1. CASE picture
    <3>1. UNCHANGED <<size, picture>>
      BY <1>2 DEF NextLine, LineStart, new_line, Place, Text
    <3> QED
      BY <2>1, <3>1, NoPaper
  <2>2. CASE ~picture
    BY <1>2, <2>2, CursorFeeds
  <2> QED
    BY <2>1, <2>2
<1>3. CASE PutDrawn \/ (\E c \in Inks : gclear(c))
  <2>1. picture /\ UNCHANGED <<size, picture>>
    BY <1>3 DEF PutDrawn, gclear
  <2> QED
    BY <2>1, NoPaper
<1>4. CASE \E c \in Chars : Put(c)
  BY <1>4, PutWrites
<1>5. CASE \E line \in 0 .. size[2] - 1, col \in Colours : set_line_color(line, col, 0, Wide)
  BY <1>5, ColoursPaint
<1>6. CASE Clear \/ (\E m \in Modes : set_mode(m))
  <2>1. PICK s \in Modes \cup {<<GWide, GHigh>>}, col \in Colours :
            size' = s /\ clear(s, col) /\ picture' = FALSE
    <3>1. CASE Clear
      <4>1. ~picture /\ UNCHANGED <<size, picture>> /\ \E col \in Colours : clear(size, col)
        BY <3>1 DEF Clear, Text
      <4>2. picture' = FALSE
        BY <4>1
      <4> QED
        BY <4>1, <4>2 DEF TextInv
    <3>2. CASE \E m \in Modes : set_mode(m)
      BY <3>2, DefaultIsColour DEF set_mode
    <3> QED
      BY <1>6, <3>1, <3>2
  <2>2. /\ TextInv' /\ AtNow' = 0
        /\ RollNow' = [k \in 1 .. Cells' |-> [char |-> 0, colour |-> col]]
    BY <2>1, ClearsAreBlank
  <2> QED
    BY <2>1, <2>2, ClearReads
<1>7. CASE StartPicture \/ enter_graphics
  <2>1. picture' = TRUE /\ size' \in Modes \cup {<<GWide, GHigh>>} \cup {size}
    BY <1>7 DEF StartPicture, enter_graphics, Shows
  <2>2. TextInv'
    BY <2>1 DEF TextInv
  <2>3. RollNow' = <<>> /\ AtNow' = 0
    BY <2>1 DEF RollNow, AtNow
  <2> QED
    BY <2>1, <2>2, <2>3, PictureReads
<1> QED
  BY <1>1, <1>2, <1>3, <1>4, <1>5, <1>6, <1>7 DEF Next

LEMMA NewPaper == Init => TextInv /\ Paper!Init
<1> SUFFICES ASSUME Init PROVE TextInv /\ Paper!Init
  OBVIOUS
<1>1. /\ size \in Modes /\ pos = 0 /\ gone = <<>> /\ ~picture
      /\ cells = [k \in 0 .. Cells |-> BlankCell]
  BY DEF Init
<1> PICK c \in Nat : c = Cells
  BY <1>1, ScreenLines DEF Cells
<1>2. gone \in Seq(Cell) /\ Len(gone) = 0
  <2>1. gone = <<>>
    BY <1>1
  <2> QED
    BY <2>1
<1>3. \E n \in Nat : Len(gone) = n * Wide
  <2>1. PICK w \in Nat : w = Wide
    BY <1>1, ScreenLines DEF Wide
  <2>2. PICK n \in Nat : n = 0
    OBVIOUS
  <2>3. n * w = 0
    BY <2>2
  <2> QED
    BY <1>2, <2>1, <2>3
<1>4. TextInv
  <2>1. pos \in 0 .. Cells /\ cells \in [0 .. Cells -> Cell]
    BY <1>1, DefaultIsColour
  <2> QED
    BY <1>1, <1>2, <1>3, <2>1 DEF TextInv
<1>5. /\ RollNow \in Seq(Cell) /\ Len(RollNow) = c /\ AtNow = 0
      /\ \A k \in 1 .. c : RollNow[k] = BlankCell
  <2>1. /\ RollNow \in Seq(Cell) /\ Len(RollNow) = 0 + c /\ AtNow = 0 + 0
        /\ \A k \in 1 .. 0 + c : RollNow[k] = IF k <= 0 THEN gone[k] ELSE cells[k - 0 - 1]
    BY <1>1, <1>2, <1>4, RollFacts
  <2>2. \A k \in 1 .. c : k - 1 \in 0 .. c /\ k - 0 - 1 = k - 1 /\ ~(k <= 0)
    OBVIOUS
  <2> QED
    BY <1>1, <2>1, <2>2
<1> DEFINE blank == [k \in 1 .. c |-> [char |-> 0, colour |-> Default]]
<1>6. blank \in Seq(Cell) /\ Len(blank) = c /\ \A k \in 1 .. c : blank[k] = BlankCell
  BY DefaultIsColour, BlankFacts DEF BlankCell
<1>7. RollNow = blank
  <2> HIDE DEF blank
  <2> QED
    BY <1>5, <1>6, SameCells
<1>8. RollNow = [k \in 1 .. Cells |-> [char |-> 0, colour |-> Default]]
  BY <1>7
<1> QED
  BY <1>1, <1>4, <1>5, <1>8, DefaultIsColour
     DEF Paper!Init, Paper!Blank, Paper!BlankCell, Cells, RollNow, AtNow

\* The text memory, scrolled line by line, is the end of a roll of paper, for every
\* mode, every width and height and every order of printing, colouring and moving the
\* cursor: no line is lost, doubled or changed by a scroll, and only the character
\* behind the last line leaves no ink.
THEOREM TextIsPaper == Spec => ImplementsTerminal
<1>1. Init => TextInv /\ Paper!Init
  BY NewPaper
<1>2. TextInv /\ [Next]_vars => TextInv' /\ [Paper!Next]_PaperVars
  BY PaperStep
<1> QED
  BY <1>1, <1>2, PTL DEF Spec, ImplementsTerminal, Paper!Spec, PaperVars, RollNow, AtNow
=============================================================================
