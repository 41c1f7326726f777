----------------------------- MODULE Induction -----------------------------
(***************************************************************************)
(* Induction over data without operator parameters, for the provers here.  *)
(*                                                                         *)
(* A statement about every element of X is a set T that has them all, and  *)
(* Descent says that T has X when each element is in T as soon as those    *)
(* of a lower rank are.  Recursive says that there is a function with a    *)
(* recursion in which an argument asks for one other, of lower rank: what  *)
(* CHOOSE picks for a recursive definition then satisfies its equation.    *)
(* Both rest on the order of the naturals being well-founded.              *)
(***************************************************************************)
EXTENDS WellFoundedInduction, TLAPS

\* A set of naturals has a least one.
LEMMA LeastNat ==
  ASSUME NEW T, T \subseteq Nat, T # {}
  PROVE  \E n \in T : \A m \in T : n <= m
<1> DEFINE R == {ss \in Nat \X Nat : ss[1] < ss[2]}
<1>1. IsWellFoundedOn(R, Nat)
  BY NatLessThanWellFounded DEF OpToRel
<1>2. \A m, n \in Nat : m < n => <<m, n>> \in R
  OBVIOUS
<1> HIDE DEF R
<1>3. PICK n \in T : \A m \in T : ~(<<m, n>> \in R)
  BY <1>1, WFMin
<1>4. \A m \in T : ~(m < n)
  BY Zenon, <1>2, <1>3
<1>5. n \in Nat /\ \A m \in T : m \in Nat
  OBVIOUS
<1> QED BY <1>4, <1>5

\* Induction from 0, one at a time.
LEMMA AllNaturals ==
  ASSUME NEW T, 0 \in T, \A n \in Nat : n \in T => n + 1 \in T
  PROVE  Nat \subseteq T
<1> DEFINE U == Nat \ T
<1> SUFFICES ASSUME U # {} PROVE FALSE
  OBVIOUS
<1>1. PICK n \in U : \A m \in U : n <= m
  <2>1. U \subseteq Nat /\ U # {}
    OBVIOUS
  <2> HIDE DEF U
  <2> QED BY <2>1, LeastNat
<1>2. n \in Nat /\ n # 0
  OBVIOUS
<1>3. n - 1 \in Nat /\ n - 1 \notin U
  BY <1>1, <1>2
<1> QED BY <1>2, <1>3

\* Induction by a rank: from all elements of lower rank to the next.
LEMMA Descent ==
  ASSUME NEW X, NEW r \in [X -> Nat], NEW T,
         \A x \in X : (\A y \in X : r[y] < r[x] => y \in T) => x \in T
  PROVE  X \subseteq T
<1> SUFFICES ASSUME X \ T # {} PROVE FALSE
  OBVIOUS
<1> DEFINE U == {r[x] : x \in X \ T}
<1>1. U \subseteq Nat /\ U # {}
  OBVIOUS
<1>2. PICK n \in U : \A m \in U : n <= m
  <2> HIDE DEF U
  <2> QED BY <1>1, LeastNat
<1>3. PICK x \in X \ T : n = r[x]
  OBVIOUS
<1>4. \A y \in X : r[y] < r[x] => y \in T
  <2> SUFFICES ASSUME NEW y \in X, r[y] < r[x], y \notin T PROVE FALSE
    OBVIOUS
  <2>1. r[y] \in U
    OBVIOUS
  <2>2. r[x] <= r[y] /\ r[x] \in Nat /\ r[y] \in Nat
    <3> HIDE DEF U
    <3> QED BY <1>2, <1>3, <2>1
  <2> QED BY <2>2
<1> QED BY <1>3, <1>4

-----------------------------------------------------------------------------
(* Recursion in which each argument asks for one other *)

\* What a function with that recursion has at an argument, from one with values g.
Unfold(g, x, stop, base, next, F) == IF x \in stop THEN base[x] ELSE F[x][g[next[x]]]

\* Functions that satisfy the recursion at arguments of a rank below n.
Upto(n, X, V, rank, stop, base, next, F) ==
  {g \in [X -> V] : \A x \in X : rank[x] < n => g[x] = Unfold(g, x, stop, base, next, F)}

\* Arguments in stop have a value of their own, any other asks next, of lower rank,
\* and puts its own part to the value with F.
Recursion(X, V, rank, stop, base, next, F) ==
  /\ rank \in [X -> Nat]
  /\ base \in [X -> V]
  /\ next \in [X -> X]
  /\ F \in [X -> [V -> V]]
  /\ \A x \in X \ stop : rank[next[x]] < rank[x]

\* One step of a recursion has a value.
LEMMA UnfoldIn ==
  ASSUME NEW X, NEW V, NEW rank, NEW stop, NEW base, NEW next, NEW F,
         Recursion(X, V, rank, stop, base, next, F), NEW g \in [X -> V], NEW x \in X
  PROVE  Unfold(g, x, stop, base, next, F) \in V
<1>1. next[x] \in X /\ base[x] \in V /\ F[x] \in [V -> V]
  BY DEF Recursion
<1>2. g[next[x]] \in V
  BY <1>1
<1> QED BY <1>1, <1>2 DEF Unfold

\* One more rank.
LEMMA UptoNext ==
  ASSUME NEW X, NEW V, NEW rank, NEW stop, NEW base, NEW next, NEW F,
         Recursion(X, V, rank, stop, base, next, F),
         NEW n \in Nat, NEW g \in Upto(n, X, V, rank, stop, base, next, F)
  PROVE  [x \in X |-> Unfold(g, x, stop, base, next, F)]
           \in Upto(n + 1, X, V, rank, stop, base, next, F)
<1> DEFINE h == [x \in X |-> Unfold(g, x, stop, base, next, F)]
<1>1. g \in [X -> V] /\ \A x \in X : rank[x] < n => g[x] = Unfold(g, x, stop, base, next, F)
  BY DEF Upto
<1>2. h \in [X -> V]
  BY <1>1, UnfoldIn
<1>3. \A x \in X : h[x] = Unfold(g, x, stop, base, next, F)
  OBVIOUS
<1> HIDE DEF h
<1>4. ASSUME NEW x \in X, rank[x] < n + 1 PROVE h[x] = Unfold(h, x, stop, base, next, F)
  <2>1. CASE x \in stop
    BY <1>3, <2>1 DEF Unfold
  <2>2. CASE x \notin stop
    <3>1. next[x] \in X /\ rank[next[x]] < rank[x] /\ rank[x] \in Nat /\ rank[next[x]] \in Nat
      BY <2>2 DEF Recursion
    <3>2. rank[next[x]] < n
      BY <1>4, <3>1
    <3>3. h[next[x]] = g[next[x]]
      BY <1>1, <1>3, <3>1, <3>2
    <3> QED BY <1>3, <2>2, <3>3 DEF Unfold
  <2> QED BY <2>1, <2>2
<1> QED BY <1>2, <1>4 DEF Upto, h

\* Where two of them satisfy the recursion they agree.
LEMMA UptoSame ==
  ASSUME NEW X, NEW V, NEW rank, NEW stop, NEW base, NEW next, NEW F,
         Recursion(X, V, rank, stop, base, next, F), NEW m \in Nat, NEW n \in Nat,
         NEW g \in Upto(m, X, V, rank, stop, base, next, F),
         NEW h \in Upto(n, X, V, rank, stop, base, next, F),
         NEW z \in X, rank[z] < m, rank[z] < n
  PROVE  g[z] = h[z]
<1> DEFINE T == {x \in X : rank[x] < m /\ rank[x] < n => g[x] = h[x]}
<1>1. rank \in [X -> Nat]
  BY DEF Recursion
<1>2. ASSUME NEW x \in X, \A y \in X : rank[y] < rank[x] => y \in T
      PROVE  x \in T
  <2> SUFFICES ASSUME rank[x] < m, rank[x] < n PROVE g[x] = h[x]
    OBVIOUS
  <2>1. /\ g[x] = Unfold(g, x, stop, base, next, F)
        /\ h[x] = Unfold(h, x, stop, base, next, F)
    BY DEF Upto
  <2>2. CASE x \in stop
    BY <2>1, <2>2 DEF Unfold
  <2>3. CASE x \notin stop
    <3>1. next[x] \in X /\ rank[next[x]] < rank[x] /\ rank[x] \in Nat /\ rank[next[x]] \in Nat
      BY <2>3 DEF Recursion
    <3>2. next[x] \in T
      BY <1>2, <3>1
    <3>3. rank[next[x]] < m /\ rank[next[x]] < n
      BY <3>1
    <3>4. g[next[x]] = h[next[x]]
      BY <3>2, <3>3
    <3> QED BY <2>1, <2>3, <3>4 DEF Unfold
  <2> QED BY <2>2, <2>3
<1>3. X \subseteq T
  <2> HIDE DEF T
  <2> QED BY <1>1, <1>2, Descent
<1> QED BY <1>3

\* Such a recursion defines a function.
LEMMA Recursive ==
  ASSUME NEW X, NEW V, NEW rank, NEW stop, NEW base, NEW next, NEW F,
         Recursion(X, V, rank, stop, base, next, F)
  PROVE  \E g \in [X -> V] : \A x \in X : g[x] = Unfold(g, x, stop, base, next, F)
<1> DEFINE S(n) == Upto(n, X, V, rank, stop, base, next, F)
           T == {n \in Nat : S(n) # {}}
           pick(n) == CHOOSE g : g \in S(n)
<1>0. rank \in [X -> Nat] /\ base \in [X -> V] /\ next \in [X -> X]
  BY DEF Recursion
<1>1. 0 \in T
  <2>1. \A x \in X : ~(rank[x] < 0)
    BY <1>0
  <2>2. base \in S(0)
    BY <1>0, <2>1 DEF Upto
  <2> QED BY <2>2
<1>2. ASSUME NEW n \in Nat, n \in T PROVE n + 1 \in T
  <2>1. PICK g : g \in S(n)
    BY <1>2
  <2>2. [x \in X |-> Unfold(g, x, stop, base, next, F)] \in S(n + 1)
    BY <2>1, UptoNext
  <2> QED BY <2>2
<1>3. Nat \subseteq T
  <2> HIDE DEF T
  <2> QED BY <1>1, <1>2, AllNaturals
<1>4. \A n \in Nat : pick(n) \in S(n)
  BY <1>3
<1> DEFINE G == [x \in X |-> pick(rank[x] + 1)[x]]
<1> HIDE DEF pick, S, T
<1>5. \A x \in X : rank[x] + 1 \in Nat /\ rank[x] \in Nat /\ rank[x] < rank[x] + 1
  BY <1>0
<1>6. \A x \in X : pick(rank[x] + 1) \in [X -> V]
  BY <1>4, <1>5 DEF S, Upto
<1>7. G \in [X -> V]
  BY <1>6
<1>8. ASSUME NEW x \in X PROVE G[x] = Unfold(G, x, stop, base, next, F)
  <2> DEFINE p == pick(rank[x] + 1)
  <2>1. p \in S(rank[x] + 1)
    BY <1>4, <1>5
  <2>2. p[x] = Unfold(p, x, stop, base, next, F)
    BY <1>5, <2>1 DEF S, Upto
  <2>3. G[x] = p[x]
    OBVIOUS
  <2>4. CASE x \in stop
    <3> HIDE DEF p, G
    <3> QED BY <2>2, <2>3, <2>4 DEF Unfold
  <2>5. CASE x \notin stop
    <3> DEFINE y == next[x]
               q == pick(rank[y] + 1)
    <3>1. y \in X /\ rank[y] < rank[x]
      BY <2>5 DEF Recursion
    <3>2. rank[x] \in Nat /\ rank[y] \in Nat
      BY <1>0, <3>1
    <3>3. q \in S(rank[y] + 1) /\ G[y] = q[y]
      BY <1>4, <1>5, <3>1
    <3>4. rank[y] < rank[x] + 1 /\ rank[y] < rank[y] + 1 /\ rank[x] + 1 \in Nat /\ rank[y] + 1 \in Nat
      BY <3>1, <3>2
    <3>5. p[y] = q[y]
      <4> HIDE DEF p, q, y, G
      <4> QED BY <2>1, <3>1, <3>3, <3>4, UptoSame DEF S
    <3>6. G[y] = p[y]
      BY <3>3, <3>5
    <3> HIDE DEF p, q, G
    <3> QED BY <2>2, <2>3, <2>5, <3>6 DEF Unfold
  <2> QED BY <2>4, <2>5
<1> HIDE DEF G
<1> QED BY <1>7, <1>8

=============================================================================
