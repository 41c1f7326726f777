-------------------------- MODULE TimestampProofs --------------------------
(***************************************************************************)
(* Proofs about timestamps and the text they travel as: what is written is *)
(* what is read, digit by digit, on every day of every walk and at every   *)
(* time of day.                                                            *)
(*                                                                         *)
(* Number ends (NumberUnfolds, by Recursive), and Value, a fold whose      *)
(* recursion is unrolled from its last index (ValueAppend), is its inverse *)
(* (NumberValue).  The zeros of Padded do not change the value, and so     *)
(* many digits are enough (PaddedEnough): a part of a text is a Numeral.   *)
(* A text Shows a part after p characters, also when it ends in between,   *)
(* so that one statement serves the whole text, its beginnings and what    *)
(* the column leaves of it (PartsCut, ColumnEnds).                         *)
(*                                                                         *)
(* A reader has Arrived at a place of a text with the numbers read so far, *)
(* or has failed because the text ends before it; each conversion leads    *)
(* from one place to the next (OverNumber and those after it), and the     *)
(* last one reads the seconds with as much of the fraction as is there     *)
(* (DecimalRead).  A text that has its seconds is read whole (TextRead,    *)
(* HttpRead), a shorter one is refused (ShortTextRefused).                 *)
(*                                                                         *)
(* What remains is arithmetic: the fields of a time point are those of its *)
(* day, before 1970 too (FieldsAre), and the date leads back to the day.   *)
(***************************************************************************)
EXTENDS CalendarProofs, Induction, SequenceTheorems, FiniteSetTheorems

(* Folds from the left: what they are after each element *)

\* The largest of the first k + 1 indices, and the others.
LEMMA LastOf ==
  ASSUME NEW k \in Nat
  PROVE  Max(1 .. k + 1) = k + 1 /\ (1 .. k + 1) \ {k + 1} = 1 .. k /\ 1 .. k + 1 # {}
<1> DEFINE S == 1 .. k + 1
<1>1. k + 1 \in S /\ \A y \in S : k + 1 >= y
  OBVIOUS
<1>2. \A x \in S : (\A y \in S : x >= y) => x = k + 1
  OBVIOUS
<1>3. Max(S) = k + 1
  <2> HIDE DEF S
  <2> QED BY <1>1, <1>2 DEF Max
<1> QED BY <1>3

\* Each set of indices has a largest.
LEMMA HasLargest ==
  ASSUME NEW n \in Nat, NEW S \in SUBSET (1 .. n), S # {}
  PROVE  \E x \in S : \A y \in S : x >= y
<1> DEFINE T == {n - x : x \in S}
<1>1. T \subseteq Nat /\ T # {}
  <2>1. \A x \in S : x \in Int /\ 1 <= x /\ x <= n
    OBVIOUS
  <2>2. \A x \in S : n - x \in Nat
    BY <2>1
  <2> QED BY <2>2
<1>2. PICK z \in T : \A y \in T : z <= y
  <2> HIDE DEF T
  <2> QED BY <1>1, LeastNat
<1>3. PICK x \in S : z = n - x
  BY <1>2
<1>4. \A y \in S : x >= y
  <2> SUFFICES ASSUME NEW y \in S
               PROVE  x >= y
    OBVIOUS
  <2>1. n - x <= n - y
    BY Zenon, <1>2, <1>3
  <2>2. x \in Int /\ y \in Int /\ n \in Int
    <3> HIDE DEF T
    <3> QED OBVIOUS
  <2> HIDE DEF T
  <2> QED BY ONLY <2>1, <2>2, SMT
<1> QED BY Zenon, <1>4

\* It is the one that Max picks.
LEMMA LargestOf ==
  ASSUME NEW n \in Nat, NEW S \in SUBSET (1 .. n), S # {}
  PROVE  Max(S) \in S
BY Zenon, HasLargest DEF Max

\* What a fold over a sequence is at the sets of its indices.
Folds(g, V, seq, base, op) ==
  /\ g \in [SUBSET (1 .. Len(seq)) -> V]
  /\ \A s \in SUBSET (1 .. Len(seq)) :
       g[s] = IF s = {} THEN base ELSE op[g[s \ {Max(s)}]][seq[Max(s)]]

\* The recursion a fold over a sequence unfolds to has a function.
LEMMA FoldExists ==
  ASSUME NEW E, NEW V, NEW seq \in Seq(E), NEW base \in V, NEW op \in [V -> [E -> V]]
  PROVE  \E g : Folds(g, V, seq, base, op)
<1> DEFINE n == Len(seq)
           X == SUBSET (1 .. n)
           rank == [s \in X |-> Cardinality(s)]
           stop == {{}}
           start0 == [s \in X |-> base]
           next == [s \in X |-> s \ {Max(s)}]
           F == [s \in X |-> [v \in V |-> IF s = {} THEN base ELSE op[v][seq[Max(s)]]]]
<1>1. n \in Nat /\ \A i \in 1 .. n : seq[i] \in E
  OBVIOUS
<1>2. \A s \in X : IsFiniteSet(s) /\ Cardinality(s) \in Nat
  <2>1. IsFiniteSet(1 .. n)
    BY <1>1, FS_Interval
  <2> QED BY <2>1, FS_Subset, FS_CardinalityType
<1>3. \A s \in X \ stop : Max(s) \in s /\ Max(s) \in 1 .. n
  BY <1>1, LargestOf
<1>4. \A s \in X \ stop : rank[next[s]] < rank[s]
  <2> TAKE s \in X \ stop
  <2>1. s \ {Max(s)} \in X /\ Max(s) \in s /\ IsFiniteSet(s)
    BY <1>2, <1>3
  <2>2. Cardinality(s \ {Max(s)}) = Cardinality(s) - 1 /\ Cardinality(s) \in Nat
    BY <1>2, <2>1, FS_RemoveElement
  <2> QED BY <2>1, <2>2
<1>5. Recursion(X, V, rank, stop, start0, next, F)
  <2>1. rank \in [X -> Nat]
    BY <1>2
  <2>2. start0 \in [X -> V] /\ next \in [X -> X]
    OBVIOUS
  <2>3. F \in [X -> [V -> V]]
    <3>1. \A s \in X, v \in V : (IF s = {} THEN base ELSE op[v][seq[Max(s)]]) \in V
      BY <1>1, <1>3
    <3> QED BY <3>1
  <2> HIDE DEF X, rank, stop, start0, next, F
  <2> QED BY <1>4, <2>1, <2>2, <2>3 DEF Recursion
<1>6. PICK g \in [X -> V] : \A s \in X : g[s] = Unfold(g, s, stop, start0, next, F)
  <2> HIDE DEF X, rank, stop, start0, next, F
  <2> QED BY <1>5, Recursive
<1>7. ASSUME NEW s \in X
      PROVE  g[s] = IF s = {} THEN base ELSE op[g[s \ {Max(s)}]][seq[Max(s)]]
  <2>1. CASE s = {}
    BY <1>6, <2>1 DEF Unfold
  <2>2. CASE s # {}
    <3>1. s \ {Max(s)} \in X
      OBVIOUS
    <3>2. g[s \ {Max(s)}] \in V
      BY <3>1
    <3> QED BY <1>6, <2>2, <3>1, <3>2 DEF Unfold
  <2> QED BY <2>1, <2>2
<1>8. g \in [SUBSET (1 .. Len(seq)) -> V]
  BY <1>6
<1>9. \A s \in SUBSET (1 .. Len(seq)) :
        g[s] = IF s = {} THEN base ELSE op[g[s \ {Max(s)}]][seq[Max(s)]]
  BY Zenon, <1>7
<1> QED BY Zenon, <1>8, <1>9 DEF Folds

\* The sets of the first indices are among those a fold goes through.
LEMMA FirstIndices ==
  ASSUME NEW n \in Nat, NEW k \in Nat, k < n
  PROVE  1 .. 0 = {} /\ 1 .. 0 \in SUBSET (1 .. n) /\ 1 .. k + 1 \in SUBSET (1 .. n)
OBVIOUS

-----------------------------------------------------------------------------
(* The value of a sequence of digits *)

\* The values of the first digits of a number, one more digit each time.
Counting(v, n, d) ==
  /\ v[0] = 0
  /\ \A k \in 0 .. n - 1 : v[k + 1] = 10 * v[k] + d[k + 1]

\* Value goes through them.
LEMMA ValueCounts ==
  ASSUME NEW d \in Seq(Int)
  PROVE  \E v : Counting(v, Len(d), d) /\ Value(d) = v[Len(d)]
<1> DEFINE n == Len(d)
           D == SUBSET (1 .. n)
           h == CHOOSE f : f = [s \in D |-> IF s = {} THEN 0 ELSE 10 * f[s \ {Max(s)}] + d[Max(s)]]
<1>1. n \in Nat /\ DOMAIN d = 1 .. n /\ \A i \in 1 .. n : d[i] \in Int
  OBVIOUS
<1>2. Value(d) = h[1 .. n]
  BY Zenon, <1>1 DEF Value, FoldLeft, MapThenFoldSet
<1>3. h = [s \in D |-> IF s = {} THEN 0 ELSE 10 * h[s \ {Max(s)}] + d[Max(s)]]
  <2> DEFINE op == [x \in Int |-> [c \in Int |-> 10 * x + c]]
  <2>1. op \in [Int -> [Int -> Int]] /\ 0 \in Int
    OBVIOUS
  <2>0. PICK g : Folds(g, Int, d, 0, op)
    <3> HIDE DEF op
    <3> QED BY Zenon, <2>1, FoldExists
  <2>2. /\ g \in [D -> Int]
        /\ \A s \in D : g[s] = IF s = {} THEN 0 ELSE op[g[s \ {Max(s)}]][d[Max(s)]]
    <3> HIDE DEF op
    <3> QED BY <2>0 DEF Folds
  <2>3. ASSUME NEW s \in D
        PROVE  g[s] = IF s = {} THEN 0 ELSE 10 * g[s \ {Max(s)}] + d[Max(s)]
    <3>1. CASE s = {}
      BY <2>2, <3>1
    <3>2. CASE s # {}
      <4>1. s \ {Max(s)} \in D /\ Max(s) \in 1 .. n
        BY <1>1, <3>2, LargestOf
      <4>2. g[s \ {Max(s)}] \in Int /\ d[Max(s)] \in Int
        BY <1>1, <2>2, <4>1
      <4>3. \A x, c \in Int : op[x][c] = 10 * x + c
        OBVIOUS
      <4> HIDE DEF op, D
      <4>4. g[s] = op[g[s \ {Max(s)}]][d[Max(s)]]
        BY Zenon, <2>2, <3>2
      <4> QED BY Zenon, <3>2, <4>2, <4>3, <4>4
    <3> QED BY <3>1, <3>2
  <2>4. g = [s \in D |-> IF s = {} THEN 0 ELSE 10 * g[s \ {Max(s)}] + d[Max(s)]]
    <3> HIDE DEF D
    <3> QED BY Zenon, <2>2, <2>3
  <2> HIDE DEF D
  <2> QED BY Zenon, <2>4
<1> DEFINE v == [k \in 0 .. n |-> h[1 .. k]]
<1> HIDE DEF h
<1>4. h[1 .. 0] = 0
  <2>1. 1 .. 0 = {} /\ 1 .. 0 \in D
    OBVIOUS
  <2> HIDE DEF D
  <2> QED BY Zenon, <1>3, <2>1
<1>5. ASSUME NEW k \in 0 .. n - 1 PROVE h[1 .. k + 1] = 10 * h[1 .. k] + d[k + 1]
  <2>1. k \in Nat /\ k < n
    BY <1>1
  <2>2. 1 .. k + 1 \in D
    BY <1>1, <2>1, FirstIndices
  <2>3. Max(1 .. k + 1) = k + 1 /\ (1 .. k + 1) \ {k + 1} = 1 .. k /\ 1 .. k + 1 # {}
    BY <2>1, LastOf
  <2> DEFINE s == 1 .. k + 1
  <2>4. h[s] = IF s = {} THEN 0 ELSE 10 * h[s \ {Max(s)}] + d[Max(s)]
    <3> HIDE DEF D, s
    <3>1. s \in D
      BY <2>2 DEF s
    <3> QED BY Zenon, <1>3, <3>1
  <2>5. s \ {Max(s)} = 1 .. k /\ Max(s) = k + 1 /\ s # {}
    BY Zenon, <2>3
  <2> HIDE DEF s
  <2>6. h[s] = 10 * h[1 .. k] + d[k + 1]
    BY Zenon, <2>4, <2>5
  <2> QED BY Zenon, <2>6 DEF s
<1>6. v[0] = 0
  BY <1>1, <1>4
<1>7. ASSUME NEW k \in 0 .. n - 1 PROVE v[k + 1] = 10 * v[k] + d[k + 1]
  <2>1. k + 1 \in 0 .. n /\ k \in 0 .. n
    BY <1>1
  <2>2. v[k + 1] = h[1 .. k + 1] /\ v[k] = h[1 .. k]
    BY Zenon, <2>1
  <2> HIDE DEF v
  <2> QED BY Zenon, <1>5, <2>2
<1>8. v[n] = h[1 .. n]
  BY <1>1
<1> HIDE DEF v
<1> QED BY Zenon, <1>2, <1>6, <1>7, <1>8 DEF Counting

\* The values of two numbers' first digits are the same when those digits are.
LEMMA CountingSame ==
  ASSUME NEW n \in Nat, NEW v, NEW u, NEW d, NEW e, Counting(v, n, d), Counting(u, n, e),
         \A k \in 1 .. n : d[k] = e[k]
  PROVE  \A k \in 0 .. n : v[k] = u[k]
<1> DEFINE T == {k \in Nat : k <= n => v[k] = u[k]}
<1>1. 0 \in T
  BY DEF Counting
<1>2. ASSUME NEW k \in Nat, k \in T PROVE k + 1 \in T
  <2> SUFFICES ASSUME k + 1 <= n PROVE v[k + 1] = u[k + 1]
    OBVIOUS
  <2>1. k \in 0 .. n - 1 /\ k + 1 \in 1 .. n /\ k <= n
    OBVIOUS
  <2>2. v[k] = u[k] /\ d[k + 1] = e[k + 1]
    BY <1>2, <2>1
  <2>3. v[k + 1] = 10 * v[k] + d[k + 1] /\ u[k + 1] = 10 * u[k] + e[k + 1]
    BY Zenon, <2>1 DEF Counting
  <2> QED BY Zenon, <2>2, <2>3
<1>3. Nat \subseteq T
  <2> HIDE DEF T
  <2> QED BY <1>1, <1>2, AllNaturals
<1> QED BY <1>3

\* What a number is that is counted digit by digit.
LEMMA ValueIs ==
  ASSUME NEW d \in Seq(Int), NEW v, Counting(v, Len(d), d)
  PROVE  Value(d) = v[Len(d)]
<1>1. PICK u : Counting(u, Len(d), d) /\ Value(d) = u[Len(d)]
  BY Zenon, ValueCounts
<1>2. Len(d) \in Nat /\ Len(d) \in 0 .. Len(d)
  OBVIOUS
<1>3. \A k \in 0 .. Len(d) : u[k] = v[k]
  BY Zenon, <1>1, <1>2, CountingSame
<1> QED BY Zenon, <1>1, <1>2, <1>3

\* The values of a number's first digits are integers.
LEMMA CountingInt ==
  ASSUME NEW d \in Seq(Int), NEW v, Counting(v, Len(d), d)
  PROVE  \A k \in 0 .. Len(d) : v[k] \in Int
<1> DEFINE n == Len(d)
           T == {k \in Nat : k <= n => v[k] \in Int}
<1>1. n \in Nat /\ \A k \in 1 .. n : d[k] \in Int
  OBVIOUS
<1>2. 0 \in T
  BY DEF Counting
<1>3. ASSUME NEW k \in Nat, k \in T PROVE k + 1 \in T
  <2> SUFFICES ASSUME k + 1 <= n PROVE v[k + 1] \in Int
    OBVIOUS
  <2>1. k \in 0 .. n - 1 /\ k + 1 \in 1 .. n /\ k <= n
    BY <1>1
  <2>2. v[k] \in Int /\ d[k + 1] \in Int
    BY <1>1, <1>3, <2>1
  <2>3. v[k + 1] = 10 * v[k] + d[k + 1]
    BY Zenon, <2>1 DEF Counting
  <2> QED BY <2>2, <2>3
<1>4. Nat \subseteq T
  <2> HIDE DEF T
  <2> QED BY <1>2, <1>3, AllNaturals
<1> QED BY <1>1, <1>4

\* A number is an integer.
LEMMA ValueInt == \A d \in Seq(Int) : Value(d) \in Int
<1> TAKE d \in Seq(Int)
<1>1. PICK v : Counting(v, Len(d), d) /\ Value(d) = v[Len(d)]
  BY Zenon, ValueCounts
<1>2. Len(d) \in 0 .. Len(d)
  OBVIOUS
<1> QED BY Zenon, <1>1, <1>2, CountingInt

\* One more digit at the end.
LEMMA ValueAppend ==
  ASSUME NEW d \in Seq(Int), NEW c \in Int
  PROVE  Value(Append(d, c)) = 10 * Value(d) + c
<1> DEFINE n == Len(d)
           e == Append(d, c)
<1>1. n \in Nat /\ e \in Seq(Int) /\ Len(e) = n + 1 /\ e[n + 1] = c /\ \A k \in 1 .. n : e[k] = d[k]
  BY AppendProperties
<1>2. PICK v : Counting(v, n, d) /\ Value(d) = v[n]
  BY Zenon, ValueCounts
<1> HIDE DEF e
<1>3. PICK u : Counting(u, n + 1, e) /\ Value(e) = u[n + 1]
  BY Zenon, <1>1, ValueCounts
<1>4. \A k \in 0 .. n - 1 : k \in 0 .. (n + 1) - 1
  BY <1>1
<1>5. Counting(u, n, e) /\ u[n + 1] = 10 * u[n] + e[n + 1]
  <2>1. n \in 0 .. (n + 1) - 1
    BY <1>1
  <2> HIDE DEF n
  <2> QED BY Zenon, <1>3, <1>4, <2>1 DEF Counting
<1>6. u[n] = v[n]
  <2>1. n \in 0 .. n
    BY <1>1
  <2> HIDE DEF n
  <2> QED BY ZenonT(60), <1>1, <1>2, <1>5, <2>1, CountingSame
<1>7. u[n + 1] = 10 * v[n] + c
  BY Zenon, <1>1, <1>5, <1>6
<1> QED BY ZenonT(40), <1>2, <1>3, <1>7 DEF e

\* Zeros before a number.
LEMMA ValueFilled ==
  ASSUME NEW d \in Seq(Int), NEW e \in Seq(Int), NEW z \in Nat, Len(e) = z + Len(d),
         \A k \in 1 .. z : e[k] = 0, \A k \in 1 .. Len(d) : e[z + k] = d[k]
  PROVE  Value(e) = Value(d)
<1> DEFINE n == Len(d)
<1>1. n \in Nat
  OBVIOUS
<1>2. PICK v : Counting(v, z + n, e) /\ Value(e) = v[z + n]
  BY Zenon, ValueCounts
<1> DEFINE T == {k \in Nat : k <= z => v[k] = 0}
<1>3. 0 \in T
  BY <1>2 DEF Counting
<1>4. ASSUME NEW k \in Nat, k \in T PROVE k + 1 \in T
  <2> SUFFICES ASSUME k + 1 <= z PROVE v[k + 1] = 0
    OBVIOUS
  <2>1. k \in 0 .. (z + n) - 1 /\ k + 1 \in 1 .. z /\ k <= z
    BY <1>1
  <2>2. v[k] = 0 /\ e[k + 1] = 0
    BY <1>4, <2>1
  <2>3. v[k + 1] = 10 * v[k] + e[k + 1]
    <3> HIDE DEF n
    <3> QED BY Zenon, <1>2, <2>1 DEF Counting
  <2> QED BY <2>2, <2>3
<1>5. v[z] = 0
  <2>1. Nat \subseteq T
    <3> HIDE DEF T
    <3> QED BY <1>3, <1>4, AllNaturals
  <2> QED BY <2>1
<1> DEFINE u == [k \in 0 .. n |-> v[z + k]]
<1>6. Counting(u, n, d)
  <2>1. u[0] = 0
    BY <1>1, <1>5
  <2>2. ASSUME NEW k \in 0 .. n - 1 PROVE u[k + 1] = 10 * u[k] + d[k + 1]
    <3>1. /\ z + k \in 0 .. (z + n) - 1 /\ k + 1 \in 1 .. n /\ k \in 0 .. n /\ k + 1 \in 0 .. n
          /\ (z + k) + 1 = z + (k + 1)
      BY <1>1
    <3>2. v[(z + k) + 1] = 10 * v[z + k] + e[(z + k) + 1]
      <4> HIDE DEF n
      <4> QED BY Zenon, <1>2, <3>1 DEF Counting
    <3>3. u[k + 1] = v[z + (k + 1)] /\ u[k] = v[z + k]
      BY Zenon, <3>1
    <3>4. e[z + (k + 1)] = d[k + 1]
      BY Zenon, <3>1
    <3> HIDE DEF u
    <3> QED BY Zenon, <3>1, <3>2, <3>3, <3>4
  <2> HIDE DEF u
  <2> QED BY Zenon, <2>1, <2>2 DEF Counting
<1>7. u[n] = v[z + n]
  BY <1>1
<1> HIDE DEF u
<1> QED BY Zenon, <1>2, <1>6, <1>7, ValueIs

-----------------------------------------------------------------------------
(* Numbers as they are written *)

\* Digits are integers.
LEMMA DigitsInt == Digit \subseteq Int /\ Seq(Digit) \subseteq Seq(Int)
<1>1. Digit \subseteq Int
  BY DEF Digit
<1> HIDE DEF Digit
<1> QED BY Zenon, <1>1, SeqMonotonic

\* A number is written with its last digit after the others.
LEMMA NumberUnfolds ==
  \A n \in Nat :
    /\ Number(n) \in Seq(Digit)
    /\ Number(n) = IF n < 10 THEN <<n>> ELSE Append(Number(n \div 10), n % 10)
<1> DEFINE V == Seq(Digit)
           stop == 0 .. 9
           base == [n \in Nat |-> IF n < 10 THEN <<n>> ELSE <<>>]
           next == [n \in Nat |-> n \div 10]
           put == [n \in Nat |-> [v \in V |-> Append(v, n % 10)]]
           rank == [n \in Nat |-> n]
           Body(f, n) == IF n < 10 THEN <<n>> ELSE Append(f[n \div 10], n % 10)
           digits == CHOOSE f : f = [n \in Nat |-> Body(f, n)]
<1>1. \A n \in Nat : n \div 10 \in Nat /\ n % 10 \in Digit /\ (n >= 10 => n \div 10 < n)
  BY DEF Digit
<1>2. \A n \in Nat : n < 10 => <<n>> \in V
  <2>1. \A n \in Nat : n < 10 => n \in Digit
    BY DEF Digit
  <2> HIDE DEF Digit
  <2> QED BY <2>1
<1>3. \A v \in V, c \in Digit : Append(v, c) \in V
  <2> HIDE DEF Digit
  <2> QED BY AppendProperties
<1>4. \A n \in Nat : Number(n) = digits[n]
  BY Zenon DEF Number
<1>5. <<>> \in V
  BY EmptySeq
<1> HIDE DEF V
<1>6. Recursion(Nat, V, rank, stop, base, next, put)
  <2>1. rank \in [Nat -> Nat] /\ next \in [Nat -> Nat]
    BY <1>1
  <2>2. base \in [Nat -> V]
    <3>1. \A n \in Nat : (IF n < 10 THEN <<n>> ELSE <<>>) \in V
      BY Zenon, <1>2, <1>5
    <3> QED BY Zenon, <3>1
  <2>3. put \in [Nat -> [V -> V]]
    <3>1. \A n \in Nat, v \in V : Append(v, n % 10) \in V
      BY Zenon, <1>1, <1>3
    <3> QED BY Zenon, <3>1
  <2>4. \A n \in Nat \ stop : rank[next[n]] < rank[n]
    <3> SUFFICES ASSUME NEW n \in Nat \ stop PROVE rank[next[n]] < rank[n]
      OBVIOUS
    <3>1. n \in Nat /\ n >= 10
      OBVIOUS
    <3>2. next[n] = n \div 10 /\ rank[n] = n /\ rank[n \div 10] = n \div 10
      BY <1>1, <3>1
    <3> HIDE DEF next, rank
    <3> QED BY <1>1, <3>1, <3>2
  <2> HIDE DEF rank, stop, base, next, put
  <2> QED BY Zenon, <2>1, <2>2, <2>3, <2>4 DEF Recursion
<1>7. PICK g \in [Nat -> V] : \A n \in Nat : g[n] = Unfold(g, n, stop, base, next, put)
  <2> HIDE DEF stop, base, next, put, rank
  <2> QED BY <1>6, Recursive
<1>8. \A n \in Nat : g[n] = Body(g, n)
  <2> TAKE n \in Nat
  <2>1. CASE n < 10
    <3>1. n \in stop /\ base[n] = <<n>>
      BY <2>1
    <3> HIDE DEF stop, base, next, put
    <3> QED BY Zenon, <1>7, <2>1, <3>1 DEF Unfold
  <2>2. CASE ~(n < 10)
    <3>1. n \notin stop /\ next[n] = n \div 10
      BY <2>2
    <3>2. g[n \div 10] \in V
      BY <1>1
    <3>3. put[n][g[n \div 10]] = Append(g[n \div 10], n % 10)
      BY Zenon, <3>2
    <3> HIDE DEF stop, base, next, put
    <3> QED BY Zenon, <1>7, <2>2, <3>1, <3>3 DEF Unfold
  <2> QED BY <2>1, <2>2
<1> HIDE DEF Body
<1>9. g = [n \in Nat |-> Body(g, n)]
  BY Zenon, <1>7, <1>8
<1>10. digits = [n \in Nat |-> Body(digits, n)]
  BY Zenon, <1>9
<1> HIDE DEF digits
<1>11. \A n \in Nat : digits[n] = Body(digits, n)
  BY Zenon, <1>10
<1> DEFINE T == {n \in Nat : digits[n] \in V}
<1>12. Nat \subseteq T
  <2>1. ASSUME NEW n \in Nat, \A m \in Nat : rank[m] < rank[n] => m \in T
        PROVE  n \in T
    <3>1. CASE n < 10
      BY Zenon, <1>2, <1>11, <3>1 DEF Body
    <3>2. CASE ~(n < 10)
      <4>1. n \div 10 \in Nat /\ rank[n \div 10] < rank[n]
        BY <1>1, <3>2
      <4>2. digits[n \div 10] \in V
        BY <2>1, <4>1
      <4>3. Append(digits[n \div 10], n % 10) \in V
        BY Zenon, <1>1, <1>3, <4>2
      <4> QED BY Zenon, <1>11, <3>2, <4>3 DEF Body
    <3> QED BY <3>1, <3>2
  <2>2. rank \in [Nat -> Nat]
    OBVIOUS
  <2> HIDE DEF T, rank
  <2> QED BY <2>1, <2>2, Descent
<1>13. ASSUME NEW n \in Nat
       PROVE  /\ Number(n) \in Seq(Digit)
              /\ Number(n) = IF n < 10 THEN <<n>> ELSE Append(Number(n \div 10), n % 10)
  <2>1. digits[n] \in V /\ n \div 10 \in Nat
    BY <1>1, <1>12
  <2>2. Number(n) = digits[n] /\ Number(n \div 10) = digits[n \div 10]
    BY Zenon, <1>4, <2>1
  <2> QED BY Zenon, <1>11, <2>1, <2>2 DEF Body, V
<1> QED BY Zenon, <1>13

\* The digits of a number have its value.
LEMMA NumberValue == \A n \in Nat : Value(Number(n)) = n
<1> DEFINE T == {n \in Nat : Value(Number(n)) = n}
           rank == [n \in Nat |-> n]
<1>1. ASSUME NEW n \in Nat, \A m \in Nat : rank[m] < rank[n] => m \in T
      PROVE  n \in T
  <2>1. CASE n < 10
    <3>1. Number(n) = <<n>>
      BY Zenon, NumberUnfolds, <2>1
    <3> DEFINE d == <<n>>
               v == [k \in 0 .. 1 |-> IF k = 0 THEN 0 ELSE n]
    <3>2. d \in Seq(Int) /\ Len(d) = 1 /\ d[1] = n
      OBVIOUS
    <3>3. v[0] = 0 /\ v[1] = 10 * v[0] + n
      OBVIOUS
    <3>4. Counting(v, 1, d)
      <4>1. \A k \in 0 .. 1 - 1 : k = 0 /\ k + 1 = 1
        OBVIOUS
      <4> HIDE DEF v, d
      <4> QED BY Zenon, <3>2, <3>3, <4>1 DEF Counting
    <3>5. v[1] = n
      OBVIOUS
    <3> HIDE DEF v, d
    <3>6. Value(d) = n
      BY Zenon, <3>2, <3>4, <3>5, ValueIs
    <3> QED BY Zenon, <3>1, <3>6 DEF d
  <2>2. CASE ~(n < 10)
    <3> DEFINE m == n \div 10
               c == n % 10
    <3>1. m \in Nat /\ rank[m] < rank[n] /\ c \in Int /\ 10 * m + c = n
      BY <2>2
    <3>2. Value(Number(m)) = m
      BY <1>1, <3>1
    <3>3. Number(n) = Append(Number(m), c) /\ Number(m) \in Seq(Int)
      BY Zenon, NumberUnfolds, DigitsInt, <2>2, <3>1
    <3> HIDE DEF m, c
    <3> QED BY Zenon, <3>1, <3>2, <3>3, ValueAppend
  <2> QED BY <2>1, <2>2
<1>2. rank \in [Nat -> Nat]
  OBVIOUS
<1>3. Nat \subseteq T
  <2> HIDE DEF T, rank
  <2> QED BY <1>1, <1>2, Descent
<1> QED BY <1>3

\* So many digits are enough for the numbers below p.
Enough(w, p) == \A n \in Nat : n < p => Len(Number(n)) <= w

\* One digit more for ten times as many numbers.
LEMMA EnoughLonger ==
  ASSUME NEW w \in Nat, NEW p \in Nat, Enough(w, p)
  PROVE  Enough(w + 1, 10 * p)
<1> SUFFICES ASSUME NEW n \in Nat, n < 10 * p PROVE Len(Number(n)) <= w + 1
  BY DEF Enough
<1>1. CASE n < 10
  <2>1. Number(n) = <<n>>
    BY Zenon, NumberUnfolds, <1>1
  <2>2. Len(<<n>>) = 1
    OBVIOUS
  <2> QED BY <2>1, <2>2
<1>2. CASE ~(n < 10)
  <2> DEFINE m == n \div 10
             c == n % 10
             s == Number(m)
  <2>1. m \in Nat /\ m < p /\ c \in Digit
    BY <1>2 DEF Digit
  <2>2. Number(n) = Append(s, c) /\ s \in Seq(Digit)
    BY Zenon, NumberUnfolds, <1>2, <2>1
  <2>3. Len(s) <= w
    BY <2>1 DEF Enough
  <2> HIDE DEF m, c, s
  <2>4. Len(Append(s, c)) = Len(s) + 1 /\ Len(s) \in Nat
    BY <2>1, <2>2, AppendProperties, LenProperties
  <2> QED BY <2>2, <2>3, <2>4
<1> QED BY <1>1, <1>2

\* Digits that are a number, so many of them.
Numeral(s, w, n) == s \in Seq(Digit) /\ Len(s) = w /\ Value(s) = n

\* Zeros are put before a number that is short.
LEMMA PaddedIs ==
  ASSUME NEW n \in Nat, NEW w \in Nat, Len(Number(n)) <= w
  PROVE  Numeral(Padded(Number(n), w), w, n)
<1> DEFINE s == Number(n)
           z == w - Len(s)
           f == [i \in 1 .. z |-> 0]
           e == f \o s
<1>1. s \in Seq(Digit) /\ s \in Seq(Int) /\ Value(s) = n
  BY Zenon, NumberUnfolds, NumberValue, DigitsInt
<1>2. Len(s) \in Nat /\ Len(s) <= w
  BY <1>1, LenProperties
<1>3. z \in Nat /\ z + Len(s) = w
  BY <1>2
<1>4. 0 \in Digit
  BY DEF Digit
<1> HIDE DEF z, Digit
<1>5. f \in Seq(Digit) /\ Len(f) = z /\ \A i \in 1 .. z : f[i] = 0
  <2> HIDE DEF s
  <2> QED BY <1>3, <1>4
<1> HIDE DEF s, f
<1>6. /\ e \in Seq(Digit) /\ Len(e) = z + Len(s)
      /\ \A i \in 1 .. z + Len(s) : e[i] = IF i <= z THEN f[i] ELSE s[i - z]
  BY <1>1, <1>5, ConcatProperties
<1>7. \A k \in 1 .. z : e[k] = 0
  BY <1>2, <1>3, <1>5, <1>6
<1>8. \A k \in 1 .. Len(s) : e[z + k] = s[k]
  <2> TAKE k \in 1 .. Len(s)
  <2>1. z + k \in 1 .. z + Len(s) /\ ~(z + k <= z) /\ (z + k) - z = k
    BY <1>2, <1>3
  <2> HIDE DEF e
  <2> QED BY Zenon, <1>6, <2>1
<1> HIDE DEF e
<1>9. Value(e) = n
  BY Zenon, <1>1, <1>3, <1>6, <1>7, <1>8, DigitsInt, ValueFilled
<1> QED BY Zenon, <1>3, <1>6, <1>9 DEF Numeral, Padded, e, f, z, s

\* Two digits, four and six.
LEMMA DigitsEnough == Enough(2, 100) /\ Enough(4, 10000) /\ Enough(6, 1000000)
<1>1. Enough(1, 10)
  <2> SUFFICES ASSUME NEW m \in Nat, m < 10 PROVE Len(Number(m)) <= 1
    BY DEF Enough
  <2>1. Number(m) = <<m>>
    BY Zenon, NumberUnfolds
  <2>2. Len(<<m>>) = 1
    OBVIOUS
  <2> QED BY <2>1, <2>2
<1>2. Enough(1 + 1, 10 * 10)
  BY <1>1, EnoughLonger
<1>3. Enough(2, 100)
  BY <1>2
<1>4. Enough(2 + 1, 10 * 100)
  BY <1>3, EnoughLonger
<1>5. Enough(3, 1000)
  BY <1>4
<1>6. Enough(3 + 1, 10 * 1000)
  BY <1>5, EnoughLonger
<1>7. Enough(4, 10000)
  BY <1>6
<1>8. Enough(4 + 1, 10 * 10000)
  BY <1>7, EnoughLonger
<1>9. Enough(5, 100000)
  BY <1>8
<1>10. Enough(5 + 1, 10 * 100000)
  BY <1>9, EnoughLonger
<1>11. Enough(6, 1000000)
  BY <1>10
<1> QED BY <1>3, <1>7, <1>11

\* A number below the power of ten that its width says.
LEMMA PaddedEnough ==
  ASSUME NEW w \in Nat, NEW p, Enough(w, p), NEW n \in Nat, n < p
  PROVE  Numeral(Padded(Number(n), w), w, n)
<1>1. Len(Number(n)) <= w
  BY DEF Enough
<1> QED BY <1>1, PaddedIs

\* What two digits can write.
LEMMA TwoDigits ==
  ASSUME NEW n \in Nat, n < 100
  PROVE  Numeral(Padded(Number(n), 2), 2, n)
BY DigitsEnough, PaddedEnough

\* What four digits can.
LEMMA FourDigitsOf ==
  ASSUME NEW n \in Nat, n < 10000
  PROVE  Numeral(Padded(Number(n), 4), 4, n)
BY DigitsEnough, PaddedEnough

\* What six can.
LEMMA SixDigits ==
  ASSUME NEW n \in Nat, n < 1000000
  PROVE  Numeral(Padded(Number(n), 6), 6, n)
BY DigitsEnough, PaddedEnough

-----------------------------------------------------------------------------
(* Where the parts of a text stand *)

\* A part stands after the first p characters, as far as the text goes.
Shows(t, p, s) == \A i \in 1 .. Len(s) : p + i <= Len(t) => t[p + i] = s[i]

\* A text shows itself.
LEMMA ShowsSelf == \A t \in Seq(Int) : Shows(t, 0, t)
<1> TAKE t \in Seq(Int)
<1>1. \A i \in 1 .. Len(t) : 0 + i = i
  OBVIOUS
<1> QED BY Zenon, <1>1 DEF Shows

\* What a text shows its beginnings show.
LEMMA ShowsCut ==
  ASSUME NEW t \in Seq(Int), NEW p \in Nat, NEW s \in Seq(Int), Shows(t, p, s),
         NEW n \in 0 .. Len(t)
  PROVE  /\ SubSeq(t, 1, n) \in Seq(Int) /\ Len(SubSeq(t, 1, n)) = n
         /\ Shows(SubSeq(t, 1, n), p, s)
<1> DEFINE u == SubSeq(t, 1, n)
<1>1. Len(t) \in Nat /\ n \in Int /\ Len(s) \in Nat
  BY LenProperties
<1>2. \A i \in 1 .. n : t[i] \in Int
  BY <1>1, ElementOfSeq
<1>3. u \in Seq(Int) /\ Len(u) = (IF 1 <= n THEN n - 1 + 1 ELSE 0)
      /\ \A i \in 1 .. n - 1 + 1 : u[i] = t[1 + i - 1]
  BY <1>1, <1>2, SubSeqProperties
<1>4. (IF 1 <= n THEN n - 1 + 1 ELSE 0) = n /\ n - 1 + 1 = n /\ \A i \in Int : 1 + i - 1 = i
  BY <1>1
<1> HIDE DEF u
<1>5. Len(u) = n /\ \A i \in 1 .. n : u[i] = t[i]
  BY <1>3, <1>4
<1>6. ASSUME NEW i \in 1 .. Len(s), p + i <= n PROVE u[p + i] = s[i]
  <2>1. p + i \in 1 .. n /\ p + i <= Len(t)
    BY <1>1, <1>6
  <2>2. t[p + i] = s[i]
    BY Zenon, <2>1 DEF Shows
  <2> QED BY Zenon, <1>5, <2>1, <2>2
<1> QED BY Zenon, <1>3, <1>5, <1>6 DEF u, Shows

\* Three parts make a text.
LEMMA ThreeLong ==
  ASSUME NEW a \in Seq(Int), NEW b \in Seq(Int), NEW c \in Seq(Int)
  PROVE  a \o b \o c \in Seq(Int) /\ Len(a \o b \o c) = Len(a) + Len(b) + Len(c)
<1> DEFINE x == a \o b
           z == x \o c
<1>1. x \in Seq(Int) /\ Len(x) = Len(a) + Len(b)
  BY ConcatProperties
<1> HIDE DEF x
<1>2. z \in Seq(Int) /\ Len(z) = Len(x) + Len(c)
  BY <1>1, ConcatProperties
<1>3. z \in Seq(Int) /\ Len(z) = Len(a) + Len(b) + Len(c)
  BY Zenon, <1>1, <1>2
<1> QED BY Zenon, <1>3 DEF x

\* Five parts do.
LEMMA FiveLong ==
  ASSUME NEW a \in Seq(Int), NEW b \in Seq(Int), NEW c \in Seq(Int), NEW d \in Seq(Int),
         NEW e \in Seq(Int)
  PROVE  /\ a \o b \o c \o d \o e \in Seq(Int)
         /\ Len(a \o b \o c \o d \o e) = Len(a) + Len(b) + Len(c) + Len(d) + Len(e)
<1> DEFINE x == a \o b \o c
           z == x \o d \o e
<1>1. x \in Seq(Int) /\ Len(x) = Len(a) + Len(b) + Len(c)
  BY ThreeLong
<1> HIDE DEF x
<1>2. z \in Seq(Int) /\ Len(z) = Len(x) + Len(d) + Len(e)
  BY ZenonT(60), <1>1, ThreeLong
<1>3. z \in Seq(Int) /\ Len(z) = Len(a) + Len(b) + Len(c) + Len(d) + Len(e)
  BY Zenon, <1>1, <1>2
<1> QED BY Zenon, <1>3 DEF x

\* A text that shows two parts put together shows each.
LEMMA TwoShown ==
  ASSUME NEW t, NEW p \in Nat, NEW a \in Seq(Int), NEW b \in Seq(Int), Shows(t, p, a \o b)
  PROVE  Shows(t, p, a) /\ Shows(t, p + Len(a), b)
<1> DEFINE c == a \o b
<1>1. Len(a) \in Nat /\ Len(b) \in Nat
  BY LenProperties
<1>2. /\ c \in Seq(Int) /\ Len(c) = Len(a) + Len(b)
      /\ \A i \in 1 .. Len(a) + Len(b) : c[i] = IF i <= Len(a) THEN a[i] ELSE b[i - Len(a)]
  BY ConcatProperties
<1> HIDE DEF c
<1>3. \A i \in 1 .. Len(c) : p + i <= Len(t) => t[p + i] = c[i]
  BY Zenon DEF Shows, c
<1>4. ASSUME NEW i \in 1 .. Len(a), p + i <= Len(t) PROVE t[p + i] = a[i]
  <2>1. i \in 1 .. Len(c) /\ i \in 1 .. Len(a) + Len(b) /\ i <= Len(a)
    BY <1>1, <1>2
  <2> QED BY Zenon, <1>2, <1>3, <1>4, <2>1
<1>5. ASSUME NEW i \in 1 .. Len(b), (p + Len(a)) + i <= Len(t) PROVE t[(p + Len(a)) + i] = b[i]
  <2> DEFINE j == Len(a) + i
  <2>1. /\ j \in 1 .. Len(c) /\ j \in 1 .. Len(a) + Len(b) /\ ~(j <= Len(a)) /\ j - Len(a) = i
        /\ (p + Len(a)) + i = p + j
    BY <1>1, <1>2
  <2> HIDE DEF j
  <2> QED BY Zenon, <1>2, <1>3, <1>5, <2>1
<1> QED BY Zenon, <1>2, <1>4, <1>5 DEF c, Shows

\* A text that shows three parts put together shows each.
LEMMA ThreeShown ==
  ASSUME NEW t, NEW p \in Nat, NEW a \in Seq(Int), NEW b \in Seq(Int), NEW c \in Seq(Int),
         Shows(t, p, a \o b \o c)
  PROVE  /\ Shows(t, p, a) /\ Shows(t, p + Len(a), b) /\ Shows(t, p + Len(a) + Len(b), c)
<1> DEFINE x == a \o b
<1>1. x \in Seq(Int) /\ Len(x) = Len(a) + Len(b)
  BY ConcatProperties
<1>2. Shows(t, p, x \o c)
  OBVIOUS
<1>3. Len(a) \in Nat /\ Len(b) \in Nat /\ Len(c) \in Nat
  BY LenProperties
<1> HIDE DEF x
<1>4. /\ Shows(t, p, x) /\ Shows(t, p + Len(x), c)
  <2>1. x \in Seq(Int)
    BY <1>1
  <2>2. c \in Seq(Int) /\ p \in Nat
    OBVIOUS
  <2> QED BY Zenon, <1>2, <2>1, <2>2, TwoShown
<1>5. Shows(t, p, a) /\ Shows(t, p + Len(a), b)
  BY Zenon, <1>4, TwoShown DEF x
<1>6. p + Len(x) = p + Len(a) + Len(b)
  <2> HIDE DEF x
  <2> QED BY <1>1, <1>3
<1> QED BY Zenon, <1>4, <1>5, <1>6 DEF x

\* A text that shows five parts put together shows each.
LEMMA FiveShown ==
  ASSUME NEW t, NEW p \in Nat, NEW a \in Seq(Int), NEW b \in Seq(Int), NEW c \in Seq(Int),
         NEW d \in Seq(Int), NEW e \in Seq(Int), Shows(t, p, a \o b \o c \o d \o e)
  PROVE  /\ Shows(t, p, a) /\ Shows(t, p + Len(a), b) /\ Shows(t, p + Len(a) + Len(b), c)
         /\ Shows(t, p + Len(a) + Len(b) + Len(c), d)
         /\ Shows(t, p + Len(a) + Len(b) + Len(c) + Len(d), e)
<1> DEFINE x == a \o b \o c
<1>1. x \in Seq(Int) /\ Len(x) = Len(a) + Len(b) + Len(c)
  BY ThreeLong
<1>2. Shows(t, p, x \o d \o e)
  OBVIOUS
<1>3. Len(a) \in Nat /\ Len(b) \in Nat /\ Len(c) \in Nat /\ Len(d) \in Nat /\ Len(e) \in Nat
  BY LenProperties
<1> HIDE DEF x
<1>4. /\ Shows(t, p, x) /\ Shows(t, p + Len(x), d) /\ Shows(t, p + Len(x) + Len(d), e)
  BY Zenon, <1>1, <1>2, ThreeShown
<1>5. Shows(t, p, a) /\ Shows(t, p + Len(a), b) /\ Shows(t, p + Len(a) + Len(b), c)
  BY Zenon, <1>4, ThreeShown DEF x
<1>6. /\ p + Len(x) = p + Len(a) + Len(b) + Len(c)
      /\ p + Len(x) + Len(d) = p + Len(a) + Len(b) + Len(c) + Len(d)
  <2> HIDE DEF x
  <2> QED BY <1>1, <1>3
<1> QED BY Zenon, <1>4, <1>5, <1>6 DEF x

\* Where the numbers of a date stand, and those of a time of day after a date, with a
\* point and six digits if the text goes so far.
DateShown(t, y, m, d) ==
  /\ Shows(t, 0, y) /\ Shows(t, 4, <<Dash>>) /\ Shows(t, 5, m)
  /\ Shows(t, 7, <<Dash>>) /\ Shows(t, 8, d)

HttpDateShown(t, d, m, y) ==
  /\ Shows(t, 0, d) /\ Shows(t, 2, <<Dash>>) /\ Shows(t, 3, m)
  /\ Shows(t, 5, <<Dash>>) /\ Shows(t, 6, y)

TimeShown(t, h, i, s, f) ==
  /\ Shows(t, 10, <<Blank>>) /\ Shows(t, 11, h) /\ Shows(t, 13, <<Colon>>)
  /\ Shows(t, 14, i) /\ Shows(t, 16, <<Colon>>) /\ Shows(t, 17, s)
  /\ Shows(t, 19, <<Point>>) /\ Shows(t, 20, f)

\* The characters between them are one each.
LEMMA SignsAre ==
  /\ <<Dash>> \in Seq(Int) /\ <<Colon>> \in Seq(Int) /\ <<Blank>> \in Seq(Int) /\ <<Point>> \in Seq(Int)
  /\ Len(<<Dash>>) = 1 /\ Len(<<Colon>>) = 1 /\ Len(<<Blank>>) = 1 /\ Len(<<Point>>) = 1
<1>1. Dash \in Int /\ Colon \in Int /\ Blank \in Int /\ Point \in Int
  BY DEF Dash, Colon, Blank, Point
<1> QED BY <1>1

\* The parts of a text, and the texts to_iso8601_str and to_http_ts_str put together.
Parts(y, m, d, h, i, s, f) ==
  /\ y \in Seq(Int) /\ m \in Seq(Int) /\ d \in Seq(Int) /\ h \in Seq(Int)
  /\ i \in Seq(Int) /\ s \in Seq(Int) /\ f \in Seq(Int)
  /\ Len(y) = 4 /\ Len(m) = 2 /\ Len(d) = 2 /\ Len(h) = 2 /\ Len(i) = 2 /\ Len(s) = 2 /\ Len(f) = 6

TextOf(y, m, d, h, i, s, f) ==
  (y \o <<Dash>> \o m \o <<Dash>> \o d) \o <<Blank>>
    \o (h \o <<Colon>> \o i \o <<Colon>> \o (s \o (<<Point>> \o f)))

HttpOf(y, m, d, h, i, s) ==
  d \o <<Dash>> \o m \o <<Dash>> \o y \o <<Blank>> \o h \o <<Colon>> \o i \o <<Colon>> \o s

\* The parts of a timestamp's text, put together as to_iso8601_str does.
LEMMA TextLaidOut ==
  ASSUME NEW y, NEW m, NEW d, NEW h, NEW i, NEW s, NEW f, Parts(y, m, d, h, i, s, f)
  PROVE  LET t == TextOf(y, m, d, h, i, s, f)
         IN  t \in Seq(Int) /\ Len(t) = 26 /\ DateShown(t, y, m, d) /\ TimeShown(t, h, i, s, f)
<1> DEFINE dash == <<Dash>>
           colon == <<Colon>>
           blank == <<Blank>>
           point == <<Point>>
           b == point \o f
           x == s \o b
           a == y \o dash \o m \o dash \o d
           c == h \o colon \o i \o colon \o x
           t == TextOf(y, m, d, h, i, s, f)
<1>0. /\ y \in Seq(Int) /\ m \in Seq(Int) /\ d \in Seq(Int) /\ h \in Seq(Int)
      /\ i \in Seq(Int) /\ s \in Seq(Int) /\ f \in Seq(Int)
      /\ dash \in Seq(Int) /\ colon \in Seq(Int) /\ blank \in Seq(Int) /\ point \in Seq(Int)
  BY SignsAre DEF Parts
<1>1. /\ Len(dash) = 1 /\ Len(colon) = 1 /\ Len(blank) = 1 /\ Len(point) = 1
      /\ Len(y) = 4 /\ Len(m) = 2 /\ Len(d) = 2 /\ Len(h) = 2 /\ Len(i) = 2 /\ Len(s) = 2
      /\ Len(f) = 6
  BY SignsAre DEF Parts
<1>2. t = a \o blank \o c
  BY DEF TextOf
<1> HIDE DEF dash, colon, blank, point, t
<1>3. b \in Seq(Int) /\ Len(b) = 7
  <2>1. b \in Seq(Int) /\ Len(b) = Len(point) + Len(f)
    BY <1>0, ConcatProperties
  <2> HIDE DEF b
  <2> QED BY <1>1, <2>1
<1> HIDE DEF b
<1>4. x \in Seq(Int) /\ Len(x) = 9
  <2>1. x \in Seq(Int) /\ Len(x) = Len(s) + Len(b)
    BY <1>0, <1>3, ConcatProperties
  <2> HIDE DEF x
  <2> QED BY <1>1, <1>3, <2>1
<1> HIDE DEF x
<1>5. a \in Seq(Int) /\ Len(a) = 10
  <2>1. a \in Seq(Int) /\ Len(a) = Len(y) + Len(dash) + Len(m) + Len(dash) + Len(d)
    BY <1>0, FiveLong
  <2> HIDE DEF a
  <2> QED BY <1>1, <2>1
<1>6. c \in Seq(Int) /\ Len(c) = 15
  <2>0. x \in Seq(Int)
    BY <1>4
  <2>1. c \in Seq(Int) /\ Len(c) = Len(h) + Len(colon) + Len(i) + Len(colon) + Len(x)
    BY <1>0, <2>0, FiveLong
  <2> HIDE DEF c
  <2> QED BY <1>1, <1>4, <2>1
<1> HIDE DEF a, c
<1>7. t \in Seq(Int) /\ Len(t) = 26
  <2>0. a \in Seq(Int) /\ c \in Seq(Int)
    BY <1>5, <1>6
  <2>1. t \in Seq(Int) /\ Len(t) = Len(a) + Len(blank) + Len(c)
    BY <1>0, <1>2, <2>0, ThreeLong
  <2> QED BY <1>1, <1>5, <1>6, <2>1
<1>8. Shows(t, 0, a) /\ Shows(t, 0 + Len(a), blank) /\ Shows(t, 0 + Len(a) + Len(blank), c)
  <2>1. 0 \in Nat /\ Shows(t, 0, a \o blank \o c)
    BY Zenon, <1>2, <1>7, ShowsSelf
  <2>2. a \in Seq(Int) /\ c \in Seq(Int)
    BY <1>5, <1>6
  <2> QED BY Zenon, <1>0, <2>1, <2>2, ThreeShown
<1>9. Shows(t, 10, blank) /\ Shows(t, 11, c)
  <2>1. 0 + Len(a) = 10 /\ 0 + Len(a) + Len(blank) = 11
    BY <1>1, <1>5
  <2> QED BY Zenon, <1>8, <2>1
<1>10. DateShown(t, y, m, d)
  <2>1. 0 \in Nat /\ Shows(t, 0, y \o dash \o m \o dash \o d)
    BY Zenon, <1>8 DEF a
  <2>2. /\ Shows(t, 0, y) /\ Shows(t, 0 + Len(y), dash) /\ Shows(t, 0 + Len(y) + Len(dash), m)
        /\ Shows(t, 0 + Len(y) + Len(dash) + Len(m), dash)
        /\ Shows(t, 0 + Len(y) + Len(dash) + Len(m) + Len(dash), d)
    BY Zenon, <1>0, <2>1, FiveShown
  <2>3. /\ 0 + Len(y) = 4 /\ 0 + Len(y) + Len(dash) = 5 /\ 0 + Len(y) + Len(dash) + Len(m) = 7
        /\ 0 + Len(y) + Len(dash) + Len(m) + Len(dash) = 8
    BY <1>1
  <2> QED BY Zenon, <2>2, <2>3 DEF DateShown, dash
<1>11. TimeShown(t, h, i, s, f)
  <2>1. 11 \in Nat /\ Shows(t, 11, h \o colon \o i \o colon \o x)
    BY Zenon, <1>9 DEF c
  <2>0. x \in Seq(Int)
    BY <1>4
  <2>2. /\ Shows(t, 11, h) /\ Shows(t, 11 + Len(h), colon) /\ Shows(t, 11 + Len(h) + Len(colon), i)
        /\ Shows(t, 11 + Len(h) + Len(colon) + Len(i), colon)
        /\ Shows(t, 11 + Len(h) + Len(colon) + Len(i) + Len(colon), x)
    BY Zenon, <1>0, <2>0, <2>1, FiveShown
  <2>3. /\ 11 + Len(h) = 13 /\ 11 + Len(h) + Len(colon) = 14
        /\ 11 + Len(h) + Len(colon) + Len(i) = 16
        /\ 11 + Len(h) + Len(colon) + Len(i) + Len(colon) = 17
    BY <1>1
  <2>4. 17 \in Nat /\ Shows(t, 17, s \o b)
    BY Zenon, <2>2, <2>3 DEF x
  <2>5. Shows(t, 17, s) /\ Shows(t, 17 + Len(s), b)
    <3>1. b \in Seq(Int)
      BY <1>3
    <3> QED BY Zenon, <1>0, <2>4, <3>1, TwoShown
  <2>6. 17 + Len(s) = 19 /\ 19 \in Nat
    BY <1>1
  <2>7. Shows(t, 19, point \o f)
    BY Zenon, <2>5, <2>6 DEF b
  <2>8. Shows(t, 19, point) /\ Shows(t, 19 + Len(point), f)
    <3>1. 19 \in Nat
      OBVIOUS
    <3> QED BY Zenon, <1>0, <2>7, <3>1, TwoShown
  <2>9. 19 + Len(point) = 20
    BY <1>1
  <2> QED BY Zenon, <1>9, <2>2, <2>3, <2>5, <2>8, <2>9 DEF TimeShown, blank, colon, point
<1> QED BY Zenon, <1>7, <1>10, <1>11 DEF t

\* The parts of an HTTP date, put together as to_http_ts_str does, and a fraction of which
\* nothing shows.
LEMMA HttpLaidOut ==
  ASSUME NEW y, NEW m, NEW d, NEW h, NEW i, NEW s, NEW f, Parts(y, m, d, h, i, s, f)
  PROVE  LET t == HttpOf(y, m, d, h, i, s)
         IN  t \in Seq(Int) /\ Len(t) = 19 /\ HttpDateShown(t, d, m, y) /\ TimeShown(t, h, i, s, f)
<1> DEFINE dash == <<Dash>>
           colon == <<Colon>>
           blank == <<Blank>>
           point == <<Point>>
           a == d \o dash \o m \o dash \o y
           b == a \o blank \o h
           t == HttpOf(y, m, d, h, i, s)
<1>0. /\ y \in Seq(Int) /\ m \in Seq(Int) /\ d \in Seq(Int) /\ h \in Seq(Int)
      /\ i \in Seq(Int) /\ s \in Seq(Int) /\ f \in Seq(Int)
      /\ dash \in Seq(Int) /\ colon \in Seq(Int) /\ blank \in Seq(Int) /\ point \in Seq(Int)
  BY SignsAre DEF Parts
<1>1. /\ Len(dash) = 1 /\ Len(colon) = 1 /\ Len(blank) = 1 /\ Len(point) = 1
      /\ Len(y) = 4 /\ Len(m) = 2 /\ Len(d) = 2 /\ Len(h) = 2 /\ Len(i) = 2 /\ Len(s) = 2
      /\ Len(f) = 6
  BY SignsAre DEF Parts
<1>2. t = b \o colon \o i \o colon \o s
  BY DEF HttpOf
<1> HIDE DEF dash, colon, blank, point, t
<1>3. a \in Seq(Int) /\ Len(a) = 10
  <2>1. a \in Seq(Int) /\ Len(a) = Len(d) + Len(dash) + Len(m) + Len(dash) + Len(y)
    BY <1>0, FiveLong
  <2> HIDE DEF a
  <2> QED BY <1>1, <2>1
<1> HIDE DEF a
<1>4. b \in Seq(Int) /\ Len(b) = 13
  <2>0. a \in Seq(Int)
    BY <1>3
  <2>1. b \in Seq(Int) /\ Len(b) = Len(a) + Len(blank) + Len(h)
    BY <1>0, <2>0, ThreeLong
  <2> HIDE DEF b
  <2> QED BY <1>1, <1>3, <2>1
<1> HIDE DEF b
<1>5. t \in Seq(Int) /\ Len(t) = 19
  <2>0. b \in Seq(Int)
    BY <1>4
  <2>1. t \in Seq(Int) /\ Len(t) = Len(b) + Len(colon) + Len(i) + Len(colon) + Len(s)
    BY <1>0, <1>2, <2>0, FiveLong
  <2> QED BY <1>1, <1>4, <2>1
<1>6. /\ Shows(t, 0, b) /\ Shows(t, 13, colon) /\ Shows(t, 14, i)
      /\ Shows(t, 16, colon) /\ Shows(t, 17, s)
  <2>1. 0 \in Nat /\ Shows(t, 0, b \o colon \o i \o colon \o s)
    BY Zenon, <1>2, <1>5, ShowsSelf
  <2>0. b \in Seq(Int)
    BY <1>4
  <2>2. /\ Shows(t, 0, b) /\ Shows(t, 0 + Len(b), colon) /\ Shows(t, 0 + Len(b) + Len(colon), i)
        /\ Shows(t, 0 + Len(b) + Len(colon) + Len(i), colon)
        /\ Shows(t, 0 + Len(b) + Len(colon) + Len(i) + Len(colon), s)
    BY Zenon, <1>0, <2>0, <2>1, FiveShown
  <2>3. /\ 0 + Len(b) = 13 /\ 0 + Len(b) + Len(colon) = 14 /\ 0 + Len(b) + Len(colon) + Len(i) = 16
        /\ 0 + Len(b) + Len(colon) + Len(i) + Len(colon) = 17
    BY <1>1, <1>4
  <2> QED BY Zenon, <2>2, <2>3
<1>7. Shows(t, 0, a) /\ Shows(t, 10, blank) /\ Shows(t, 11, h)
  <2>1. 0 \in Nat /\ Shows(t, 0, a \o blank \o h)
    BY Zenon, <1>6 DEF b
  <2>0. a \in Seq(Int)
    BY <1>3
  <2>2. Shows(t, 0, a) /\ Shows(t, 0 + Len(a), blank) /\ Shows(t, 0 + Len(a) + Len(blank), h)
    BY Zenon, <1>0, <2>0, <2>1, ThreeShown
  <2>3. 0 + Len(a) = 10 /\ 0 + Len(a) + Len(blank) = 11
    BY <1>1, <1>3
  <2> QED BY Zenon, <2>2, <2>3
<1>8. HttpDateShown(t, d, m, y)
  <2>1. 0 \in Nat /\ Shows(t, 0, d \o dash \o m \o dash \o y)
    BY Zenon, <1>7 DEF a
  <2>2. /\ Shows(t, 0, d) /\ Shows(t, 0 + Len(d), dash) /\ Shows(t, 0 + Len(d) + Len(dash), m)
        /\ Shows(t, 0 + Len(d) + Len(dash) + Len(m), dash)
        /\ Shows(t, 0 + Len(d) + Len(dash) + Len(m) + Len(dash), y)
    BY Zenon, <1>0, <2>1, FiveShown
  <2>3. /\ 0 + Len(d) = 2 /\ 0 + Len(d) + Len(dash) = 3 /\ 0 + Len(d) + Len(dash) + Len(m) = 5
        /\ 0 + Len(d) + Len(dash) + Len(m) + Len(dash) = 6
    BY <1>1
  <2> QED BY Zenon, <2>2, <2>3 DEF HttpDateShown, dash
<1>9. Shows(t, 19, point) /\ Shows(t, 20, f)
  <2>1. \A k \in 1 .. Len(point) : ~(19 + k <= Len(t))
    BY <1>1, <1>5
  <2>2. \A k \in 1 .. Len(f) : ~(20 + k <= Len(t))
    BY <1>1, <1>5
  <2> QED BY Zenon, <2>1, <2>2 DEF Shows
<1> QED BY Zenon, <1>5, <1>6, <1>7, <1>8, <1>9 DEF TimeShown, blank, colon, point, t

-----------------------------------------------------------------------------
(* Reading on from a place in a text *)

\* What is left of a text after its first p characters.
Rest(t, p) == SubSeq(t, p + 1, Len(t))

\* Its characters are those of the text, further on.
LEMMA RestIs ==
  ASSUME NEW t \in Seq(Int), NEW p \in Nat
  PROVE  /\ Rest(t, p) \in Seq(Int)
         /\ Len(Rest(t, p)) = IF p < Len(t) THEN Len(t) - p ELSE 0
         /\ \A i \in 1 .. Len(t) - p : Rest(t, p)[i] = t[p + i]
<1> DEFINE a == p + 1
           n == Len(t)
           u == SubSeq(t, a, n)
<1>1. n \in Nat /\ a \in Int /\ n \in Int
  BY LenProperties
<1>2. \A i \in a .. n : t[i] \in Int
  <2> SUFFICES ASSUME NEW i \in a .. n PROVE t[i] \in Int
    OBVIOUS
  <2>1. i \in 1 .. Len(t)
    BY <1>1
  <2> QED BY <2>1, ElementOfSeq
<1> HIDE DEF a, n
<1>3. /\ u \in Seq(Int) /\ Len(u) = (IF a <= n THEN n - a + 1 ELSE 0)
      /\ \A i \in 1 .. n - a + 1 : u[i] = t[a + i - 1]
  BY <1>1, <1>2, SubSeqProperties
<1>4. n - a + 1 = n - p /\ (a <= n <=> p < n) /\ \A i \in Int : a + i - 1 = p + i
  BY <1>1 DEF a
<1> HIDE DEF u
<1>5. Len(u) = (IF p < n THEN n - p ELSE 0) /\ \A i \in 1 .. n - p : u[i] = t[p + i]
  <2>1. \A i \in 1 .. n - p : i \in Int
    OBVIOUS
  <2> QED BY Zenon, <1>3, <1>4, <2>1
<1>6. u = Rest(t, p)
  BY Zenon DEF u, a, n, Rest
<1> QED BY Zenon, <1>3, <1>5, <1>6 DEF n

\* Nothing is left beyond the end.
LEMMA RestEmpty ==
  ASSUME NEW t \in Seq(Int), NEW p \in Nat, ~(p < Len(t))
  PROVE  Rest(t, p) = <<>>
<1>1. Rest(t, p) \in Seq(Int) /\ Len(Rest(t, p)) = 0
  BY RestIs
<1> HIDE DEF Rest
<1> QED BY Zenon, <1>1, EmptySeq, SeqEqual

\* What is left of the rest of a text.
LEMMA RestOfRest ==
  ASSUME NEW t \in Seq(Int), NEW p \in Nat, NEW n \in Nat, NEW q \in Nat,
         (p + n = q) \/ (Len(t) <= p + n /\ Len(t) <= q)
  PROVE  Rest(Rest(t, p), n) = Rest(t, q)
<1> DEFINE r == Rest(t, p)
           u == Rest(r, n)
           v == Rest(t, q)
<1>1. /\ r \in Seq(Int) /\ Len(r) = (IF p < Len(t) THEN Len(t) - p ELSE 0)
      /\ \A i \in 1 .. Len(t) - p : r[i] = t[p + i]
  BY RestIs
<1>2. /\ v \in Seq(Int) /\ Len(v) = (IF q < Len(t) THEN Len(t) - q ELSE 0)
      /\ \A i \in 1 .. Len(t) - q : v[i] = t[q + i]
  BY RestIs
<1> HIDE DEF r, v
<1>3. /\ u \in Seq(Int) /\ Len(u) = (IF n < Len(r) THEN Len(r) - n ELSE 0)
      /\ \A i \in 1 .. Len(r) - n : u[i] = r[n + i]
  BY <1>1, RestIs
<1> HIDE DEF u
<1>4. Len(t) \in Nat
  BY LenProperties
<1> DEFINE a == Len(t)
           b == Len(r)
<1>5. a \in Nat /\ b = (IF p < a THEN a - p ELSE 0)
  BY <1>1, <1>4
<1> HIDE DEF a, b
<1>6. Len(u) = (IF n < b THEN b - n ELSE 0) /\ Len(v) = (IF q < a THEN a - q ELSE 0)
  BY Zenon, <1>2, <1>3 DEF a, b
<1>7. (p + n = q) \/ (a <= p + n /\ a <= q)
  BY DEF a
<1>8. Len(u) = Len(v)
  BY <1>5, <1>6, <1>7
<1>9. ASSUME NEW i \in 1 .. Len(u) PROVE u[i] = v[i]
  <2>1. /\ i \in 1 .. b - n /\ n + i \in 1 .. a - p /\ p + (n + i) = q + i /\ i \in 1 .. a - q
    BY <1>5, <1>6, <1>7
  <2>2. u[i] = r[n + i] /\ r[n + i] = t[p + (n + i)] /\ v[i] = t[q + i]
    BY Zenon, <1>1, <1>2, <1>3, <2>1 DEF a, b
  <2> QED BY Zenon, <2>1, <2>2
<1>10. u = v
  <2>1. u \in Seq(Int) /\ v \in Seq(Int)
    BY <1>2, <1>3
  <2> QED BY Zenon, <1>8, <1>9, <2>1, SeqEqual
<1> QED BY Zenon, <1>10 DEF r, u, v

\* So many come first that are in a set, all of them in a row.
InRow(m, n, G) == m \in 0 .. n /\ (\A j \in 1 .. m : j \in G) /\ (m = n \/ m + 1 \notin G)

\* How many stand in a row at the beginning.
LEMMA FirstOnes ==
  ASSUME NEW n \in Nat, NEW m, NEW G, InRow(m, n, G)
  PROVE  Cardinality({k \in 1 .. n : \A j \in 1 .. k : j \in G}) = m
<1> USE DEF InRow
<1> DEFINE S == {k \in 1 .. n : \A j \in 1 .. k : j \in G}
<1>1. S = 1 .. m
  <2>1. ASSUME NEW k \in S PROVE k \in 1 .. m
    <3>1. CASE m = n
      BY <3>1
    <3>2. CASE m + 1 \notin G
      <4>1. ~(m + 1 \in 1 .. k)
        BY <2>1, <3>2
      <4> QED BY <4>1
    <3> QED BY <3>1, <3>2
  <2>2. ASSUME NEW k \in 1 .. m PROVE k \in S
    <3>1. k \in 1 .. n /\ \A j \in 1 .. k : j \in 1 .. m
      OBVIOUS
    <3> QED BY <3>1
  <2> HIDE DEF S
  <2> QED BY <2>1, <2>2
<1>2. Cardinality(1 .. m) = m
  <2>1. 1 \in Int /\ m \in Int
    OBVIOUS
  <2>2. Cardinality(1 .. m) = IF 1 > m THEN 0 ELSE m - 1 + 1
    BY <2>1, FS_Interval
  <2> QED BY <2>2
<1> QED BY <1>1, <1>2

\* There are at most as many as are looked at.
LEMMA FirstOnesIn ==
  ASSUME NEW n \in Nat, NEW S \in SUBSET (1 .. n)
  PROVE  Cardinality(S) \in 0 .. n
<1>1. IsFiniteSet(1 .. n) /\ Cardinality(1 .. n) = IF 1 > n THEN 0 ELSE n - 1 + 1
  <2>1. 1 \in Int /\ n \in Int
    OBVIOUS
  <2> QED BY <2>1, FS_Interval
<1>2. IsFiniteSet(S) /\ Cardinality(S) <= Cardinality(1 .. n)
  BY <1>1, FS_Subset
<1>3. Cardinality(S) \in Nat
  BY <1>2, FS_CardinalityType
<1> QED BY <1>1, <1>2, <1>3

\* The smaller of two numbers.
LEMMA SmallerIs == \A a, b \in Int : Smaller(a, b) \in {a, b} /\ Smaller(a, b) <= a /\ Smaller(a, b) <= b
BY DEF Smaller

\* The digits a number is read from.
LEMMA RunIs ==
  ASSUME NEW x \in Seq(Int), NEW max \in Nat, NEW m \in 0 .. Smaller(max, Len(x)),
         \A j \in 1 .. m : x[j] \in Digit, m = Smaller(max, Len(x)) \/ x[m + 1] \notin Digit
  PROVE  Run(x, max) = m
<1> DEFINE n == Smaller(max, Len(x))
           G == {j \in 1 .. n : x[j] \in Digit}
<1>1. n \in Nat
  BY LenProperties, SmallerIs
<1> HIDE DEF n
<1>2. m \in 0 .. n /\ (m = n \/ x[m + 1] \notin Digit)
  BY DEF n
<1>3. \A j \in 1 .. m : j \in G
  BY <1>1, <1>2
<1>4. m = n \/ m + 1 \notin G
  BY <1>2
<1>5. {k \in 1 .. n : \A j \in 1 .. k : j \in G} = {k \in 1 .. n : \A j \in 1 .. k : x[j] \in Digit}
  <2>1. \A k \in 1 .. n : \A j \in 1 .. k : j \in 1 .. n
    BY <1>1
  <2>2. \A k \in 1 .. n : (\A j \in 1 .. k : j \in G) <=> (\A j \in 1 .. k : x[j] \in Digit)
    BY Zenon, <2>1
  <2> HIDE DEF G
  <2> QED BY Zenon, <2>2
<1> HIDE DEF G
<1>6. Cardinality({k \in 1 .. n : \A j \in 1 .. k : j \in G}) = m
  <2>1. InRow(m, n, G)
    BY <1>2, <1>3, <1>4 DEF InRow
  <2> QED BY Zenon, <1>1, <2>1, FirstOnes
<1> QED BY Zenon, <1>5, <1>6 DEF Run, n

\* No more of them than are looked at.
LEMMA RunIn ==
  ASSUME NEW x \in Seq(Int), NEW max \in Nat
  PROVE  Run(x, max) \in 0 .. Smaller(max, Len(x))
<1>1. Smaller(max, Len(x)) \in Nat
  BY LenProperties, SmallerIs
<1> QED BY <1>1, FirstOnesIn DEF Run

-----------------------------------------------------------------------------
(* What one conversion makes of a reader *)

Readers == [left : Seq(Int), ok : BOOLEAN, got : Seq(Int)]

\* A reader that has read a text's first p characters, or failed.
UpTo(r, t, p) == r.ok => r.left = Rest(t, p)

\* From r on q has read the next n characters after the first p, and these numbers from
\* them; or there are fewer, and then it may have failed.
Passed(q, r, t, p, n, numbers) ==
  /\ q \in Readers /\ UpTo(q, t, p + n) /\ (q.ok => r.ok)
  /\ p + n <= Len(t) => q.ok = r.ok /\ q.got = r.got \o numbers

\* Reading so many of the characters left.
LEMMA TookIn ==
  ASSUME NEW r \in Readers, NEW n \in Nat, NEW numbers \in Seq(Int)
  PROVE  /\ Took(r, n, numbers) \in Readers
         /\ Took(r, n, numbers).ok = r.ok
         /\ Took(r, n, numbers).left = Rest(r.left, n)
         /\ Took(r, n, numbers).got = r.got \o numbers
<1> DEFINE u == Rest(r.left, n)
           g == r.got \o numbers
           q == [left |-> u, ok |-> r.ok, got |-> g]
<1>1. r.left \in Seq(Int) /\ r.ok \in BOOLEAN /\ r.got \in Seq(Int)
  BY DEF Readers
<1>2. u \in Seq(Int)
  BY <1>1, RestIs
<1>3. g \in Seq(Int)
  BY <1>1, ConcatProperties
<1>4. Took(r, n, numbers) = q
  BY Zenon DEF Took, Rest
<1> HIDE DEF u, g
<1>5. q \in Readers
  BY <1>1, <1>2, <1>3 DEF Readers
<1>6. q.ok = r.ok /\ q.left = u /\ q.got = g
  OBVIOUS
<1> HIDE DEF q
<1> QED BY Zenon, <1>4, <1>5, <1>6 DEF u, g

\* A reader that fails is one still.
LEMMA FailedIn ==
  ASSUME NEW r \in Readers
  PROVE  Failed(r) \in Readers /\ Failed(r).ok = FALSE
BY DEF Readers, Failed

\* Where no sign stands, a signed number is read as an unsigned one.
LEMMA NoSign ==
  ASSUME NEW r \in Readers, NEW m \in Nat, r.left # <<>> => Head(r.left) \in Digit
  PROVE  ReadSigned(r, m) = ReadUnsigned(r, m)
<1> DEFINE sign == r.left # <<>> /\ Head(r.left) \in {Dash, Plus}
           n == Run(r.left, m)
           x == Value(SubSeq(r.left, 1, n))
<1>1. ~sign
  BY DEF Digit, Dash, Plus
<1>2. [r EXCEPT !.left = r.left] = r
  BY DEF Readers
<1> HIDE DEF sign
<1>3. ReadSigned(r, m) = IF n = 0 THEN Failed(r) ELSE Took(r, n, <<x>>)
  <2> HIDE DEF n, x
  <2>1. ReadSigned(r, m) = IF n = 0 THEN Failed(r)
                           ELSE Took([r EXCEPT !.left = r.left], n, <<x>>)
    BY Zenon, <1>1 DEF ReadSigned, sign, n, x
  <2> QED BY Zenon, <1>2, <2>1
<1> QED BY Zenon, <1>3 DEF ReadUnsigned

\* A number that stands where the reader is, or as much of it as there is.
LEMMA NumberRead ==
  ASSUME NEW t \in Seq(Int), NEW p \in Nat, NEW m \in Nat \ {0}, NEW s \in Seq(Digit), Len(s) = m,
         Shows(t, p, s), NEW r \in Readers, r.left = Rest(t, p)
  PROVE  Passed(ReadUnsigned(r, m), r, t, p, m, <<Value(s)>>)
<1> DEFINE a == Len(t)
           x == r.left
           n == Smaller(m, Len(x))
           q == ReadUnsigned(r, m)
           number == Value(SubSeq(x, 1, n))
<1>1. a \in Nat /\ m \in Nat
  BY LenProperties
<1>2. /\ x \in Seq(Int) /\ Len(x) = (IF p < a THEN a - p ELSE 0)
      /\ \A i \in 1 .. a - p : x[i] = t[p + i]
  BY RestIs
<1>3. n = IF p + m <= a THEN m ELSE IF p < a THEN a - p ELSE 0
  BY <1>1, <1>2 DEF Smaller
<1>4. \A i \in 1 .. n : x[i] = s[i] /\ s[i] \in Digit
  <2> TAKE i \in 1 .. n
  <2>1. i \in 1 .. a - p /\ i \in 1 .. Len(s) /\ p + i <= a
    BY <1>1, <1>3
  <2>2. t[p + i] = s[i]
    BY Zenon, <2>1 DEF Shows
  <2>3. s[i] \in Digit
    BY <2>1, ElementOfSeq
  <2> QED BY Zenon, <1>2, <2>1, <2>2, <2>3
<1>5. n \in Nat /\ n <= Len(x)
  BY SMTT(60), <1>1, <1>2, <1>3
<1>6. Run(x, m) = n
  <2>1. n \in 0 .. Smaller(m, Len(x)) /\ \A j \in 1 .. n : x[j] \in Digit
    BY <1>4, <1>5
  <2> HIDE DEF x
  <2>2. n = Smaller(m, Len(x))
    OBVIOUS
  <2> HIDE DEF n
  <2> QED BY Zenon, <1>1, <1>2, <2>1, <2>2, RunIs
<1>7. q = IF n = 0 THEN Failed(r) ELSE Took(r, n, <<number>>)
  <2> HIDE DEF n
  <2> QED BY Zenon, <1>6 DEF ReadUnsigned
<1> HIDE DEF x, n, q, number
<1>8. CASE n = 0
  <2>1. q = Failed(r)
    BY <1>7, <1>8
  <2>2. q \in Readers /\ q.ok = FALSE
    BY Zenon, <2>1, FailedIn
  <2>3. ~(p + m <= Len(t))
    BY <1>1, <1>3, <1>8 DEF a
  <2> QED BY Zenon, <2>2, <2>3 DEF Passed, UpTo, q
<1>9. CASE n # 0
  <2>1. q = Took(r, n, <<number>>)
    BY <1>7, <1>9
  <2>2. number \in Int /\ <<number>> \in Seq(Int)
    <3> DEFINE y == SubSeq(x, 1, n)
    <3>1. \A i \in 1 .. n : x[i] \in Int
      BY <1>2, <1>5, ElementOfSeq
    <3>2. 1 \in Int /\ n \in Int
      BY <1>5
    <3>3. y \in Seq(Int)
      BY <3>1, <3>2, SubSeqProperties
    <3> HIDE DEF y
    <3>4. Value(y) \in Int
      BY Zenon, <3>3, ValueInt
    <3>5. number = Value(y)
      BY Zenon DEF number, y
    <3> QED BY <3>4, <3>5
  <2>3. q \in Readers /\ q.ok = r.ok /\ q.left = Rest(x, n) /\ q.got = r.got \o <<number>>
    BY Zenon, <1>5, <2>1, <2>2, TookIn DEF x
  <2>4. Rest(x, n) = Rest(t, p + m)
    <3>1. p + m \in Nat /\ ((p + n = p + m) \/ (Len(t) <= p + n /\ Len(t) <= p + m))
      BY <1>1, <1>3 DEF a
    <3>2. x = Rest(t, p)
      BY DEF x
    <3> HIDE DEF x, n
    <3>3. n \in Nat
      BY <1>5
    <3>4. Rest(Rest(t, p), n) = Rest(t, p + m)
      <4> HIDE DEF a
      <4> QED BY <3>1, <3>3, RestOfRest
    <3> QED BY Zenon, <3>2, <3>4
  <2>5. ASSUME p + m <= Len(t) PROVE number = Value(s)
    <3>1. n = m
      BY <1>3, <2>5 DEF a
    <3> DEFINE y == SubSeq(x, 1, n)
    <3>2. \A i \in 1 .. n : x[i] \in Int
      BY <1>2, <1>5, ElementOfSeq
    <3>3. 1 \in Int /\ n \in Int
      BY <1>5
    <3>4. y \in Seq(Int) /\ Len(y) = (IF 1 <= n THEN n - 1 + 1 ELSE 0)
          /\ \A i \in 1 .. n - 1 + 1 : y[i] = x[1 + i - 1]
      BY <3>2, <3>3, SubSeqProperties
    <3>5. (IF 1 <= n THEN n - 1 + 1 ELSE 0) = n /\ n - 1 + 1 = n /\ \A i \in 1 .. n : 1 + i - 1 = i
      BY <1>5
    <3> HIDE DEF y
    <3>6. Len(y) = n /\ \A i \in 1 .. n : y[i] = s[i]
      <4>1. Len(y) = n
        BY Zenon, <3>4, <3>5
      <4>2. ASSUME NEW i \in 1 .. n PROVE y[i] = s[i]
        <5>1. y[i] = x[1 + i - 1] /\ 1 + i - 1 = i
          BY Zenon, <3>4, <3>5
        <5> QED BY Zenon, <1>4, <5>1
      <4> QED BY <4>1, <4>2
    <3>7. s \in Seq(Int)
      BY Zenon, DigitsInt
    <3>8. y = s
      <4>1. y \in Seq(Int) /\ Len(y) = Len(s) /\ \A i \in 1 .. Len(y) : y[i] = s[i]
        BY <3>1, <3>4, <3>6
      <4> QED BY Zenon, <3>7, <4>1, SeqEqual
    <3> QED BY Zenon, <3>8 DEF number, y
  <2> QED BY Zenon, <2>3, <2>4, <2>5 DEF Passed, UpTo, q, x
<1> QED BY <1>8, <1>9

\* The same of a number that may have a sign, since digits stand there.
LEMMA SignedRead ==
  ASSUME NEW t \in Seq(Int), NEW p \in Nat, NEW m \in Nat \ {0}, NEW s \in Seq(Digit), Len(s) = m,
         Shows(t, p, s), NEW r \in Readers, r.left = Rest(t, p)
  PROVE  Passed(ReadSigned(r, m), r, t, p, m, <<Value(s)>>)
<1>1. /\ r.left \in Seq(Int) /\ Len(r.left) = (IF p < Len(t) THEN Len(t) - p ELSE 0)
      /\ \A i \in 1 .. Len(t) - p : r.left[i] = t[p + i]
  BY RestIs
<1>2. ASSUME r.left # <<>> PROVE Head(r.left) \in Digit
  <2> DEFINE x == r.left
  <2>1. x \in Seq(Int) /\ x # <<>>
    BY <1>1, <1>2
  <2> HIDE DEF x
  <2>2. Len(x) \in Nat \ {0} /\ Head(x) = x[1]
    BY <2>1, EmptySeq
  <2>3. p < Len(t) /\ Len(t) \in Nat
    <3>1. Len(t) \in Nat /\ Len(x) = IF p < Len(t) THEN Len(t) - p ELSE 0
      BY <1>1, LenProperties DEF x
    <3> QED BY <2>2, <3>1
  <2>4. 1 \in 1 .. Len(t) - p /\ 1 \in 1 .. Len(s) /\ p + 1 <= Len(t)
    BY <2>3
  <2>5. x[1] = t[p + 1] /\ t[p + 1] = s[1]
    BY Zenon, <1>1, <2>4 DEF Shows, x
  <2>6. s[1] \in Digit
    BY <2>4, ElementOfSeq
  <2> QED BY Zenon, <2>2, <2>5, <2>6 DEF x
<1>3. m \in Nat
  OBVIOUS
<1>4. ReadSigned(r, m) = ReadUnsigned(r, m)
  BY Zenon, <1>2, <1>3, NoSign
<1>5. Passed(ReadUnsigned(r, m), r, t, p, m, <<Value(s)>>)
  BY NumberRead
<1> QED BY Zenon, <1>4, <1>5

\* No numbers are read from a character that stands for itself.
LEMMA NothingRead ==
  ASSUME NEW r \in Readers, NEW n \in Nat
  PROVE  /\ Took(r, n, <<>>) \in Readers
         /\ Took(r, n, <<>>).ok = r.ok
         /\ Took(r, n, <<>>).left = Rest(r.left, n)
         /\ Took(r, n, <<>>).got = r.got
<1>1. <<>> \in Seq(Int)
  BY EmptySeq
<1>2. /\ Took(r, n, <<>>) \in Readers
      /\ Took(r, n, <<>>).ok = r.ok
      /\ Took(r, n, <<>>).left = Rest(r.left, n)
      /\ Took(r, n, <<>>).got = r.got \o <<>>
  BY Zenon, <1>1, TookIn
<1>3. r.got \in Seq(Int)
  BY DEF Readers
<1>4. r.got \o <<>> = r.got
  BY <1>3, ConcatEmptySeq
<1> QED BY Zenon, <1>2, <1>4

\* The first of what is left.
LEMMA FirstLeft ==
  ASSUME NEW t \in Seq(Int), NEW p \in Nat
  PROVE  /\ p < Len(t) => Rest(t, p) # <<>> /\ Head(Rest(t, p)) = t[p + 1]
         /\ ~(p < Len(t)) => Rest(t, p) = <<>>
<1> DEFINE x == Rest(t, p)
<1>1. /\ x \in Seq(Int) /\ Len(x) = (IF p < Len(t) THEN Len(t) - p ELSE 0)
      /\ \A i \in 1 .. Len(t) - p : x[i] = t[p + i]
  BY RestIs
<1>2. Len(t) \in Nat /\ Len(<<>>) = 0
  BY LenProperties
<1> HIDE DEF x
<1>3. ASSUME p < Len(t) PROVE x # <<>> /\ Head(x) = t[p + 1]
  <2>1. Len(x) # 0 /\ 1 \in 1 .. Len(t) - p
    BY <1>1, <1>2, <1>3
  <2>2. x # <<>>
    BY Zenon, <1>2, <2>1
  <2>3. Head(x) = x[1]
    BY <1>1, <2>2
  <2> QED BY Zenon, <1>1, <2>1, <2>2, <2>3
<1>4. ASSUME ~(p < Len(t)) PROVE x = <<>>
  BY Zenon, <1>4, RestEmpty DEF x
<1> QED BY Zenon, <1>3, <1>4 DEF x

\* A character that stands where the reader is.
LEMMA CharRead ==
  ASSUME NEW t \in Seq(Int), NEW p \in Nat, NEW c, Shows(t, p, <<c>>),
         NEW r \in Readers, r.left = Rest(t, p)
  PROVE  Passed(ReadChar(r, c), r, t, p, 1, <<>>)
<1> DEFINE q == ReadChar(r, c)
<1>1. Len(t) \in Nat /\ p + 1 \in Nat
  BY LenProperties
<1>2. CASE p < Len(t)
  <2>1. Rest(t, p) # <<>> /\ Head(Rest(t, p)) = t[p + 1]
    BY Zenon, <1>2, FirstLeft
  <2>2. t[p + 1] = c
    <3>1. 1 \in 1 .. Len(<<c>>) /\ p + 1 <= Len(t)
      BY <1>1, <1>2
    <3>2. t[p + 1] = <<c>>[1]
      BY Zenon, <3>1 DEF Shows
    <3> QED BY <3>2
  <2>3. q = Took(r, 1, <<>>)
    BY Zenon, <2>1, <2>2 DEF ReadChar
  <2>4. 1 \in Nat
    OBVIOUS
  <2>5. q \in Readers /\ q.ok = r.ok /\ q.left = Rest(r.left, 1) /\ q.got = r.got
    <3> HIDE DEF q
    <3> QED BY Zenon, <2>3, <2>4, NothingRead
  <2>6. Rest(Rest(t, p), 1) = Rest(t, p + 1)
    BY <1>1, <2>4, RestOfRest
  <2>7. r.got \o <<>> = r.got
    <3>1. r.got \in Seq(Int)
      BY DEF Readers
    <3> QED BY <3>1, ConcatEmptySeq
  <2> QED BY Zenon, <2>5, <2>6, <2>7 DEF Passed, UpTo
<1>3. CASE ~(p < Len(t))
  <2>1. Rest(t, p) = <<>>
    BY Zenon, <1>3, FirstLeft
  <2>2. q = Failed(r)
    BY Zenon, <2>1 DEF ReadChar
  <2>3. q \in Readers /\ q.ok = FALSE
    BY Zenon, <2>2, FailedIn
  <2>4. ~(p + 1 <= Len(t))
    BY <1>1, <1>3
  <2> QED BY Zenon, <2>3, <2>4 DEF Passed, UpTo
<1> QED BY <1>2, <1>3

\* A blank of the format, when one blank stands before a digit.
LEMMA BlankRead ==
  ASSUME NEW t \in Seq(Int), NEW p \in Nat, Shows(t, p, <<Blank>>),
         NEW h \in Seq(Digit), Len(h) = 2, Shows(t, p + 1, h), NEW r \in Readers, r.left = Rest(t, p)
  PROVE  Passed(SkipBlanks(r), r, t, p, 1, <<>>)
<1> DEFINE x == r.left
           n == Len(x)
           m == IF p < Len(t) THEN 1 ELSE 0
           G == {j \in 1 .. n : x[j] = Blank}
           q == SkipBlanks(r)
<1>1. Len(t) \in Nat /\ p + 1 \in Nat
  BY LenProperties
<1>2. /\ x \in Seq(Int) /\ n = (IF p < Len(t) THEN Len(t) - p ELSE 0) /\ n \in Nat
      /\ \A i \in 1 .. Len(t) - p : x[i] = t[p + i]
      /\ DOMAIN x = 1 .. n
  BY RestIs, LenProperties
<1> HIDE DEF x, n
<1>3. ASSUME p < Len(t) PROVE x[1] = Blank
  <2>1. 1 \in 1 .. Len(<<Blank>>) /\ p + 1 <= Len(t) /\ 1 \in 1 .. Len(t) - p
    BY <1>1, <1>3
  <2>2. t[p + 1] = <<Blank>>[1] /\ x[1] = t[p + 1]
    BY Zenon, <1>2, <2>1 DEF Shows
  <2> QED BY <2>2
<1>4. ASSUME p + 1 < Len(t) PROVE x[2] # Blank
  <2>1. 1 \in 1 .. Len(h) /\ (p + 1) + 1 <= Len(t) /\ 2 \in 1 .. Len(t) - p /\ (p + 1) + 1 = p + 2
    BY <1>1, <1>4
  <2>2. t[(p + 1) + 1] = h[1] /\ x[2] = t[p + 2]
    BY Zenon, <1>2, <2>1 DEF Shows
  <2>3. h[1] \in Digit
    BY <2>1, ElementOfSeq
  <2>4. Blank \notin Digit
    BY DEF Digit, Blank
  <2> QED BY Zenon, <2>1, <2>2, <2>3, <2>4
<1>5. InRow(m, n, G)
  <2>1. m \in 0 .. n /\ (m = n \/ p < Len(t)) /\ (p < Len(t) => m = 1 /\ (m = n \/ p + 1 < Len(t)))
        /\ (~(p < Len(t)) => m = 0)
    BY <1>1, <1>2
  <2>2. \A j \in 1 .. m : j \in G
    <3>1. CASE p < Len(t)
      <4>1. \A j \in 1 .. m : j = 1 /\ j \in 1 .. n
        BY <2>1, <3>1
      <4> QED BY <1>3, <3>1, <4>1
    <3>2. CASE ~(p < Len(t))
      BY <2>1, <3>2
    <3> QED BY <3>1, <3>2
  <2>3. m = n \/ m + 1 \notin G
    <3>1. CASE p < Len(t)
      <4>1. m + 1 = 2
        BY <2>1, <3>1
      <4> QED BY <1>4, <2>1, <3>1, <4>1
    <3>2. CASE ~(p < Len(t))
      BY <2>1, <3>2
    <3> QED BY <3>1, <3>2
  <2> HIDE DEF m, G
  <2> QED BY <2>1, <2>2, <2>3 DEF InRow
<1>6. {k \in 1 .. n : \A j \in 1 .. k : j \in G} = {k \in 1 .. n : \A j \in 1 .. k : x[j] = Blank}
  <2>1. \A k \in 1 .. n : \A j \in 1 .. k : j \in 1 .. n
    BY <1>2
  <2>2. \A k \in 1 .. n : (\A j \in 1 .. k : j \in G) <=> (\A j \in 1 .. k : x[j] = Blank)
    BY Zenon, <2>1
  <2> HIDE DEF G
  <2> QED BY Zenon, <2>2
<1> HIDE DEF G
<1>7. m \in Nat /\ ((p + m = p + 1) \/ (Len(t) <= p + m /\ Len(t) <= p + 1))
  BY <1>1
<1> HIDE DEF m
<1>8. q = Took(r, m, <<>>)
  <2>1. Cardinality({k \in 1 .. n : \A j \in 1 .. k : j \in G}) = m
    <3>1. n \in Nat
      BY <1>2
    <3> QED BY Zenon, <1>5, <3>1, FirstOnes
  <2>2. Cardinality({k \in DOMAIN x : \A j \in 1 .. k : x[j] = Blank}) = m
    <3>1. DOMAIN x = 1 .. n
      BY <1>2
    <3> QED BY Zenon, <1>6, <2>1, <3>1
  <2> QED BY Zenon, <2>2 DEF SkipBlanks, x
<1>9. q \in Readers /\ q.ok = r.ok /\ q.left = Rest(r.left, m) /\ q.got = r.got
  <2>1. m \in Nat
    BY <1>7
  <2> HIDE DEF q
  <2> QED BY Zenon, <1>8, <2>1, NothingRead
<1>10. Rest(Rest(t, p), m) = Rest(t, p + 1)
  BY <1>1, <1>7, RestOfRest
<1>11. r.got \o <<>> = r.got
  <2>1. r.got \in Seq(Int)
    BY DEF Readers
  <2> QED BY <2>1, ConcatEmptySeq
<1> QED BY Zenon, <1>9, <1>10, <1>11 DEF Passed, UpTo

\* The microseconds of a second.
Million == 1000000

\* The powers of ten that a fraction is short of microseconds.
LEMMA Powers ==
  /\ 10 ^ 0 = 1 /\ 10 ^ 1 = 10 /\ 10 ^ 2 = 100 /\ 10 ^ 3 = 1000
  /\ 10 ^ 4 = 10000 /\ 10 ^ 5 = 100000 /\ 10 ^ 6 = Million
<1>1. 10 ^ 0 = 1 /\ 10 ^ 1 = 10
  OBVIOUS
<1>2. 10 ^ 2 = 100 /\ 10 ^ 3 = 1000
  OBVIOUS
<1>3. 10 ^ 4 = 10000 /\ 10 ^ 5 = 100000
  BY SMT
<1>4. 10 ^ 6 = Million
  BY SMT DEF Million
<1> QED BY SMT, <1>1, <1>2, <1>3, <1>4

\* The zeros that end a fraction are as good as not written.
LEMMA MicrosRead ==
  ASSUME NEW f \in Seq(Int), Len(f) = 6, NEW y \in Seq(Int), NEW e \in 0 .. 6, Len(y) = e,
         \A i \in 1 .. e : y[i] = f[i], \A i \in e + 1 .. 6 : f[i] = 0
  PROVE  Micros(y) = Value(f)
<1>1. PICK v : Counting(v, Len(f), f) /\ Value(f) = v[Len(f)]
  BY Zenon, ValueCounts
<1>2. \A k \in 0 .. 6 : v[k] \in Int
  BY <1>1, CountingInt
<1>3. Counting(v, Len(y), y)
  <2>1. \A k \in 0 .. Len(y) - 1 : k \in 0 .. Len(f) - 1 /\ k + 1 \in 1 .. e
    OBVIOUS
  <2>2. v[0] = 0 /\ \A k \in 0 .. Len(f) - 1 : v[k + 1] = 10 * v[k] + f[k + 1]
    BY Zenon, <1>1 DEF Counting
  <2>3. \A k \in 0 .. Len(y) - 1 : v[k + 1] = 10 * v[k] + y[k + 1]
    BY Zenon, <2>1, <2>2
  <2> QED BY Zenon, <2>2, <2>3 DEF Counting
<1>4. v[e] = Value(y)
  BY <1>3, ValueIs
<1> DEFINE d == IF e > 6 THEN e - 6 ELSE 6 - e
<1>6. Micros(y) = Value(y) * (10 ^ d)
  <2>1. e <= 6
    OBVIOUS
  <2> QED BY Zenon, <2>1 DEF Micros
<1>7. d = 6 - e
  OBVIOUS
<1> HIDE DEF d
<1> DEFINE p == 10 ^ d
           x == Value(y)
<1>8. \A k \in 0 .. 5 : f[k + 1] = 0 => v[k + 1] = 10 * v[k]
  <2> TAKE k \in 0 .. 5
  <2> HAVE f[k + 1] = 0
  <2>1. k \in 0 .. Len(f) - 1 /\ k \in 0 .. 6
    OBVIOUS
  <2>2. v[k + 1] = 10 * v[k] + f[k + 1] /\ v[k] \in Int
    BY Zenon, <1>1, <1>2, <2>1 DEF Counting
  <2> QED BY <2>2
<1>9. v[e] = x /\ x \in Int
  BY <1>2, <1>4
<1> HIDE DEF p, x
<1>10. v[6] = x * p
  <2>1. e \in {0, 1, 2, 3, 4, 5, 6}
    OBVIOUS
  <2>2. CASE e = 6
    <3>1. p = 1 /\ v[6] = x
      BY SMT, <1>7, <1>9, <2>2, Powers DEF p
    <3> QED BY SMT, <1>9, <3>1
  <2>3. CASE e = 5
    <3>1. p = 10 /\ v[5] = x
      BY SMT, <1>7, <1>9, <2>3, Powers DEF p
    <3>2. v[6] = 10 * v[5]
      <4>1. 5 \in 0 .. 5 /\ 5 + 1 = 6 /\ f[6] = 0
        BY <2>3
      <4> QED BY Zenon, <1>8, <4>1
    <3> QED BY SMT, <1>9, <3>1, <3>2
  <2>4. CASE e = 4
    <3>1. p = 100 /\ v[4] = x
      BY SMT, <1>7, <1>9, <2>4, Powers DEF p
    <3>2. v[5] = 10 * v[4]
      <4>1. 4 \in 0 .. 5 /\ 4 + 1 = 5 /\ f[5] = 0
        BY <2>4
      <4> QED BY Zenon, <1>8, <4>1
    <3>3. v[6] = 10 * v[5]
      <4>1. 5 \in 0 .. 5 /\ 5 + 1 = 6 /\ f[6] = 0
        BY <2>4
      <4> QED BY Zenon, <1>8, <4>1
    <3> QED BY SMT, <1>9, <3>1, <3>2, <3>3
  <2>5. CASE e = 3
    <3>1. p = 1000 /\ v[3] = x
      BY SMT, <1>7, <1>9, <2>5, Powers DEF p
    <3>2. v[4] = 10 * v[3]
      <4>1. 3 \in 0 .. 5 /\ 3 + 1 = 4 /\ f[4] = 0
        BY <2>5
      <4> QED BY Zenon, <1>8, <4>1
    <3>3. v[5] = 10 * v[4]
      <4>1. 4 \in 0 .. 5 /\ 4 + 1 = 5 /\ f[5] = 0
        BY <2>5
      <4> QED BY Zenon, <1>8, <4>1
    <3>4. v[6] = 10 * v[5]
      <4>1. 5 \in 0 .. 5 /\ 5 + 1 = 6 /\ f[6] = 0
        BY <2>5
      <4> QED BY Zenon, <1>8, <4>1
    <3> QED BY SMT, <1>9, <3>1, <3>2, <3>3, <3>4
  <2>6. CASE e = 2
    <3>1. p = 10000 /\ v[2] = x
      BY SMT, <1>7, <1>9, <2>6, Powers DEF p
    <3>2. v[3] = 10 * v[2]
      <4>1. 2 \in 0 .. 5 /\ 2 + 1 = 3 /\ f[3] = 0
        BY <2>6
      <4> QED BY Zenon, <1>8, <4>1
    <3>3. v[4] = 10 * v[3]
      <4>1. 3 \in 0 .. 5 /\ 3 + 1 = 4 /\ f[4] = 0
        BY <2>6
      <4> QED BY Zenon, <1>8, <4>1
    <3>4. v[5] = 10 * v[4]
      <4>1. 4 \in 0 .. 5 /\ 4 + 1 = 5 /\ f[5] = 0
        BY <2>6
      <4> QED BY Zenon, <1>8, <4>1
    <3>5. v[6] = 10 * v[5]
      <4>1. 5 \in 0 .. 5 /\ 5 + 1 = 6 /\ f[6] = 0
        BY <2>6
      <4> QED BY Zenon, <1>8, <4>1
    <3> QED BY SMT, <1>9, <3>1, <3>2, <3>3, <3>4, <3>5
  <2>7. CASE e = 1
    <3>1. p = 100000 /\ v[1] = x
      BY SMT, <1>7, <1>9, <2>7, Powers DEF p
    <3>2. v[2] = 10 * v[1]
      <4>1. 1 \in 0 .. 5 /\ 1 + 1 = 2 /\ f[2] = 0
        BY <2>7
      <4> QED BY Zenon, <1>8, <4>1
    <3>3. v[3] = 10 * v[2]
      <4>1. 2 \in 0 .. 5 /\ 2 + 1 = 3 /\ f[3] = 0
        BY <2>7
      <4> QED BY Zenon, <1>8, <4>1
    <3>4. v[4] = 10 * v[3]
      <4>1. 3 \in 0 .. 5 /\ 3 + 1 = 4 /\ f[4] = 0
        BY <2>7
      <4> QED BY Zenon, <1>8, <4>1
    <3>5. v[5] = 10 * v[4]
      <4>1. 4 \in 0 .. 5 /\ 4 + 1 = 5 /\ f[5] = 0
        BY <2>7
      <4> QED BY Zenon, <1>8, <4>1
    <3>6. v[6] = 10 * v[5]
      <4>1. 5 \in 0 .. 5 /\ 5 + 1 = 6 /\ f[6] = 0
        BY <2>7
      <4> QED BY Zenon, <1>8, <4>1
    <3> QED BY SMT, <1>9, <3>1, <3>2, <3>3, <3>4, <3>5, <3>6
  <2>8. CASE e = 0
    <3>1. p = Million /\ v[0] = x
      BY SMT, <1>7, <1>9, <2>8, Powers DEF p
    <3>2. v[1] = 10 * v[0]
      <4>1. 0 \in 0 .. 5 /\ 0 + 1 = 1 /\ f[1] = 0
        BY <2>8
      <4> QED BY Zenon, <1>8, <4>1
    <3>3. v[2] = 10 * v[1]
      <4>1. 1 \in 0 .. 5 /\ 1 + 1 = 2 /\ f[2] = 0
        BY <2>8
      <4> QED BY Zenon, <1>8, <4>1
    <3>4. v[3] = 10 * v[2]
      <4>1. 2 \in 0 .. 5 /\ 2 + 1 = 3 /\ f[3] = 0
        BY <2>8
      <4> QED BY Zenon, <1>8, <4>1
    <3>5. v[4] = 10 * v[3]
      <4>1. 3 \in 0 .. 5 /\ 3 + 1 = 4 /\ f[4] = 0
        BY <2>8
      <4> QED BY Zenon, <1>8, <4>1
    <3>6. v[5] = 10 * v[4]
      <4>1. 4 \in 0 .. 5 /\ 4 + 1 = 5 /\ f[5] = 0
        BY <2>8
      <4> QED BY Zenon, <1>8, <4>1
    <3>7. v[6] = 10 * v[5]
      <4>1. 5 \in 0 .. 5 /\ 5 + 1 = 6 /\ f[6] = 0
        BY <2>8
      <4> QED BY Zenon, <1>8, <4>1
    <3> QED BY SMT, <1>9, <3>1, <3>2, <3>3, <3>4, <3>5, <3>6, <3>7 DEF Million
  <2> QED BY Zenon, <2>1, <2>2, <2>3, <2>4, <2>5, <2>6, <2>7, <2>8
<1> QED BY <1>1, <1>6, <1>10 DEF p, x

\* Seconds that end a text: two digits, and a point and the first e digits of a fraction
\* whose others are zeros, or no point.
EndsIn(t, p, s, f, e) ==
  /\ s \in Seq(Digit) /\ Len(s) = 2 /\ f \in Seq(Digit) /\ Len(f) = 6 /\ e \in 0 .. 6
  /\ Shows(t, p, s) /\ Shows(t, p + 2, <<Point>>) /\ Shows(t, p + 3, f)
  /\ Len(t) = p + 2 + (IF e = 0 THEN 0 ELSE e + 1)
  /\ \A i \in e + 1 .. 6 : f[i] = 0

\* The characters of such seconds.
LEMMA SecondsLeft ==
  ASSUME NEW t \in Seq(Int), NEW p \in Nat, NEW s, NEW f, NEW e, EndsIn(t, p, s, f, e),
         NEW x, x = Rest(t, p)
  PROVE  /\ x \in Seq(Int) /\ Len(x) = 2 + (IF e = 0 THEN 0 ELSE e + 1)
         /\ x[1] = s[1] /\ x[2] = s[2] /\ s[1] \in Digit /\ s[2] \in Digit
         /\ e # 0 => x[3] = Point
         /\ \A i \in 1 .. e : x[3 + i] = f[i] /\ f[i] \in Digit
<1> DEFINE a == Len(t)
           g == IF e = 0 THEN 0 ELSE e + 1
<1>1. a \in Nat /\ e \in 0 .. 6 /\ a = p + 2 + g
  BY LenProperties DEF EndsIn
<1>2. s \in Seq(Digit) /\ Len(s) = 2 /\ f \in Seq(Digit) /\ Len(f) = 6
  BY DEF EndsIn
<1>3. /\ x \in Seq(Int) /\ Len(x) = (IF p < a THEN a - p ELSE 0)
      /\ \A i \in 1 .. a - p : x[i] = t[p + i]
  BY RestIs
<1> HIDE DEF a
<1>4. Len(x) = 2 + g /\ a - p = 2 + g /\ g \in Nat
  BY <1>1, <1>3
<1>5. \A i \in 1 .. 2 : x[i] = s[i] /\ s[i] \in Digit
  <2> TAKE i \in 1 .. 2
  <2>1. i \in 1 .. a - p /\ i \in 1 .. Len(s) /\ p + i <= Len(t)
    BY <1>1, <1>2, <1>4 DEF a
  <2>2. t[p + i] = s[i]
    BY Zenon, <2>1 DEF EndsIn, Shows
  <2>3. s[i] \in Digit
    BY <1>2, <2>1, ElementOfSeq
  <2> QED BY Zenon, <1>3, <2>1, <2>2, <2>3
<1>6. ASSUME e # 0 PROVE x[3] = Point
  <2>1. /\ 3 \in 1 .. a - p /\ 1 \in 1 .. Len(<<Point>>) /\ (p + 2) + 1 <= Len(t)
        /\ (p + 2) + 1 = p + 3
    BY <1>1, <1>4, <1>6 DEF a
  <2>2. t[(p + 2) + 1] = <<Point>>[1]
    BY Zenon, <2>1 DEF EndsIn, Shows
  <2>3. x[3] = <<Point>>[1]
    BY Zenon, <1>3, <2>1, <2>2
  <2> QED BY <2>3
<1>7. \A i \in 1 .. e : x[3 + i] = f[i] /\ f[i] \in Digit
  <2> TAKE i \in 1 .. e
  <2>1. /\ 3 + i \in 1 .. a - p /\ i \in 1 .. Len(f) /\ (p + 3) + i <= Len(t)
        /\ (p + 3) + i = p + (3 + i)
    BY <1>1, <1>2, <1>4 DEF a
  <2>2. t[(p + 3) + i] = f[i]
    BY Zenon, <2>1 DEF EndsIn, Shows
  <2>3. f[i] \in Digit
    BY <1>2, <2>1, ElementOfSeq
  <2> QED BY Zenon, <1>3, <2>1, <2>2, <2>3
<1>8. 1 \in 1 .. 2 /\ 2 \in 1 .. 2
  OBVIOUS
<1> QED BY Zenon, <1>3, <1>4, <1>5, <1>6, <1>7, <1>8

\* A reader that is at a place in a text.
ReadsFrom(r, t, p) == r \in Readers /\ r.left = Rest(t, p)

\* From r on q has read these numbers.
HasRead(q, r, numbers) == q.ok = r.ok /\ q.got = r.got \o numbers

\* They are read to the microsecond.
LEMMA DecimalRead ==
  ASSUME NEW t \in Seq(Int), NEW p \in Nat, NEW s, NEW f, NEW e, EndsIn(t, p, s, f, e),
         Value(f) \in Nat, Value(f) < Million, NEW r, ReadsFrom(r, t, p)
  PROVE  HasRead(ReadDecimal(r, 9), r, <<Value(s), Value(f)>>)
<1> DEFINE us == Value(f)
           x == r.left
           L == Len(x)
           max == Smaller(9, L)
           G == {j \in 1 .. max : x[j] \in Digit \/ (x[j] = Point /\ \A i \in 1 .. j - 1 : x[i] # Point)}
           C == {k \in 1 .. max : \A j \in 1 .. k :
                   x[j] \in Digit \/ (x[j] = Point /\ \A i \in 1 .. j - 1 : x[i] # Point)}
           n == Cardinality(C)
           whole == Run(x, n)
           y == SubSeq(x, whole + 2, n)
           fraction == Micros(y)
           carry == fraction \div 1000000
           kept == fraction % 1000000
           seconds == Value(SubSeq(x, 1, whole)) + carry
           q == ReadDecimal(r, 9)
<1>0. us \in Nat /\ us < Million /\ Value(f) = us /\ r \in Readers /\ r.left = Rest(t, p)
  BY DEF ReadsFrom
<1> HIDE DEF carry, kept, us
<1>1. /\ x \in Seq(Int) /\ L = 2 + (IF e = 0 THEN 0 ELSE e + 1)
      /\ x[1] = s[1] /\ x[2] = s[2] /\ s[1] \in Digit /\ s[2] \in Digit
      /\ e # 0 => x[3] = Point
      /\ \A i \in 1 .. e : x[3 + i] = f[i] /\ f[i] \in Digit
  BY <1>0, SecondsLeft
<1>2. /\ s \in Seq(Digit) /\ Len(s) = 2 /\ f \in Seq(Digit) /\ Len(f) = 6 /\ e \in 0 .. 6
      /\ \A i \in e + 1 .. 6 : f[i] = 0
  BY DEF EndsIn
<1>3. Point \notin Digit
  BY DEF Point, Digit
<1> HIDE DEF x, L
<1>4. max = L /\ L \in 2 .. 9 /\ (L = 2 <=> e = 0) /\ (e # 0 => L = e + 3)
  BY <1>1, <1>2 DEF Smaller
<1>5. \A j \in 1 .. L : j \in G
  <2> HIDE DEF max
  <2> TAKE j \in 1 .. L
  <2>1. CASE j = 1
    BY <1>1, <1>4, <2>1
  <2>2. CASE j = 2
    BY <1>1, <1>4, <2>2
  <2>3. CASE j = 3
    <3>1. e # 0 /\ x[3] = Point
      BY <1>1, <1>4, <2>3
    <3>2. \A i \in 1 .. 3 - 1 : x[i] # Point
      <4>1. \A i \in 1 .. 3 - 1 : i = 1 \/ i = 2
        OBVIOUS
      <4>2. x[1] # Point /\ x[2] # Point
        BY <1>1, <1>3
      <4> QED BY <4>1, <4>2
    <3> QED BY <1>4, <2>3, <3>1, <3>2
  <2>4. CASE j > 3
    <3>1. PICK i \in 1 .. e : j = 3 + i
      <4>1. j - 3 \in 1 .. e /\ j = 3 + (j - 3)
        BY <1>2, <1>4, <2>4
      <4> QED BY <4>1
    <3>2. x[j] \in Digit
      BY <1>1, <3>1
    <3> QED BY <1>4, <3>2
  <2> QED BY <2>1, <2>2, <2>3, <2>4
<1>6. n = L
  <2> HIDE DEF max
  <2>1. C = {k \in 1 .. max : \A j \in 1 .. k : j \in G}
    <3>1. \A k \in 1 .. max : \A j \in 1 .. k : j \in 1 .. max
      BY <1>4
    <3>2. \A k \in 1 .. max : (\A j \in 1 .. k : j \in G) <=>
            \A j \in 1 .. k : x[j] \in Digit \/ (x[j] = Point /\ \A i \in 1 .. j - 1 : x[i] # Point)
      BY Zenon, <3>1
    <3> HIDE DEF G
    <3> QED BY Zenon, <3>2
  <2> HIDE DEF C, G
  <2>2. InRow(L, max, G) /\ max \in Nat
    BY <1>4, <1>5 DEF InRow
  <2>3. Cardinality({k \in 1 .. max : \A j \in 1 .. k : j \in G}) = L
    BY Zenon, <2>2, FirstOnes
  <2> QED BY Zenon, <2>1, <2>3
<1> HIDE DEF C, n, G
<1>7. whole = 2
  <2>1. 2 \in 0 .. max /\ \A j \in 1 .. 2 : x[j] \in Digit
    BY <1>1, <1>4
  <2>2. 2 = max \/ x[2 + 1] \notin Digit
    BY <1>1, <1>3, <1>4
  <2>3. max = Smaller(n, Len(x))
    BY <1>4, <1>6 DEF Smaller, L
  <2>4. n \in Nat
    BY <1>4, <1>6
  <2> HIDE DEF max
  <2>5. 2 \in 0 .. Smaller(n, Len(x)) /\ (2 = Smaller(n, Len(x)) \/ x[2 + 1] \notin Digit)
    BY Zenon, <2>1, <2>2, <2>3
  <2> QED BY <1>1, <2>1, <2>4, <2>5, RunIs
<1> HIDE DEF whole, max
<1>8. y \in Seq(Int) /\ Len(y) = e /\ \A i \in 1 .. e : y[i] = f[i]
  <2> DEFINE z == SubSeq(x, 4, L)
  <2>1. \A i \in 4 .. L : x[i] \in Int
    <3>1. \A i \in 4 .. L : i \in 1 .. Len(x)
      BY <1>4 DEF L
    <3> QED BY <1>1, <3>1, ElementOfSeq
  <2>2. 4 \in Int /\ L \in Int
    BY <1>4
  <2>3. /\ z \in Seq(Int) /\ Len(z) = (IF 4 <= L THEN L - 4 + 1 ELSE 0)
        /\ \A i \in 1 .. L - 4 + 1 : z[i] = x[4 + i - 1]
    BY <2>1, <2>2, SubSeqProperties
  <2>4. y = z
    BY <1>6, <1>7
  <2> HIDE DEF z, y
  <2>5. (IF 4 <= L THEN L - 4 + 1 ELSE 0) = e
    BY <1>2, <1>4
  <2>6. \A i \in 1 .. e : i \in 1 .. L - 4 + 1 /\ 4 + i - 1 = 3 + i
    BY <1>2, <1>4
  <2>7. \A i \in 1 .. e : z[i] = f[i]
    BY Zenon, <1>1, <2>3, <2>6
  <2> QED BY Zenon, <2>3, <2>4, <2>5, <2>7
<1> HIDE DEF y
<1>9. fraction = us
  <2>1. f \in Seq(Int)
    BY Zenon, <1>2, DigitsInt
  <2> QED BY <1>0, <1>2, <1>8, <2>1, MicrosRead
<1>10. Value(SubSeq(x, 1, whole)) = Value(s)
  <2> DEFINE z == SubSeq(x, 1, 2)
  <2>1. \A i \in 1 .. 2 : x[i] \in Int
    <3>1. \A i \in 1 .. 2 : i \in 1 .. Len(x)
      BY <1>4 DEF L
    <3> QED BY <1>1, <3>1, ElementOfSeq
  <2>2. 1 \in Int /\ 2 \in Int
    OBVIOUS
  <2>3. /\ z \in Seq(Int) /\ Len(z) = (IF 1 <= 2 THEN 2 - 1 + 1 ELSE 0)
        /\ \A i \in 1 .. 2 - 1 + 1 : z[i] = x[1 + i - 1]
    BY <2>1, <2>2, SubSeqProperties
  <2> HIDE DEF z
  <2>4. Len(z) = 2 /\ z[1] = x[1] /\ z[2] = x[2]
    BY <2>3
  <2>5. Len(z) = Len(s) /\ \A i \in 1 .. Len(z) : z[i] = s[i]
    BY <1>1, <1>2, <2>4
  <2>6. s \in Seq(Int)
    BY Zenon, <1>2, DigitsInt
  <2>7. z = s
    <3>1. z \in Seq(Int)
      BY <2>3
    <3> QED BY Zenon, <2>5, <2>6, <3>1, SeqEqual
  <2> QED BY Zenon, <1>7, <2>7 DEF z
<1>11. Value(s) \in Int /\ us \in Int
  <2>1. s \in Seq(Int)
    BY Zenon, <1>2, DigitsInt
  <2> QED BY <1>0, <2>1, ValueInt
<1>12. seconds = Value(s) /\ kept = us
  <2> HIDE DEF fraction
  <2>1. carry = 0 /\ kept = us
    BY SMT, <1>0, <1>9 DEF Million, carry, kept
  <2> QED BY SMT, <1>10, <1>11, <2>1
<1>13. q = IF n = 0 THEN Failed(r) ELSE Took(r, n, <<seconds, kept>>)
  BY SMT DEF ReadDecimal, n, C, max, L, x, whole, y, carry, kept
<1>14. q = Took(r, n, <<Value(s), us>>)
  <2> HIDE DEF q, seconds
  <2>1. n # 0
    BY <1>4, <1>6
  <2> QED BY <1>12, <1>13, <2>1
<1>15. <<Value(s), us>> \in Seq(Int) /\ n \in Nat
  BY <1>4, <1>6, <1>11
<1> DEFINE numbers == <<Value(s), us>>
<1> HIDE DEF q, numbers
<1>16. q.ok = r.ok /\ q.got = r.got \o numbers
  BY Zenon, <1>0, <1>14, <1>15, TookIn DEF numbers
<1> QED BY Zenon, <1>16 DEF HasRead, q, numbers, us

\* Nothing is left: no seconds.
LEMMA NoDecimal ==
  ASSUME NEW r \in Readers, r.left = <<>>
  PROVE  ReadDecimal(r, 9) = Failed(r)
<1> DEFINE max == Smaller(9, Len(r.left))
           C == {k \in 1 .. max : \A j \in 1 .. k :
                   r.left[j] \in Digit \/ (r.left[j] = Point /\ \A i \in 1 .. j - 1 : r.left[i] # Point)}
           n == Cardinality(C)
<1>1. max = 0
  BY DEF Smaller
<1>2. C = {}
  BY <1>1
<1>3. n = 0
  BY <1>2, FS_EmptySet
<1> HIDE DEF n
<1> QED BY SMT, <1>3 DEF ReadDecimal, n, C, max

-----------------------------------------------------------------------------
(* A format's conversions one after the other *)

\* The first characters of a text, and those after some.
LEMMA CutIn ==
  ASSUME NEW x \in Seq(Int), NEW a \in Nat \ {0}, NEW n \in 0 .. Len(x)
  PROVE  SubSeq(x, a, n) \in Seq(Int) /\ Len(SubSeq(x, a, n)) = IF a <= n THEN n - a + 1 ELSE 0
<1>1. \A i \in a .. n : x[i] \in Int
  <2>1. \A i \in a .. n : i \in 1 .. Len(x)
    BY LenProperties
  <2> QED BY <2>1, ElementOfSeq
<1>2. a \in Int /\ n \in Int
  BY LenProperties
<1> QED BY <1>1, <1>2, SubSeqProperties

\* A number read from at most so many digits leaves a reader.
LEMMA UnsignedIn ==
  ASSUME NEW r \in Readers, NEW m \in Nat
  PROVE  ReadUnsigned(r, m) \in Readers
<1> DEFINE x == r.left
           n == Run(x, m)
           number == Value(SubSeq(x, 1, n))
<1>1. x \in Seq(Int)
  BY DEF Readers
<1> HIDE DEF x
<1>2. n \in 0 .. Len(x) /\ n \in Nat
  <2>1. n \in 0 .. Smaller(m, Len(x))
    BY <1>1, RunIn
  <2>2. Len(x) \in Nat /\ m \in Nat
    BY <1>1, LenProperties
  <2> HIDE DEF n
  <2> QED BY <2>1, <2>2 DEF Smaller
<1> HIDE DEF n
<1>3. <<number>> \in Seq(Int)
  <2>1. SubSeq(x, 1, n) \in Seq(Int)
    BY <1>1, <1>2, CutIn
  <2>2. number \in Int
    BY Zenon, <2>1, ValueInt
  <2> HIDE DEF number
  <2> QED BY <2>2
<1>4. ReadUnsigned(r, m) = IF n = 0 THEN Failed(r) ELSE Took(r, n, <<number>>)
  BY Zenon DEF ReadUnsigned, n, x
<1>5. Failed(r) \in Readers
  BY Zenon, FailedIn
<1>6. Took(r, n, <<number>>) \in Readers
  <2> HIDE DEF number
  <2> QED BY Zenon, <1>2, <1>3, TookIn
<1> QED BY Zenon, <1>4, <1>5, <1>6

\* So does a signed number.
LEMMA SignedIn ==
  ASSUME NEW r \in Readers, NEW m \in Nat
  PROVE  ReadSigned(r, m) \in Readers
<1> DEFINE sign == r.left # <<>> /\ Head(r.left) \in {Dash, Plus}
           rest == IF sign THEN Tail(r.left) ELSE r.left
           n == Run(rest, m)
           x == Value(SubSeq(rest, 1, n))
           u == [r EXCEPT !.left = rest]
           number == IF sign /\ Head(r.left) = Dash THEN -x ELSE x
<1>1. rest \in Seq(Int)
  <2>1. r.left \in Seq(Int)
    BY DEF Readers
  <2>2. r.left # <<>> => Tail(r.left) \in Seq(Int)
    BY <2>1, EmptySeq
  <2> QED BY <2>1, <2>2
<1> HIDE DEF rest
<1>2. n \in 0 .. Len(rest) /\ n \in Nat
  <2>1. n \in 0 .. Smaller(m, Len(rest))
    BY <1>1, RunIn
  <2>2. Len(rest) \in Nat /\ m \in Nat
    BY <1>1, LenProperties
  <2> HIDE DEF n
  <2> QED BY <2>1, <2>2 DEF Smaller
<1> HIDE DEF n
<1>3. <<number>> \in Seq(Int)
  <2>1. SubSeq(rest, 1, n) \in Seq(Int)
    BY <1>1, <1>2, CutIn
  <2>2. x \in Int
    BY Zenon, <2>1, ValueInt
  <2> HIDE DEF x, sign
  <2>3. number \in Int
    BY <2>2
  <2> HIDE DEF number
  <2> QED BY <2>3
<1>4. u \in Readers
  BY <1>1 DEF Readers
<1> HIDE DEF x, u, sign
<1>5. ReadSigned(r, m) = IF n = 0 THEN Failed(r) ELSE Took(u, n, <<number>>)
  BY Zenon DEF ReadSigned, n, x, u, sign, rest
<1>6. Failed(r) \in Readers
  BY Zenon, FailedIn
<1>7. Took(u, n, <<number>>) \in Readers
  <2> HIDE DEF number
  <2> QED BY Zenon, <1>2, <1>3, <1>4, TookIn
<1> QED BY Zenon, <1>5, <1>6, <1>7

\* A character leaves a reader,
LEMMA CharIn ==
  ASSUME NEW r \in Readers, NEW c
  PROVE  ReadChar(r, c) \in Readers
<1>1. 1 \in Nat
  OBVIOUS
<1>2. Took(r, 1, <<>>) \in Readers /\ Failed(r) \in Readers
  BY Zenon, <1>1, NothingRead, FailedIn
<1> QED BY Zenon, <1>2 DEF ReadChar

\* and so do blanks.
LEMMA BlanksIn ==
  ASSUME NEW r \in Readers
  PROVE  SkipBlanks(r) \in Readers
<1> DEFINE x == r.left
           C == {k \in DOMAIN x : \A j \in 1 .. k : x[j] = Blank}
           n == Cardinality(C)
<1>1. DOMAIN x = 1 .. Len(x) /\ Len(x) \in Nat
  BY LenProperties DEF Readers
<1> HIDE DEF x
<1>2. C \in SUBSET (1 .. Len(x))
  BY <1>1
<1> HIDE DEF C
<1>3. n \in Nat
  <2>1. n \in 0 .. Len(x)
    BY <1>1, <1>2, FirstOnesIn
  <2> HIDE DEF n
  <2> QED BY <1>1, <2>1
<1>4. Took(r, n, <<>>) \in Readers
  <2> HIDE DEF n
  <2> QED BY Zenon, <1>3, NothingRead
<1> QED BY Zenon, <1>4 DEF SkipBlanks, n, C, x

\* Up to eight digits of a fraction make an integer of microseconds.
LEMMA MicrosInt ==
  ASSUME NEW y \in Seq(Int), Len(y) <= 8
  PROVE  Micros(y) \in Int
<1> DEFINE n == Len(y)
           e == IF n > 6 THEN n - 6 ELSE 6 - n
           p == 10 ^ e
           f == Value(y)
           a == f \div p
           b == f % p
<1>1. n \in 0 .. 8
  <2>1. n \in Nat /\ n <= 8
    BY LenProperties
  <2> HIDE DEF n
  <2> QED BY <2>1
<1> HIDE DEF n
<1>6. e \in {0, 1, 2, 3, 4, 5, 6}
  BY <1>1
<1>2. f \in Int
  BY Zenon, ValueInt
<1> HIDE DEF e, f
<1>3. p \in Int /\ p > 0
  <2>1. p \in {10 ^ 0, 10 ^ 1, 10 ^ 2, 10 ^ 3, 10 ^ 4, 10 ^ 5, 10 ^ 6}
    BY Zenon, <1>6
  <2> HIDE DEF p
  <2>2. p \in {1, 10, 100, 1000, 10000, 100000, Million}
    BY SMT, <2>1, Powers
  <2> QED BY SMT, <2>2 DEF Million
<1> HIDE DEF p
<1>4. a \in Int /\ a + 1 \in Int /\ f * p \in Int
  BY <1>2, <1>3
<1> HIDE DEF a, b
<1>5. Micros(y) = IF n <= 6 THEN f * p ELSE IF 2 * b > p \/ (2 * b = p /\ a % 2 = 1) THEN a + 1 ELSE a
  BY Zenon DEF Micros, n, e, f, p, a, b
<1> QED BY Zenon, <1>4, <1>5

\* Seconds read from at most nine characters leave a reader.
LEMMA DecimalIn ==
  ASSUME NEW r \in Readers
  PROVE  ReadDecimal(r, 9) \in Readers
<1> DEFINE x == r.left
           max == Smaller(9, Len(x))
           C == {k \in 1 .. max : \A j \in 1 .. k :
                   x[j] \in Digit \/ (x[j] = Point /\ \A i \in 1 .. j - 1 : x[i] # Point)}
           n == Cardinality(C)
           whole == Run(x, n)
           y == SubSeq(x, whole + 2, n)
           z == SubSeq(x, 1, whole)
           fraction == Micros(y)
           carry == fraction \div 1000000
           kept == fraction % 1000000
           seconds == Value(z) + carry
           q == ReadDecimal(r, 9)
<1> HIDE DEF carry, kept
<1>1. x \in Seq(Int)
  BY DEF Readers
<1>2. q = IF n = 0 THEN Failed(r) ELSE Took(r, n, <<seconds, kept>>)
  BY SMT DEF ReadDecimal, carry, kept
<1> HIDE DEF x
<1>3. Len(x) \in Nat
  BY <1>1, LenProperties
<1>4. max \in Nat /\ max <= 9 /\ max <= Len(x)
  BY <1>3 DEF Smaller
<1> HIDE DEF max
<1>5. C \in SUBSET (1 .. max)
  OBVIOUS
<1> HIDE DEF C
<1>6. n \in 0 .. max
  BY <1>4, <1>5, FirstOnesIn
<1> HIDE DEF n
<1>7. whole \in 0 .. n
  <2>1. n \in Nat
    BY <1>4, <1>6
  <2>2. whole \in 0 .. Smaller(n, Len(x))
    BY <1>1, <2>1, RunIn
  <2> HIDE DEF whole
  <2> QED BY <1>3, <2>1, <2>2 DEF Smaller
<1> HIDE DEF whole
<1>8. z \in Seq(Int)
  <2>1. whole \in 0 .. Len(x) /\ 1 \in Nat \ {0}
    BY <1>3, <1>4, <1>6, <1>7
  <2> QED BY <1>1, <2>1, CutIn
<1>9. y \in Seq(Int) /\ Len(y) <= 8
  <2>1. n \in 0 .. Len(x) /\ whole + 2 \in Nat \ {0}
    BY <1>3, <1>4, <1>6, <1>7
  <2>2. y \in Seq(Int) /\ Len(y) = IF whole + 2 <= n THEN n - (whole + 2) + 1 ELSE 0
    BY <1>1, <2>1, CutIn
  <2> HIDE DEF y
  <2> QED BY <1>4, <1>6, <1>7, <2>2
<1> HIDE DEF y, z
<1>10. fraction \in Int /\ Value(z) \in Int
  BY Zenon, <1>8, <1>9, MicrosInt, ValueInt
<1> HIDE DEF fraction
<1>11. seconds \in Int /\ kept \in Int
  BY SMT, <1>10 DEF carry, kept
<1> HIDE DEF seconds
<1>12. <<seconds, kept>> \in Seq(Int) /\ n \in Nat
  BY <1>4, <1>6, <1>11
<1> DEFINE numbers == <<seconds, kept>>
<1> HIDE DEF q, numbers
<1>13. Failed(r) \in Readers /\ Took(r, n, numbers) \in Readers
  BY Zenon, <1>12, FailedIn, TookIn DEF numbers
<1>14. q \in Readers
  BY Zenon, <1>2, <1>13 DEF numbers
<1> QED BY Zenon, <1>14 DEF q

\* What each conversion of a format reads.
LEMMA Conversions ==
  ASSUME NEW r, NEW n
  PROVE  /\ Read(r, Conversion("signed", n)) = ReadSigned(r, n)
         /\ Read(r, Conversion("unsigned", n)) = ReadUnsigned(r, n)
         /\ Read(r, Conversion("decimal", n)) = ReadDecimal(r, n)
         /\ Read(r, Conversion("char", n)) = ReadChar(r, n)
         /\ Read(r, Conversion("blanks", n)) = SkipBlanks(r)
<1>1. Read(r, Conversion("signed", n)) = ReadSigned(r, n)
  BY SMT DEF Read, Conversion
<1>2. Read(r, Conversion("unsigned", n)) = ReadUnsigned(r, n)
  BY SMT DEF Read, Conversion
<1>3. Read(r, Conversion("decimal", n)) = ReadDecimal(r, n)
  BY SMT DEF Read, Conversion
<1>4. Read(r, Conversion("char", n)) = ReadChar(r, n)
  BY SMT DEF Read, Conversion
<1>5. Read(r, Conversion("blanks", n)) = SkipBlanks(r)
  BY SMT DEF Read, Conversion
<1> QED BY Zenon, <1>1, <1>2, <1>3, <1>4, <1>5

\* The conversions of the formats of dates and times.
Formats == {Conversion("signed", 4), Conversion("unsigned", 2), Conversion("char", Dash),
            Conversion("char", Colon), Conversion("blanks", 0), Conversion("decimal", 9)}

\* Each leads from reader to reader.
LEMMA ReadIn ==
  ASSUME NEW r \in Readers, NEW c \in Formats
  PROVE  Read(r, c) \in Readers
<1>1. 4 \in Nat /\ 2 \in Nat
  OBVIOUS
<1>2. /\ ReadSigned(r, 4) \in Readers /\ ReadUnsigned(r, 2) \in Readers
      /\ ReadChar(r, Dash) \in Readers /\ ReadChar(r, Colon) \in Readers
      /\ SkipBlanks(r) \in Readers /\ ReadDecimal(r, 9) \in Readers
  BY Zenon, <1>1, SignedIn, UnsignedIn, CharIn, BlanksIn, DecimalIn
<1> QED BY Zenon, <1>2, Conversions DEF Formats

\* Reading a format goes from reader to reader, a conversion each time.
Reading(w, r, format) ==
  /\ w[0] = r
  /\ \A k \in 0 .. Len(format) - 1 : w[k + 1] = Read(w[k], format[k + 1])

\* What a format reads is what its last conversion leaves.
LEMMA ReadingSteps ==
  ASSUME NEW r \in Readers, NEW format \in Seq(Formats)
  PROVE  \E w : Reading(w, r, format) /\ FoldLeft(Read, r, format) = w[Len(format)]
<1> DEFINE d == format
           n == Len(d)
           D == SUBSET (1 .. n)
           h == CHOOSE f : f = [s \in D |-> IF s = {} THEN r ELSE Read(f[s \ {Max(s)}], d[Max(s)])]
<1>1. n \in Nat /\ DOMAIN d = 1 .. n /\ \A i \in 1 .. n : d[i] \in Formats
  BY LenProperties, ElementOfSeq
<1>2. FoldLeft(Read, r, d) = h[1 .. n]
  BY Zenon, <1>1 DEF FoldLeft, MapThenFoldSet
<1>3. h = [s \in D |-> IF s = {} THEN r ELSE Read(h[s \ {Max(s)}], d[Max(s)])]
  <2> DEFINE op == [x \in Readers |-> [c \in Formats |-> Read(x, c)]]
  <2>1. op \in [Readers -> [Formats -> Readers]]
    <3>1. \A x \in Readers, c \in Formats : Read(x, c) \in Readers
      BY Zenon, ReadIn
    <3> QED BY Zenon, <3>1
  <2>0. PICK g : Folds(g, Readers, d, r, op)
    <3> HIDE DEF op
    <3> QED BY Zenon, <2>1, FoldExists
  <2>2. /\ g \in [D -> Readers]
        /\ \A s \in D : g[s] = IF s = {} THEN r ELSE op[g[s \ {Max(s)}]][d[Max(s)]]
    <3> HIDE DEF op
    <3> QED BY Zenon, <2>0 DEF Folds
  <2>3. ASSUME NEW s \in D
        PROVE  g[s] = IF s = {} THEN r ELSE Read(g[s \ {Max(s)}], d[Max(s)])
    <3>1. CASE s = {}
      <4> HIDE DEF op
      <4> QED BY Zenon, <2>2, <3>1
    <3>2. CASE s # {}
      <4>1. s \ {Max(s)} \in D /\ Max(s) \in 1 .. n
        <5> HIDE DEF d
        <5>1. s \in SUBSET (1 .. n)
          OBVIOUS
        <5> QED BY <1>1, <3>2, <5>1, LargestOf
      <4> HIDE DEF D
      <4>2. g[s \ {Max(s)}] \in Readers /\ d[Max(s)] \in Formats
        <5>1. \A z \in D : g[z] \in Readers
          BY Zenon, <2>2
        <5> QED BY Zenon, <1>1, <4>1, <5>1
      <4>3. \A x \in Readers, c \in Formats : op[x][c] = Read(x, c)
        BY Zenon
      <4> HIDE DEF op
      <4>4. g[s] = op[g[s \ {Max(s)}]][d[Max(s)]]
        BY Zenon, <2>2, <3>2
      <4> QED BY Zenon, <3>2, <4>2, <4>3, <4>4
    <3> QED BY Zenon, <3>1, <3>2
  <2>4. g = [s \in D |-> IF s = {} THEN r ELSE Read(g[s \ {Max(s)}], d[Max(s)])]
    <3> HIDE DEF D
    <3> QED BY Zenon, <2>2, <2>3
  <2> HIDE DEF D
  <2> QED BY Zenon, <2>4
<1> DEFINE w == [k \in 0 .. n |-> h[1 .. k]]
<1> HIDE DEF h
<1>4. h[1 .. 0] = r
  <2>1. 1 .. 0 = {} /\ 1 .. 0 \in D
    OBVIOUS
  <2> HIDE DEF D
  <2> QED BY Zenon, <1>3, <2>1
<1>5. ASSUME NEW k \in 0 .. n - 1 PROVE h[1 .. k + 1] = Read(h[1 .. k], d[k + 1])
  <2>1. k \in Nat /\ k < n
    BY <1>1
  <2>2. 1 .. k + 1 \in D
    BY <1>1, <2>1, FirstIndices
  <2>3. Max(1 .. k + 1) = k + 1 /\ (1 .. k + 1) \ {k + 1} = 1 .. k /\ 1 .. k + 1 # {}
    BY <2>1, LastOf
  <2> DEFINE s == 1 .. k + 1
  <2>4. h[s] = IF s = {} THEN r ELSE Read(h[s \ {Max(s)}], d[Max(s)])
    <3> HIDE DEF D, s
    <3>1. s \in D
      BY <2>2 DEF s
    <3> QED BY Zenon, <1>3, <3>1
  <2>5. s \ {Max(s)} = 1 .. k /\ Max(s) = k + 1 /\ s # {}
    BY Zenon, <2>3
  <2> HIDE DEF s
  <2>6. h[s] = Read(h[1 .. k], d[k + 1])
    BY Zenon, <2>4, <2>5
  <2> QED BY Zenon, <2>6 DEF s
<1>6. w[0] = r
  BY <1>1, <1>4
<1>7. ASSUME NEW k \in 0 .. n - 1 PROVE w[k + 1] = Read(w[k], d[k + 1])
  <2>1. k + 1 \in 0 .. n /\ k \in 0 .. n
    BY <1>1
  <2>2. w[k + 1] = h[1 .. k + 1] /\ w[k] = h[1 .. k]
    BY Zenon, <2>1
  <2> HIDE DEF w
  <2> QED BY Zenon, <1>5, <2>2
<1>8. w[n] = h[1 .. n]
  BY <1>1
<1> HIDE DEF w
<1> QED BY Zenon, <1>2, <1>6, <1>7, <1>8 DEF Reading

-----------------------------------------------------------------------------
(* From place to place in a text *)

\* A reader that failed stays so.
LEMMA StaysFailed ==
  ASSUME NEW r \in Readers, NEW c \in Formats, Read(r, c).ok
  PROVE  r.ok
<1> SUFFICES ASSUME ~r.ok PROVE ~Read(r, c).ok
  BY DEF Readers
<1>1. Failed(r).ok = FALSE
  BY Zenon, FailedIn
<1>2. \A n, numbers : Took(r, n, numbers).ok = r.ok
  BY DEF Took
<1>3. \A n, numbers, left : Took([r EXCEPT !.left = left], n, numbers).ok = r.ok
  <2>1. \A left : [r EXCEPT !.left = left].ok = r.ok
    BY DEF Readers
  <2> QED BY <2>1 DEF Took
<1>4. ~ReadUnsigned(r, 2).ok
  <2> DEFINE n == Run(r.left, 2)
             numbers == <<Value(SubSeq(r.left, 1, n))>>
  <2>1. ReadUnsigned(r, 2) = IF n = 0 THEN Failed(r) ELSE Took(r, n, numbers)
    BY Zenon DEF ReadUnsigned
  <2> HIDE DEF n, numbers
  <2> QED BY Zenon, <1>1, <1>2, <2>1
<1>5. ~ReadSigned(r, 4).ok
  <2> DEFINE sign == r.left # <<>> /\ Head(r.left) \in {Dash, Plus}
             rest == IF sign THEN Tail(r.left) ELSE r.left
             n == Run(rest, 4)
             x == Value(SubSeq(rest, 1, n))
             numbers == <<IF sign /\ Head(r.left) = Dash THEN -x ELSE x>>
  <2>1. ReadSigned(r, 4) = IF n = 0 THEN Failed(r)
                           ELSE Took([r EXCEPT !.left = rest], n, numbers)
    BY Zenon DEF ReadSigned
  <2> HIDE DEF rest, n, numbers
  <2> QED BY Zenon, <1>1, <1>3, <2>1
<1>6. \A x : ~ReadChar(r, x).ok
  BY Zenon, <1>1, <1>2 DEF ReadChar
<1>7. ~SkipBlanks(r).ok
  BY Zenon, <1>2 DEF SkipBlanks
<1>8. ~ReadDecimal(r, 9).ok
  <2> DEFINE max == Smaller(9, Len(r.left))
             n == Cardinality({k \in 1 .. max : \A j \in 1 .. k :
                    \/ r.left[j] \in Digit
                    \/ r.left[j] = Point /\ \A i \in 1 .. j - 1 : r.left[i] # Point})
             whole == Run(r.left, n)
             fraction == Micros(SubSeq(r.left, whole + 2, n))
             seconds == Value(SubSeq(r.left, 1, whole)) + (fraction \div 1000000)
             numbers == <<seconds, fraction % 1000000>>
  <2> HIDE DEF seconds, numbers
  <2>1. ReadDecimal(r, 9) = IF n = 0 THEN Failed(r) ELSE Took(r, n, numbers)
    BY SMT DEF ReadDecimal, seconds, numbers
  <2> HIDE DEF n
  <2> QED BY Zenon, <1>1, <1>2, <2>1
<1> QED BY ZenonT(60), <1>4, <1>5, <1>6, <1>7, <1>8, Conversions DEF Formats

\* A reader that got so far with these numbers; or to the end of the text, and then it may
\* have failed.
Arrived(r, t, p, got) ==
  /\ r \in Readers
  /\ r.ok => r.left = Rest(t, p)
  /\ p <= Len(t) => r.ok /\ r.got = got

\* A conversion leads from one place to the next.
LEMMA Onward ==
  ASSUME NEW t \in Seq(Int), NEW p \in Nat, NEW n \in Nat, NEW got, NEW numbers, NEW r,
         Arrived(r, t, p, got), NEW c \in Formats,
         r.left = Rest(t, p) => Passed(Read(r, c), r, t, p, n, numbers)
  PROVE  Arrived(Read(r, c), t, p + n, got \o numbers)
<1> DEFINE q == Read(r, c)
<1>1. r \in Readers
  BY DEF Arrived
<1>2. q \in Readers
  BY Zenon, <1>1, ReadIn
<1>3. q.ok => r.ok
  BY Zenon, <1>1, StaysFailed
<1>4. Len(t) \in Nat /\ (p + n <= Len(t) => p <= Len(t))
  BY LenProperties
<1> HIDE DEF q
<1>5. ASSUME q.ok PROVE q.left = Rest(t, p + n)
  BY Zenon, <1>3, <1>5 DEF Arrived, Passed, UpTo, q
<1>6. ASSUME p + n <= Len(t) PROVE q.ok /\ q.got = got \o numbers
  <2>1. r.ok /\ r.got = got /\ r.left = Rest(t, p)
    BY Zenon, <1>4, <1>6 DEF Arrived
  <2>2. q.ok = r.ok /\ q.got = r.got \o numbers
    BY Zenon, <1>6, <2>1 DEF Passed, q
  <2> QED BY <2>1, <2>2
<1> QED BY Zenon, <1>2, <1>5, <1>6 DEF Arrived, q

\* A number of two digits where it stands.
LEMMA OverNumber ==
  ASSUME NEW t \in Seq(Int), NEW p \in Nat, NEW got, NEW r, Arrived(r, t, p, got),
         NEW s \in Seq(Digit), Len(s) = 2, Shows(t, p, s)
  PROVE  Arrived(Read(r, Conversion("unsigned", 2)), t, p + 2, got \o <<Value(s)>>)
<1>1. r \in Readers
  BY DEF Arrived
<1>2. 2 \in Nat \ {0} /\ 2 \in Nat
  OBVIOUS
<1>3. ASSUME r.left = Rest(t, p) PROVE Passed(ReadUnsigned(r, 2), r, t, p, 2, <<Value(s)>>)
  BY <1>1, <1>2, <1>3, NumberRead
<1>4. r.left = Rest(t, p)
        => Passed(Read(r, Conversion("unsigned", 2)), r, t, p, 2, <<Value(s)>>)
  BY Zenon, <1>3, Conversions
<1>5. Conversion("unsigned", 2) \in Formats
  BY Zenon DEF Formats
<1> QED BY Zenon, <1>2, <1>4, <1>5, Onward

\* A year's four digits.
LEMMA OverYear ==
  ASSUME NEW t \in Seq(Int), NEW p \in Nat, NEW got, NEW r, Arrived(r, t, p, got),
         NEW s \in Seq(Digit), Len(s) = 4, Shows(t, p, s)
  PROVE  Arrived(Read(r, Conversion("signed", 4)), t, p + 4, got \o <<Value(s)>>)
<1>1. r \in Readers
  BY DEF Arrived
<1>2. 4 \in Nat \ {0} /\ 4 \in Nat
  OBVIOUS
<1>3. ASSUME r.left = Rest(t, p) PROVE Passed(ReadSigned(r, 4), r, t, p, 4, <<Value(s)>>)
  BY <1>1, <1>2, <1>3, SignedRead
<1>4. r.left = Rest(t, p)
        => Passed(Read(r, Conversion("signed", 4)), r, t, p, 4, <<Value(s)>>)
  BY Zenon, <1>3, Conversions
<1>5. Conversion("signed", 4) \in Formats
  BY Zenon DEF Formats
<1> QED BY Zenon, <1>2, <1>4, <1>5, Onward

\* The character between two numbers.
LEMMA OverSign ==
  ASSUME NEW t \in Seq(Int), NEW p \in Nat, NEW got \in Seq(Int), NEW r, Arrived(r, t, p, got),
         NEW c \in {Dash, Colon}, Shows(t, p, <<c>>)
  PROVE  Arrived(Read(r, Conversion("char", c)), t, p + 1, got)
<1>1. r \in Readers
  BY DEF Arrived
<1>2. 1 \in Nat
  OBVIOUS
<1>3. ASSUME r.left = Rest(t, p) PROVE Passed(ReadChar(r, c), r, t, p, 1, <<>>)
  BY Zenon, <1>1, <1>3, CharRead
<1>4. r.left = Rest(t, p) => Passed(Read(r, Conversion("char", c)), r, t, p, 1, <<>>)
  BY Zenon, <1>3, Conversions
<1>5. Conversion("char", c) \in Formats
  BY Zenon DEF Formats
<1>6. Arrived(Read(r, Conversion("char", c)), t, p + 1, got \o <<>>)
  BY Zenon, <1>2, <1>4, <1>5, Onward
<1>7. got \o <<>> = got
  BY ConcatEmptySeq
<1> QED BY Zenon, <1>6, <1>7

\* The blank between the date and the time of day.
LEMMA OverBlank ==
  ASSUME NEW t \in Seq(Int), NEW p \in Nat, NEW got \in Seq(Int), NEW r, Arrived(r, t, p, got),
         Shows(t, p, <<Blank>>), NEW h \in Seq(Digit), Len(h) = 2, Shows(t, p + 1, h)
  PROVE  Arrived(Read(r, Conversion("blanks", 0)), t, p + 1, got)
<1>1. r \in Readers
  BY DEF Arrived
<1>2. 1 \in Nat
  OBVIOUS
<1>3. ASSUME r.left = Rest(t, p) PROVE Passed(SkipBlanks(r), r, t, p, 1, <<>>)
  BY <1>1, <1>3, BlankRead
<1>4. r.left = Rest(t, p) => Passed(Read(r, Conversion("blanks", 0)), r, t, p, 1, <<>>)
  BY Zenon, <1>3, Conversions
<1>5. Conversion("blanks", 0) \in Formats
  BY Zenon DEF Formats
<1>6. Arrived(Read(r, Conversion("blanks", 0)), t, p + 1, got \o <<>>)
  BY Zenon, <1>2, <1>4, <1>5, Onward
<1>7. got \o <<>> = got
  BY ConcatEmptySeq
<1> QED BY Zenon, <1>6, <1>7

\* The conversions of the two formats.
DateTimeFormat == FormatF \o <<Conversion("blanks", 0)>> \o FormatT

HttpFormat == <<Conversion("unsigned", 2), Conversion("char", Dash),
                Conversion("unsigned", 2), Conversion("char", Dash),
                Conversion("signed", 4), Conversion("blanks", 0)>> \o FormatT

EndsWithTime(w) ==
  /\ w[6] = Conversion("blanks", 0) /\ w[7] = Conversion("unsigned", 2)
  /\ w[8] = Conversion("char", Colon) /\ w[9] = Conversion("unsigned", 2)
  /\ w[10] = Conversion("char", Colon) /\ w[11] = Conversion("decimal", 9)

\* A sequence of six conversions and five more.
LEMMA SixAndFive ==
  ASSUME NEW S, NEW x \in Seq(S), NEW y \in Seq(S), Len(x) = 6, Len(y) = 5
  PROVE  /\ x \o y \in Seq(S) /\ Len(x \o y) = 11
         /\ \A i \in 1 .. 6 : (x \o y)[i] = x[i]
         /\ \A i \in 1 .. 5 : (x \o y)[6 + i] = y[i]
<1> DEFINE z == x \o y
<1>1. /\ z \in Seq(S) /\ Len(z) = Len(x) + Len(y)
      /\ \A i \in 1 .. Len(x) + Len(y) : z[i] = IF i <= Len(x) THEN x[i] ELSE y[i - Len(x)]
  BY ConcatProperties
<1> HIDE DEF z
<1>2. Len(z) = 11
  BY <1>1
<1>3. \A i \in 1 .. 6 : z[i] = x[i]
  BY <1>1
<1>4. \A i \in 1 .. 5 : z[6 + i] = y[i]
  <2> TAKE i \in 1 .. 5
  <2>1. 6 + i \in 1 .. Len(x) + Len(y) /\ ~(6 + i <= Len(x)) /\ (6 + i) - Len(x) = i
    OBVIOUS
  <2> QED BY Zenon, <1>1, <2>1
<1> QED BY Zenon, <1>1, <1>2, <1>3, <1>4 DEF z

\* The two formats, conversion by conversion.
LEMMA FormatsAre ==
  /\ DateTimeFormat \in Seq(Formats) /\ Len(DateTimeFormat) = 11
  /\ DateTimeFormat[1] = Conversion("signed", 4) /\ DateTimeFormat[2] = Conversion("char", Dash)
  /\ DateTimeFormat[3] = Conversion("unsigned", 2) /\ DateTimeFormat[4] = Conversion("char", Dash)
  /\ DateTimeFormat[5] = Conversion("unsigned", 2) /\ EndsWithTime(DateTimeFormat)
  /\ HttpFormat \in Seq(Formats) /\ Len(HttpFormat) = 11
  /\ HttpFormat[1] = Conversion("unsigned", 2) /\ HttpFormat[2] = Conversion("char", Dash)
  /\ HttpFormat[3] = Conversion("unsigned", 2) /\ HttpFormat[4] = Conversion("char", Dash)
  /\ HttpFormat[5] = Conversion("signed", 4) /\ EndsWithTime(HttpFormat)
<1> DEFINE a == Conversion("signed", 4)
           b == Conversion("unsigned", 2)
           c == Conversion("char", Dash)
           d == Conversion("char", Colon)
           e == Conversion("blanks", 0)
           f == Conversion("decimal", 9)
           x == <<a, c, b, c, b>> \o <<e>>
           z == <<b, c, b, c, a, e>>
           y == <<b, d, b, d, f>>
<1>1. Formats = {a, b, c, d, e, f}
  BY Zenon DEF Formats
<1>2. DateTimeFormat = x \o y
  BY Zenon DEF DateTimeFormat, FormatF, FormatT
<1>3. HttpFormat = z \o y
  BY Zenon DEF HttpFormat, FormatT
<1> HIDE DEF a, b, c, d, e, f
<1>4. /\ x \in Seq(Formats) /\ Len(x) = 6 /\ x[1] = a /\ x[2] = c /\ x[3] = b
      /\ x[4] = c /\ x[5] = b /\ x[6] = e
  <2> DEFINE u == <<a, c, b, c, b>>
             v == <<e>>
  <2>1. /\ u \in Seq(Formats) /\ Len(u) = 5 /\ u[1] = a /\ u[2] = c /\ u[3] = b
        /\ u[4] = c /\ u[5] = b /\ v \in Seq(Formats) /\ Len(v) = 1 /\ v[1] = e
    BY <1>1
  <2> HIDE DEF u, v
  <2>2. /\ u \o v \in Seq(Formats) /\ Len(u \o v) = Len(u) + Len(v)
        /\ \A i \in 1 .. Len(u) + Len(v) : (u \o v)[i] = IF i <= Len(u) THEN u[i] ELSE v[i - Len(u)]
    BY <2>1, ConcatProperties
  <2>3. x = u \o v
    BY DEF u, v
  <2> HIDE DEF x
  <2> QED BY <2>1, <2>2, <2>3
<1>5. /\ z \in Seq(Formats) /\ Len(z) = 6 /\ z[1] = b /\ z[2] = c /\ z[3] = b
      /\ z[4] = c /\ z[5] = a /\ z[6] = e
  BY <1>1
<1>6. /\ y \in Seq(Formats) /\ Len(y) = 5 /\ y[1] = b /\ y[2] = d /\ y[3] = b
      /\ y[4] = d /\ y[5] = f
  BY <1>1
<1> HIDE DEF x, y, z
<1>7. /\ DateTimeFormat \in Seq(Formats) /\ Len(DateTimeFormat) = 11
      /\ \A i \in 1 .. 6 : DateTimeFormat[i] = x[i]
      /\ \A i \in 1 .. 5 : DateTimeFormat[6 + i] = y[i]
  BY SMTT(40), <1>2, <1>4, <1>6, SixAndFive
<1>8. /\ HttpFormat \in Seq(Formats) /\ Len(HttpFormat) = 11
      /\ \A i \in 1 .. 6 : HttpFormat[i] = z[i]
      /\ \A i \in 1 .. 5 : HttpFormat[6 + i] = y[i]
  BY SMTT(40), <1>3, <1>5, <1>6, SixAndFive
<1>9. EndsWithTime(DateTimeFormat)
  BY <1>4, <1>6, <1>7 DEF EndsWithTime, a, b, c, d, e, f
<1>10. EndsWithTime(HttpFormat)
  BY <1>5, <1>6, <1>8 DEF EndsWithTime, a, b, c, d, e, f
<1> QED BY <1>4, <1>5, <1>7, <1>8, <1>9, <1>10 DEF a, b, c, d, e, f

\* One number more.
LEMMA OneMore ==
  ASSUME NEW x \in Seq(Int), NEW a \in Int
  PROVE  /\ x \o <<a>> \in Seq(Int) /\ Len(x \o <<a>>) = Len(x) + 1
         /\ \A k \in 1 .. Len(x) : (x \o <<a>>)[k] = x[k]
         /\ (x \o <<a>>)[Len(x) + 1] = a
<1> DEFINE y == <<a>>
<1>1. y \in Seq(Int) /\ Len(y) = 1 /\ y[1] = a
  OBVIOUS
<1> HIDE DEF y
<1>2. /\ x \o y \in Seq(Int) /\ Len(x \o y) = Len(x) + Len(y)
      /\ \A i \in 1 .. Len(x) + Len(y) : (x \o y)[i] = IF i <= Len(x) THEN x[i] ELSE y[i - Len(x)]
  BY <1>1, ConcatProperties
<1>3. \A k \in 1 .. Len(x) : (x \o y)[k] = x[k]
  BY <1>1, <1>2
<1>4. (x \o y)[Len(x) + 1] = a
  <2>1. /\ Len(x) + 1 \in 1 .. Len(x) + Len(y) /\ ~(Len(x) + 1 <= Len(x))
        /\ (Len(x) + 1) - Len(x) = 1
    BY <1>1, LenProperties
  <2> QED BY Zenon, <1>1, <1>2, <2>1
<1>5. Len(x \o y) = Len(x) + 1
  BY <1>1, <1>2
<1> QED BY Zenon, <1>2, <1>3, <1>4, <1>5 DEF y

\* Five numbers read one after the other.
FiveOf(a, b, c, d, e) == (((<<>> \o <<a>>) \o <<b>>) \o <<c>>) \o <<d>> \o <<e>>

\* All seven numbers, in the order they were read.
LEMMA SevenNumbers ==
  ASSUME NEW a \in Int, NEW b \in Int, NEW c \in Int, NEW d \in Int, NEW e \in Int,
         NEW f \in Int, NEW g \in Int
  PROVE  FiveOf(a, b, c, d, e) \o <<f, g>> = <<a, b, c, d, e, f, g>>
<1> DEFINE x0 == <<>>
           x1 == x0 \o <<a>>
           x2 == x1 \o <<b>>
           x3 == x2 \o <<c>>
           x4 == x3 \o <<d>>
           x5 == x4 \o <<e>>
           y == <<f, g>>
           z == x5 \o y
           w == <<a, b, c, d, e, f, g>>
<1>0. x0 \in Seq(Int) /\ Len(x0) = 0
  OBVIOUS
<1> HIDE DEF x0
<1>1. x1 \in Seq(Int) /\ Len(x1) = 1 /\ x1[1] = a
  <2>0. x0 \in Seq(Int)
    BY <1>0
  <2>1. /\ x1 \in Seq(Int) /\ Len(x1) = Len(x0) + 1 /\ x1[Len(x0) + 1] = a
        /\ \A k \in 1 .. Len(x0) : x1[k] = x0[k]
    BY Zenon, <2>0, OneMore
  <2> HIDE DEF x1
  <2> QED BY <1>0, <2>1
<1> HIDE DEF x1
<1>2. x2 \in Seq(Int) /\ Len(x2) = 2 /\ x2[1] = a /\ x2[2] = b
  <2>0. x1 \in Seq(Int)
    BY <1>1
  <2>1. /\ x2 \in Seq(Int) /\ Len(x2) = Len(x1) + 1 /\ x2[Len(x1) + 1] = b
        /\ \A k \in 1 .. Len(x1) : x2[k] = x1[k]
    BY Zenon, <2>0, OneMore
  <2> HIDE DEF x2
  <2> QED BY <1>1, <2>1
<1> HIDE DEF x2
<1>3. x3 \in Seq(Int) /\ Len(x3) = 3 /\ x3[1] = a /\ x3[2] = b /\ x3[3] = c
  <2>0. x2 \in Seq(Int)
    BY <1>2
  <2>1. /\ x3 \in Seq(Int) /\ Len(x3) = Len(x2) + 1 /\ x3[Len(x2) + 1] = c
        /\ \A k \in 1 .. Len(x2) : x3[k] = x2[k]
    BY Zenon, <2>0, OneMore
  <2> HIDE DEF x3
  <2> QED BY <1>2, <2>1
<1> HIDE DEF x3
<1>4. x4 \in Seq(Int) /\ Len(x4) = 4 /\ x4[1] = a /\ x4[2] = b /\ x4[3] = c /\ x4[4] = d
  <2>0. x3 \in Seq(Int)
    BY <1>3
  <2>1. /\ x4 \in Seq(Int) /\ Len(x4) = Len(x3) + 1 /\ x4[Len(x3) + 1] = d
        /\ \A k \in 1 .. Len(x3) : x4[k] = x3[k]
    BY Zenon, <2>0, OneMore
  <2> HIDE DEF x4
  <2> QED BY <1>3, <2>1
<1> HIDE DEF x4
<1>5. /\ x5 \in Seq(Int) /\ Len(x5) = 5 /\ x5[1] = a /\ x5[2] = b /\ x5[3] = c /\ x5[4] = d
      /\ x5[5] = e
  <2>0. x4 \in Seq(Int)
    BY <1>4
  <2>1. /\ x5 \in Seq(Int) /\ Len(x5) = Len(x4) + 1 /\ x5[Len(x4) + 1] = e
        /\ \A k \in 1 .. Len(x4) : x5[k] = x4[k]
    BY Zenon, <2>0, OneMore
  <2> HIDE DEF x5
  <2> QED BY <1>4, <2>1
<1> HIDE DEF x5
<1>6. y \in Seq(Int) /\ Len(y) = 2 /\ y[1] = f /\ y[2] = g
  OBVIOUS
<1>7. /\ w \in Seq(Int) /\ Len(w) = 7 /\ w[1] = a /\ w[2] = b /\ w[3] = c /\ w[4] = d
      /\ w[5] = e /\ w[6] = f /\ w[7] = g
  OBVIOUS
<1> HIDE DEF y, w
<1>8. /\ z \in Seq(Int) /\ Len(z) = Len(x5) + Len(y)
      /\ \A i \in 1 .. Len(x5) + Len(y) : z[i] = IF i <= Len(x5) THEN x5[i] ELSE y[i - Len(x5)]
  BY <1>5, <1>6, ConcatProperties
<1> HIDE DEF z
<1>9. Len(z) = Len(w) /\ \A i \in 1 .. Len(z) : z[i] = w[i]
  BY <1>5, <1>6, <1>7, <1>8
<1>10. z = w
  BY Zenon, <1>7, <1>8, <1>9, SeqEqual
<1> QED BY Zenon, <1>10 DEF FiveOf, x0, x1, x2, x3, x4, x5, y, z, w

-----------------------------------------------------------------------------
(* Reading a text whole *)

\* The parts of a text, all digits.
Digits(y, m, d, h, i, s, f) ==
  /\ y \in Seq(Digit) /\ m \in Seq(Digit) /\ d \in Seq(Digit) /\ h \in Seq(Digit)
  /\ i \in Seq(Digit) /\ s \in Seq(Digit) /\ f \in Seq(Digit)
  /\ Len(y) = 4 /\ Len(m) = 2 /\ Len(d) = 2 /\ Len(h) = 2 /\ Len(i) = 2 /\ Len(s) = 2 /\ Len(f) = 6

\* Parts that are digits are parts of a text, and have values.
LEMMA DigitsParts ==
  ASSUME NEW y, NEW m, NEW d, NEW h, NEW i, NEW s, NEW f, Digits(y, m, d, h, i, s, f)
  PROVE  /\ Parts(y, m, d, h, i, s, f)
         /\ Value(y) \in Int /\ Value(m) \in Int /\ Value(d) \in Int /\ Value(h) \in Int
         /\ Value(i) \in Int /\ Value(s) \in Int /\ Value(f) \in Int
<1>1. Seq(Digit) \subseteq Seq(Int)
  BY DigitsInt
<1>2. /\ y \in Seq(Int) /\ m \in Seq(Int) /\ d \in Seq(Int) /\ h \in Seq(Int)
      /\ i \in Seq(Int) /\ s \in Seq(Int) /\ f \in Seq(Int)
  BY Zenon, <1>1 DEF Digits
<1> QED BY Zenon, <1>2, ValueInt DEF Parts, Digits

\* A new reader has read nothing.
LEMMA ReaderArrived ==
  ASSUME NEW t \in Seq(Int)
  PROVE  Arrived(Reader(t), t, 0, <<>>)
<1>1. Reader(t) \in Readers
  BY DEF Reader, Readers
<1>2. Rest(t, 0) = t
  <2> DEFINE x == Rest(t, 0)
  <2>1. /\ x \in Seq(Int) /\ Len(x) = (IF 0 < Len(t) THEN Len(t) - 0 ELSE 0)
        /\ \A i \in 1 .. Len(t) - 0 : x[i] = t[0 + i]
    BY RestIs
  <2> HIDE DEF x
  <2>2. Len(x) = Len(t) /\ \A i \in 1 .. Len(x) : x[i] = t[i]
    <3>1. Len(t) \in Nat
      BY LenProperties
    <3>2. Len(x) = Len(t)
      BY <2>1, <3>1
    <3>3. \A i \in 1 .. Len(x) : i \in 1 .. Len(t) - 0 /\ 0 + i = i
      BY <3>1, <3>2
    <3> QED BY Zenon, <2>1, <3>2, <3>3
  <2>3. x = t
    BY Zenon, <2>1, <2>2, SeqEqual
  <2> QED BY Zenon, <2>3 DEF x
<1> QED BY Zenon, <1>1, <1>2 DEF Arrived, Reader

\* A time of day, after a date.
LEMMA ClockArrived ==
  ASSUME NEW t \in Seq(Int), NEW y, NEW m, NEW d, NEW h, NEW i, NEW s, NEW f,
         Digits(y, m, d, h, i, s, f), TimeShown(t, h, i, s, f),
         NEW w, NEW r, NEW format, Reading(w, r, format), Len(format) = 11, EndsWithTime(format),
         NEW got \in Seq(Int), Arrived(w[5], t, 10, got)
  PROVE  /\ Arrived(w[10], t, 17, got \o <<Value(h)>> \o <<Value(i)>>)
         /\ w[11] = ReadDecimal(w[10], 9)
<1>1. \A k \in 5 .. 10 : w[k + 1] = Read(w[k], format[k + 1])
  <2>1. \A k \in 5 .. 10 : k \in 0 .. Len(format) - 1
    OBVIOUS
  <2> QED BY Zenon, <2>1 DEF Reading
<1>2. /\ 5 \in 5 .. 10 /\ 5 + 1 = 6 /\ 6 \in 5 .. 10 /\ 6 + 1 = 7 /\ 7 \in 5 .. 10 /\ 7 + 1 = 8
      /\ 8 \in 5 .. 10 /\ 8 + 1 = 9 /\ 9 \in 5 .. 10 /\ 9 + 1 = 10 /\ 10 \in 5 .. 10
      /\ 10 + 1 = 11
  OBVIOUS
<1>3. /\ w[6] = Read(w[5], Conversion("blanks", 0))
      /\ w[7] = Read(w[6], Conversion("unsigned", 2))
      /\ w[8] = Read(w[7], Conversion("char", Colon))
      /\ w[9] = Read(w[8], Conversion("unsigned", 2))
      /\ w[10] = Read(w[9], Conversion("char", Colon))
      /\ w[11] = Read(w[10], Conversion("decimal", 9))
  BY ZenonT(60), <1>1, <1>2 DEF EndsWithTime
<1>4. /\ h \in Seq(Digit) /\ i \in Seq(Digit) /\ Len(h) = 2 /\ Len(i) = 2
      /\ Value(h) \in Int /\ Value(i) \in Int
  <2>1. /\ Value(y) \in Int /\ Value(m) \in Int /\ Value(d) \in Int /\ Value(h) \in Int
        /\ Value(i) \in Int
    BY ZenonT(40), DigitsParts
  <2> QED BY ZenonT(40), <2>1 DEF Digits
<1>5. /\ 10 \in Nat /\ 10 + 1 = 11 /\ 11 \in Nat /\ 11 + 2 = 13 /\ 13 \in Nat /\ 13 + 1 = 14
      /\ 14 \in Nat /\ 14 + 2 = 16 /\ 16 \in Nat /\ 16 + 1 = 17
  OBVIOUS
<1>6. Arrived(w[6], t, 11, got)
  <2>1. Shows(t, 10, <<Blank>>) /\ Shows(t, 10 + 1, h)
    BY Zenon, <1>5 DEF TimeShown
  <2>2. Arrived(w[6], t, 10 + 1, got)
    BY <1>3, <1>4, <2>1, OverBlank
  <2> QED BY Zenon, <1>5, <2>2
<1> DEFINE got1 == got \o <<Value(h)>>
           got2 == got1 \o <<Value(i)>>
<1>7. got1 \in Seq(Int)
  BY Zenon, <1>4, OneMore
<1>8. got2 \in Seq(Int)
  <2> HIDE DEF got1
  <2> QED BY Zenon, <1>4, <1>7, OneMore
<1>9. Arrived(w[7], t, 13, got1)
  <2>1. Shows(t, 11, h)
    BY Zenon DEF TimeShown
  <2>2. Arrived(w[7], t, 11 + 2, got1)
    BY <1>3, <1>4, <1>6, <2>1, OverNumber
  <2> QED BY Zenon, <1>5, <2>2
<1> HIDE DEF got1
<1>10. Arrived(w[8], t, 14, got1)
  <2>1. Shows(t, 13, <<Colon>>) /\ Colon \in {Dash, Colon} /\ 13 \in Nat
    BY Zenon, <1>5 DEF TimeShown
  <2>2. Arrived(w[8], t, 13 + 1, got1)
    BY Zenon, <1>3, <1>7, <1>9, <2>1, OverSign
  <2> QED BY Zenon, <1>5, <2>2
<1>11. Arrived(w[9], t, 16, got2)
  <2>1. Shows(t, 14, i)
    BY Zenon DEF TimeShown
  <2>2. Arrived(w[9], t, 14 + 2, got2)
    BY <1>3, <1>4, <1>10, <2>1, OverNumber
  <2> QED BY Zenon, <1>5, <2>2
<1> HIDE DEF got2
<1>12. Arrived(w[10], t, 17, got2)
  <2>1. Shows(t, 16, <<Colon>>) /\ Colon \in {Dash, Colon} /\ 16 \in Nat
    BY Zenon, <1>5 DEF TimeShown
  <2>2. Arrived(w[10], t, 16 + 1, got2)
    BY Zenon, <1>3, <1>8, <1>11, <2>1, OverSign
  <2> QED BY Zenon, <1>5, <2>2
<1> QED BY Zenon, <1>3, <1>12, Conversions DEF got1, got2

\* What is read of a timestamp's text before its seconds.
LEMMA DateTimeArrived ==
  ASSUME NEW t \in Seq(Int), NEW y, NEW m, NEW d, NEW h, NEW i, NEW s, NEW f,
         Digits(y, m, d, h, i, s, f), DateShown(t, y, m, d), TimeShown(t, h, i, s, f)
  PROVE  \E r : /\ Arrived(r, t, 17, FiveOf(Value(y), Value(m), Value(d), Value(h), Value(i)))
                /\ ReadFields(t) = ReadDecimal(r, 9)
<1> DEFINE r0 == Reader(t)
           format == DateTimeFormat
<1>1. Arrived(r0, t, 0, <<>>)
  BY Zenon, ReaderArrived
<1>2. r0 \in Readers
  BY Zenon, <1>1 DEF Arrived
<1> HIDE DEF r0
<1>3. PICK w : Reading(w, r0, format) /\ FoldLeft(Read, r0, format) = w[Len(format)]
  BY Zenon, <1>2, FormatsAre, ReadingSteps
<1>4. Len(format) = 11
  BY Zenon, FormatsAre
<1>5. \A k \in 0 .. 4 : w[k + 1] = Read(w[k], format[k + 1])
  <2>1. \A k \in 0 .. 4 : k \in 0 .. Len(format) - 1
    BY <1>4
  <2> QED BY Zenon, <1>3, <2>1 DEF Reading
<1>6. /\ 0 \in 0 .. 4 /\ 0 + 1 = 1 /\ 1 \in 0 .. 4 /\ 1 + 1 = 2 /\ 2 \in 0 .. 4 /\ 2 + 1 = 3
      /\ 3 \in 0 .. 4 /\ 3 + 1 = 4 /\ 4 \in 0 .. 4 /\ 4 + 1 = 5
  OBVIOUS
<1>7. /\ w[0] = r0
      /\ w[1] = Read(w[0], Conversion("signed", 4))
      /\ w[2] = Read(w[1], Conversion("char", Dash))
      /\ w[3] = Read(w[2], Conversion("unsigned", 2))
      /\ w[4] = Read(w[3], Conversion("char", Dash))
      /\ w[5] = Read(w[4], Conversion("unsigned", 2))
  BY ZenonT(60), <1>3, <1>5, <1>6, FormatsAre DEF Reading
<1>8. /\ y \in Seq(Digit) /\ m \in Seq(Digit) /\ d \in Seq(Digit)
      /\ Len(y) = 4 /\ Len(m) = 2 /\ Len(d) = 2
      /\ Value(y) \in Int /\ Value(m) \in Int /\ Value(d) \in Int
  <2>1. /\ Value(y) \in Int /\ Value(m) \in Int /\ Value(d) \in Int /\ Value(h) \in Int
        /\ Value(i) \in Int
    BY Zenon, DigitsParts
  <2> QED BY Zenon, <2>1 DEF Digits
<1>9. /\ 0 \in Nat /\ 0 + 4 = 4 /\ 4 \in Nat /\ 4 + 1 = 5 /\ 5 \in Nat /\ 5 + 2 = 7 /\ 7 \in Nat
      /\ 7 + 1 = 8 /\ 8 \in Nat /\ 8 + 2 = 10
  OBVIOUS
<1> DEFINE got0 == <<>>
           got1 == got0 \o <<Value(y)>>
           got2 == got1 \o <<Value(m)>>
           got3 == got2 \o <<Value(d)>>
<1>10. got0 \in Seq(Int)
  OBVIOUS
<1>11. got1 \in Seq(Int)
  <2> HIDE DEF got0
  <2> QED BY Zenon, <1>8, <1>10, OneMore
<1>12. got2 \in Seq(Int)
  <2> HIDE DEF got1
  <2> QED BY Zenon, <1>8, <1>11, OneMore
<1>13. got3 \in Seq(Int)
  <2> HIDE DEF got2
  <2> QED BY Zenon, <1>8, <1>12, OneMore
<1> HIDE DEF got0
<1>14. Arrived(w[1], t, 4, got1)
  <2>1. Shows(t, 0, y) /\ Arrived(w[0], t, 0, got0)
    BY Zenon, <1>1, <1>7 DEF DateShown, got0
  <2>2. Arrived(w[1], t, 0 + 4, got1)
    BY <1>7, <1>8, <2>1, OverYear
  <2> QED BY Zenon, <1>9, <2>2
<1> HIDE DEF got1
<1>15. Arrived(w[2], t, 5, got1)
  <2>1. Shows(t, 4, <<Dash>>) /\ Dash \in {Dash, Colon} /\ 4 \in Nat
    BY Zenon, <1>9 DEF DateShown
  <2>2. Arrived(w[2], t, 4 + 1, got1)
    BY Zenon, <1>7, <1>11, <1>14, <2>1, OverSign
  <2> QED BY Zenon, <1>9, <2>2
<1>16. Arrived(w[3], t, 7, got2)
  <2>1. Shows(t, 5, m)
    BY Zenon DEF DateShown
  <2>2. Arrived(w[3], t, 5 + 2, got2)
    BY <1>7, <1>8, <1>15, <2>1, OverNumber
  <2> QED BY Zenon, <1>9, <2>2
<1> HIDE DEF got2
<1>17. Arrived(w[4], t, 8, got2)
  <2>1. Shows(t, 7, <<Dash>>) /\ Dash \in {Dash, Colon} /\ 7 \in Nat
    BY Zenon, <1>9 DEF DateShown
  <2>2. Arrived(w[4], t, 7 + 1, got2)
    BY Zenon, <1>7, <1>12, <1>16, <2>1, OverSign
  <2> QED BY Zenon, <1>9, <2>2
<1>18. Arrived(w[5], t, 10, got3)
  <2>1. Shows(t, 8, d)
    BY Zenon DEF DateShown
  <2>2. Arrived(w[5], t, 8 + 2, got3)
    BY <1>7, <1>8, <1>17, <2>1, OverNumber
  <2> QED BY Zenon, <1>9, <2>2
<1> HIDE DEF got3
<1>19. /\ Arrived(w[10], t, 17, got3 \o <<Value(h)>> \o <<Value(i)>>)
       /\ w[11] = ReadDecimal(w[10], 9)
  <2>1. EndsWithTime(format)
    BY Zenon, FormatsAre
  <2> HIDE DEF format
  <2> QED BY <1>3, <1>4, <1>13, <1>18, <2>1, ClockArrived
<1>20. ReadFields(t) = w[11]
  BY Zenon, <1>3, <1>4 DEF ReadFields, DateTimeFormat, r0
<1> QED BY Zenon, <1>19, <1>20 DEF FiveOf, got0, got1, got2, got3

\* And of an HTTP date's.
LEMMA HttpArrived ==
  ASSUME NEW t \in Seq(Int), NEW y, NEW m, NEW d, NEW h, NEW i, NEW s, NEW f,
         Digits(y, m, d, h, i, s, f), HttpDateShown(t, d, m, y), TimeShown(t, h, i, s, f)
  PROVE  \E r : /\ Arrived(r, t, 17, FiveOf(Value(d), Value(m), Value(y), Value(h), Value(i)))
                /\ FoldLeft(Read, Reader(t), HttpFormat) = ReadDecimal(r, 9)
<1> DEFINE r0 == Reader(t)
           format == HttpFormat
<1>1. Arrived(r0, t, 0, <<>>)
  BY Zenon, ReaderArrived
<1>2. r0 \in Readers
  BY Zenon, <1>1 DEF Arrived
<1> HIDE DEF r0
<1>3. PICK w : Reading(w, r0, format) /\ FoldLeft(Read, r0, format) = w[Len(format)]
  BY Zenon, <1>2, FormatsAre, ReadingSteps
<1>4. Len(format) = 11
  BY Zenon, FormatsAre
<1>5. \A k \in 0 .. 4 : w[k + 1] = Read(w[k], format[k + 1])
  <2>1. \A k \in 0 .. 4 : k \in 0 .. Len(format) - 1
    BY <1>4
  <2> QED BY Zenon, <1>3, <2>1 DEF Reading
<1>6. /\ 0 \in 0 .. 4 /\ 0 + 1 = 1 /\ 1 \in 0 .. 4 /\ 1 + 1 = 2 /\ 2 \in 0 .. 4 /\ 2 + 1 = 3
      /\ 3 \in 0 .. 4 /\ 3 + 1 = 4 /\ 4 \in 0 .. 4 /\ 4 + 1 = 5
  OBVIOUS
<1>7. /\ w[0] = r0
      /\ w[1] = Read(w[0], Conversion("unsigned", 2))
      /\ w[2] = Read(w[1], Conversion("char", Dash))
      /\ w[3] = Read(w[2], Conversion("unsigned", 2))
      /\ w[4] = Read(w[3], Conversion("char", Dash))
      /\ w[5] = Read(w[4], Conversion("signed", 4))
  BY ZenonT(60), <1>3, <1>5, <1>6, FormatsAre DEF Reading
<1>8. /\ y \in Seq(Digit) /\ m \in Seq(Digit) /\ d \in Seq(Digit)
      /\ Len(y) = 4 /\ Len(m) = 2 /\ Len(d) = 2
      /\ Value(y) \in Int /\ Value(m) \in Int /\ Value(d) \in Int
  <2>1. /\ Value(y) \in Int /\ Value(m) \in Int /\ Value(d) \in Int /\ Value(h) \in Int
        /\ Value(i) \in Int
    BY Zenon, DigitsParts
  <2> QED BY Zenon, <2>1 DEF Digits
<1>9. /\ 0 \in Nat /\ 0 + 2 = 2 /\ 2 \in Nat /\ 2 + 1 = 3 /\ 3 \in Nat /\ 3 + 2 = 5 /\ 5 \in Nat
      /\ 5 + 1 = 6 /\ 6 \in Nat /\ 6 + 4 = 10
  OBVIOUS
<1> DEFINE got0 == <<>>
           got1 == got0 \o <<Value(d)>>
           got2 == got1 \o <<Value(m)>>
           got3 == got2 \o <<Value(y)>>
<1>10. got0 \in Seq(Int)
  OBVIOUS
<1>11. got1 \in Seq(Int)
  <2> HIDE DEF got0
  <2> QED BY Zenon, <1>8, <1>10, OneMore
<1>12. got2 \in Seq(Int)
  <2> HIDE DEF got1
  <2> QED BY Zenon, <1>8, <1>11, OneMore
<1>13. got3 \in Seq(Int)
  <2> HIDE DEF got2
  <2> QED BY Zenon, <1>8, <1>12, OneMore
<1> HIDE DEF got0
<1>14. Arrived(w[1], t, 2, got1)
  <2>1. Shows(t, 0, d) /\ Arrived(w[0], t, 0, got0)
    BY Zenon, <1>1, <1>7 DEF HttpDateShown, got0
  <2>2. Arrived(w[1], t, 0 + 2, got1)
    BY <1>7, <1>8, <2>1, OverNumber
  <2> QED BY Zenon, <1>9, <2>2
<1> HIDE DEF got1
<1>15. Arrived(w[2], t, 3, got1)
  <2>1. Shows(t, 2, <<Dash>>) /\ Dash \in {Dash, Colon} /\ 2 \in Nat
    BY Zenon, <1>9 DEF HttpDateShown
  <2>2. Arrived(w[2], t, 2 + 1, got1)
    BY Zenon, <1>7, <1>11, <1>14, <2>1, OverSign
  <2> QED BY Zenon, <1>9, <2>2
<1>16. Arrived(w[3], t, 5, got2)
  <2>1. Shows(t, 3, m)
    BY Zenon DEF HttpDateShown
  <2>2. Arrived(w[3], t, 3 + 2, got2)
    BY <1>7, <1>8, <1>15, <2>1, OverNumber
  <2> QED BY Zenon, <1>9, <2>2
<1> HIDE DEF got2
<1>17. Arrived(w[4], t, 6, got2)
  <2>1. Shows(t, 5, <<Dash>>) /\ Dash \in {Dash, Colon} /\ 5 \in Nat
    BY Zenon, <1>9 DEF HttpDateShown
  <2>2. Arrived(w[4], t, 5 + 1, got2)
    BY Zenon, <1>7, <1>12, <1>16, <2>1, OverSign
  <2> QED BY Zenon, <1>9, <2>2
<1>18. Arrived(w[5], t, 10, got3)
  <2>1. Shows(t, 6, y)
    BY Zenon DEF HttpDateShown
  <2>2. Arrived(w[5], t, 6 + 4, got3)
    BY <1>7, <1>8, <1>17, <2>1, OverYear
  <2> QED BY Zenon, <1>9, <2>2
<1> HIDE DEF got3
<1>19. /\ Arrived(w[10], t, 17, got3 \o <<Value(h)>> \o <<Value(i)>>)
       /\ w[11] = ReadDecimal(w[10], 9)
  <2>1. EndsWithTime(format)
    BY Zenon, FormatsAre
  <2> HIDE DEF format
  <2> QED BY <1>3, <1>4, <1>13, <1>18, <2>1, ClockArrived
<1>20. FoldLeft(Read, Reader(t), HttpFormat) = w[11]
  BY Zenon, <1>3, <1>4 DEF r0
<1> QED BY Zenon, <1>19, <1>20 DEF FiveOf, got0, got1, got2, got3

\* A text that ends in its seconds, with or without a fraction, is read whole.
LEMMA TextRead ==
  ASSUME NEW t \in Seq(Int), NEW y, NEW m, NEW d, NEW h, NEW i, NEW s, NEW f, NEW e,
         Digits(y, m, d, h, i, s, f), DateShown(t, y, m, d), TimeShown(t, h, i, s, f),
         EndsIn(t, 17, s, f, e), Value(f) \in Nat, Value(f) < Million
  PROVE  /\ ReadFields(t).ok
         /\ ReadFields(t).got = <<Value(y), Value(m), Value(d), Value(h), Value(i), Value(s), Value(f)>>
<1> DEFINE got == FiveOf(Value(y), Value(m), Value(d), Value(h), Value(i))
           us == Value(f)
<1>1. PICK r : Arrived(r, t, 17, got) /\ ReadFields(t) = ReadDecimal(r, 9)
  BY Zenon, DateTimeArrived
<1>2. 17 <= Len(t) /\ 17 \in Nat
  BY LenProperties DEF EndsIn
<1>3. r \in Readers /\ r.ok /\ r.left = Rest(t, 17) /\ r.got = got
  BY Zenon, <1>1, <1>2 DEF Arrived
<1> DEFINE q == ReadDecimal(r, 9)
<1>4. q.ok = r.ok /\ q.got = r.got \o <<Value(s), us>>
  <2>1. 17 \in Nat /\ ReadsFrom(r, t, 17)
    BY <1>2, <1>3 DEF ReadsFrom
  <2>2. t \in Seq(Int) /\ EndsIn(t, 17, s, f, e) /\ Value(f) \in Nat /\ Value(f) < Million
    OBVIOUS
  <2> HIDE DEF got
  <2>3. HasRead(ReadDecimal(r, 9), r, <<Value(s), Value(f)>>)
    BY Zenon, <2>1, <2>2, DecimalRead
  <2> QED BY Zenon, <2>3 DEF HasRead
<1>5. got \o <<Value(s), us>> = <<Value(y), Value(m), Value(d), Value(h), Value(i), Value(s), us>>
  <2>1. /\ Value(y) \in Int /\ Value(m) \in Int /\ Value(d) \in Int /\ Value(h) \in Int
        /\ Value(i) \in Int /\ Value(s) \in Int /\ us \in Int
    BY Zenon, DigitsParts
  <2> HIDE DEF us
  <2> QED BY SMT, <2>1, SevenNumbers
<1> HIDE DEF q, got
<1>6. q.ok /\ q.got = got \o <<Value(s), us>>
  BY <1>3, <1>4
<1> QED BY Zenon, <1>1, <1>5, <1>6 DEF q

\* An HTTP date that ends in its seconds is read whole.
LEMMA HttpRead ==
  ASSUME NEW t \in Seq(Int), NEW y, NEW m, NEW d, NEW h, NEW i, NEW s, NEW f, NEW e,
         Digits(y, m, d, h, i, s, f), HttpDateShown(t, d, m, y), TimeShown(t, h, i, s, f),
         EndsIn(t, 17, s, f, e), Value(f) \in Nat, Value(f) < Million
  PROVE  FoldLeft(Read, Reader(t), HttpFormat).got
           = <<Value(d), Value(m), Value(y), Value(h), Value(i), Value(s), Value(f)>>
<1> DEFINE got == FiveOf(Value(d), Value(m), Value(y), Value(h), Value(i))
           us == Value(f)
<1>1. PICK r : Arrived(r, t, 17, got) /\ FoldLeft(Read, Reader(t), HttpFormat) = ReadDecimal(r, 9)
  BY Zenon, HttpArrived
<1>2. 17 <= Len(t) /\ 17 \in Nat
  BY LenProperties DEF EndsIn
<1>3. r \in Readers /\ r.ok /\ r.left = Rest(t, 17) /\ r.got = got
  BY Zenon, <1>1, <1>2 DEF Arrived
<1> DEFINE q == ReadDecimal(r, 9)
<1>4. q.ok = r.ok /\ q.got = r.got \o <<Value(s), us>>
  <2>1. 17 \in Nat /\ ReadsFrom(r, t, 17)
    BY <1>2, <1>3 DEF ReadsFrom
  <2>2. t \in Seq(Int) /\ EndsIn(t, 17, s, f, e) /\ Value(f) \in Nat /\ Value(f) < Million
    OBVIOUS
  <2> HIDE DEF got
  <2>3. HasRead(ReadDecimal(r, 9), r, <<Value(s), Value(f)>>)
    BY Zenon, <2>1, <2>2, DecimalRead
  <2> QED BY Zenon, <2>3 DEF HasRead
<1>5. got \o <<Value(s), us>> = <<Value(d), Value(m), Value(y), Value(h), Value(i), Value(s), us>>
  <2>1. /\ Value(y) \in Int /\ Value(m) \in Int /\ Value(d) \in Int /\ Value(h) \in Int
        /\ Value(i) \in Int /\ Value(s) \in Int /\ us \in Int
    BY Zenon, DigitsParts
  <2> HIDE DEF us
  <2> QED BY SMT, <2>1, SevenNumbers
<1> HIDE DEF q, got
<1>6. q.got = got \o <<Value(s), us>>
  BY Zenon, <1>3, <1>4
<1> QED BY Zenon, <1>1, <1>5, <1>6 DEF q

\* A text that ends before its seconds is refused.
LEMMA ShortTextRefused ==
  ASSUME NEW t \in Seq(Int), NEW y, NEW m, NEW d, NEW h, NEW i, NEW s, NEW f,
         Digits(y, m, d, h, i, s, f), DateShown(t, y, m, d), TimeShown(t, h, i, s, f),
         Len(t) <= 17
  PROVE  ~ReadFields(t).ok
<1> DEFINE got == FiveOf(Value(y), Value(m), Value(d), Value(h), Value(i))
<1>1. PICK r : Arrived(r, t, 17, got) /\ ReadFields(t) = ReadDecimal(r, 9)
  BY Zenon, DateTimeArrived
<1>2. r \in Readers /\ (r.ok => r.left = Rest(t, 17))
  BY Zenon, <1>1 DEF Arrived
<1>3. ASSUME r.ok PROVE ~ReadDecimal(r, 9).ok
  <2>1. 17 \in Nat /\ ~(17 < Len(t))
    BY LenProperties
  <2>2. Rest(t, 17) = <<>>
    BY Zenon, <2>1, RestEmpty
  <2>3. r.left = <<>>
    BY Zenon, <1>2, <1>3, <2>2
  <2>4. ReadDecimal(r, 9) = Failed(r)
    BY Zenon, <1>2, <2>3, NoDecimal
  <2>5. Failed(r).ok = FALSE
    BY Zenon, <1>2, FailedIn
  <2> QED BY <2>4, <2>5
<1>4. ASSUME ~r.ok PROVE ~ReadDecimal(r, 9).ok
  <2>1. Conversion("decimal", 9) \in Formats
    BY Zenon DEF Formats
  <2>2. Read(r, Conversion("decimal", 9)).ok => r.ok
    BY Zenon, <1>2, <2>1, StaysFailed
  <2>3. Read(r, Conversion("decimal", 9)) = ReadDecimal(r, 9)
    BY Zenon, Conversions
  <2> QED BY Zenon, <1>4, <2>2, <2>3
<1> QED BY Zenon, <1>1, <1>3, <1>4

-----------------------------------------------------------------------------
(* Timestamps as text *)

\* A whole text ends in its seconds and their fraction.
LEMMA WholeEnds ==
  ASSUME NEW t \in Seq(Int), NEW y, NEW m, NEW d, NEW h, NEW i, NEW s, NEW f,
         Digits(y, m, d, h, i, s, f), TimeShown(t, h, i, s, f), Len(t) = 26
  PROVE  EndsIn(t, 17, s, f, 6)
<1>1. s \in Seq(Digit) /\ Len(s) = 2 /\ f \in Seq(Digit) /\ Len(f) = 6
  BY Zenon DEF Digits
<1>2. 17 + 2 = 19 /\ 17 + 3 = 20 /\ 6 \in 0 .. 6 /\ \A k \in 6 + 1 .. 6 : f[k] = 0
  OBVIOUS
<1>3. Shows(t, 17, s) /\ Shows(t, 19, <<Point>>) /\ Shows(t, 20, f)
  BY Zenon DEF TimeShown
<1>4. Len(t) = 17 + 2 + (IF 6 = 0 THEN 0 ELSE 6 + 1)
  OBVIOUS
<1> QED BY Zenon, <1>1, <1>2, <1>3, <1>4 DEF EndsIn

\* A text without a fraction ends in its seconds when the fraction is zeros.
LEMMA SecondEnds ==
  ASSUME NEW t \in Seq(Int), NEW y, NEW m, NEW d, NEW h, NEW i, NEW s, NEW f,
         Digits(y, m, d, h, i, s, f), TimeShown(t, h, i, s, f), Len(t) = 19,
         \A k \in 1 .. 6 : f[k] = 0
  PROVE  EndsIn(t, 17, s, f, 0)
<1>1. s \in Seq(Digit) /\ Len(s) = 2 /\ f \in Seq(Digit) /\ Len(f) = 6
  BY Zenon DEF Digits
<1>2. 17 + 2 = 19 /\ 17 + 3 = 20 /\ 0 \in 0 .. 6 /\ \A k \in 0 + 1 .. 6 : f[k] = 0
  OBVIOUS
<1>3. Shows(t, 17, s) /\ Shows(t, 19, <<Point>>) /\ Shows(t, 20, f)
  BY Zenon DEF TimeShown
<1>4. Len(t) = 17 + 2 + (IF 0 = 0 THEN 0 ELSE 0 + 1)
  OBVIOUS
<1> QED BY Zenon, <1>1, <1>2, <1>3, <1>4 DEF EndsIn

\* The one point of a whole text.
LEMMA PointAt ==
  ASSUME NEW t \in Seq(Int), NEW y, NEW m, NEW d, NEW h, NEW i, NEW s, NEW f,
         Digits(y, m, d, h, i, s, f), DateShown(t, y, m, d), TimeShown(t, h, i, s, f),
         Len(t) = 26
  PROVE  /\ DOMAIN t = 1 .. 26 /\ t[20] = Point
         /\ \A k \in 1 .. 26 : t[k] = Point => k = 20
<1>1. DOMAIN t = 1 .. 26
  BY LenProperties
<1>2. ASSUME NEW x, NEW p \in Nat, NEW n \in Nat, x \in Seq(Digit), Len(x) = n, Shows(t, p, x),
             NEW k \in 1 .. 26, p < k, k <= p + n
      PROVE  t[k] # Point
  <2>1. k - p \in 1 .. Len(x) /\ p + (k - p) <= Len(t) /\ p + (k - p) = k
    BY <1>2
  <2>2. t[p + (k - p)] = x[k - p]
    BY Zenon, <1>2, <2>1 DEF Shows
  <2>3. x[k - p] \in Digit
    BY <1>2, <2>1, ElementOfSeq
  <2>4. Point \notin Digit
    BY DEF Point, Digit
  <2> QED BY Zenon, <2>1, <2>2, <2>3, <2>4
<1>3. ASSUME NEW c, NEW p \in Nat, Shows(t, p, <<c>>), p + 1 <= 26
      PROVE  t[p + 1] = c
  <2>1. 1 \in 1 .. Len(<<c>>) /\ p + 1 <= Len(t)
    BY <1>3
  <2>2. t[p + 1] = <<c>>[1]
    BY Zenon, <1>3, <2>1 DEF Shows
  <2> QED BY <2>2
<1>4. /\ y \in Seq(Digit) /\ m \in Seq(Digit) /\ d \in Seq(Digit) /\ h \in Seq(Digit)
      /\ i \in Seq(Digit) /\ s \in Seq(Digit) /\ f \in Seq(Digit)
      /\ Len(y) = 4 /\ Len(m) = 2 /\ Len(d) = 2 /\ Len(h) = 2 /\ Len(i) = 2 /\ Len(s) = 2
      /\ Len(f) = 6
  BY Zenon DEF Digits
<1>5. /\ Shows(t, 0, y) /\ Shows(t, 4, <<Dash>>) /\ Shows(t, 5, m)
      /\ Shows(t, 7, <<Dash>>) /\ Shows(t, 8, d)
      /\ Shows(t, 10, <<Blank>>) /\ Shows(t, 11, h) /\ Shows(t, 13, <<Colon>>)
      /\ Shows(t, 14, i) /\ Shows(t, 16, <<Colon>>) /\ Shows(t, 17, s)
      /\ Shows(t, 19, <<Point>>) /\ Shows(t, 20, f)
  BY Zenon DEF DateShown, TimeShown
<1>6. /\ t[5] = Dash /\ t[8] = Dash /\ t[11] = Blank /\ t[14] = Colon /\ t[17] = Colon
      /\ t[20] = Point
  <2>1. /\ 4 \in Nat /\ 4 + 1 <= 26 /\ 4 + 1 = 5 /\ 7 \in Nat /\ 7 + 1 <= 26 /\ 7 + 1 = 8
        /\ 10 \in Nat /\ 10 + 1 <= 26 /\ 10 + 1 = 11 /\ 13 \in Nat /\ 13 + 1 <= 26 /\ 13 + 1 = 14
        /\ 16 \in Nat /\ 16 + 1 <= 26 /\ 16 + 1 = 17 /\ 19 \in Nat /\ 19 + 1 <= 26 /\ 19 + 1 = 20
    OBVIOUS
  <2>2. /\ t[4 + 1] = Dash /\ t[7 + 1] = Dash /\ t[10 + 1] = Blank /\ t[13 + 1] = Colon
        /\ t[16 + 1] = Colon /\ t[19 + 1] = Point
    BY Zenon, <1>3, <1>5, <2>1
  <2> QED BY Zenon, <2>1, <2>2
<1>7. Dash # Point /\ Blank # Point /\ Colon # Point
  BY DEF Dash, Blank, Colon, Point
<1>8. ASSUME NEW k \in 1 .. 26, k # 20 PROVE t[k] # Point
  <2>1. \/ k \in {5, 8, 11, 14, 17}
        \/ 0 < k /\ k <= 0 + 4
        \/ 5 < k /\ k <= 5 + 2
        \/ 8 < k /\ k <= 8 + 2
        \/ 11 < k /\ k <= 11 + 2
        \/ 14 < k /\ k <= 14 + 2
        \/ 17 < k /\ k <= 17 + 2
        \/ 20 < k /\ k <= 20 + 6
    BY <1>8
  <2>2. CASE k \in {5, 8, 11, 14, 17}
    BY Zenon, <1>6, <1>7, <2>2
  <2>3. CASE 0 < k /\ k <= 0 + 4
    BY <1>2, <1>4, <1>5, <2>3
  <2>4. CASE 5 < k /\ k <= 5 + 2
    BY <1>2, <1>4, <1>5, <2>4
  <2>5. CASE 8 < k /\ k <= 8 + 2
    BY <1>2, <1>4, <1>5, <2>5
  <2>6. CASE 11 < k /\ k <= 11 + 2
    BY <1>2, <1>4, <1>5, <2>6
  <2>7. CASE 14 < k /\ k <= 14 + 2
    BY <1>2, <1>4, <1>5, <2>7
  <2>8. CASE 17 < k /\ k <= 17 + 2
    BY <1>2, <1>4, <1>5, <2>8
  <2>9. CASE 20 < k /\ k <= 20 + 6
    BY <1>2, <1>4, <1>5, <2>9
  <2> QED BY Zenon, <2>1, <2>2, <2>3, <2>4, <2>5, <2>6, <2>7, <2>8, <2>9
<1> QED BY Zenon, <1>1, <1>6, <1>8

\* The beginnings of a text show its parts as far as they go.
LEMMA PartsCut ==
  ASSUME NEW t \in Seq(Int), NEW y, NEW m, NEW d, NEW h, NEW i, NEW s, NEW f,
         Digits(y, m, d, h, i, s, f), DateShown(t, y, m, d), TimeShown(t, h, i, s, f),
         NEW n \in 0 .. Len(t)
  PROVE  /\ SubSeq(t, 1, n) \in Seq(Int) /\ Len(SubSeq(t, 1, n)) = n
         /\ DateShown(SubSeq(t, 1, n), y, m, d) /\ TimeShown(SubSeq(t, 1, n), h, i, s, f)
<1> DEFINE u == SubSeq(t, 1, n)
<1>1. \A p \in Nat, x \in Seq(Int) : Shows(t, p, x) => Shows(u, p, x)
  BY ShowsCut
<1>2. u \in Seq(Int) /\ Len(u) = n
  <2>1. Shows(t, 0, t) /\ 0 \in Nat
    BY Zenon, ShowsSelf
  <2> QED BY <2>1, ShowsCut
<1> HIDE DEF u
<1>3. /\ y \in Seq(Int) /\ m \in Seq(Int) /\ d \in Seq(Int) /\ h \in Seq(Int)
      /\ i \in Seq(Int) /\ s \in Seq(Int) /\ f \in Seq(Int)
      /\ <<Dash>> \in Seq(Int) /\ <<Blank>> \in Seq(Int) /\ <<Colon>> \in Seq(Int)
      /\ <<Point>> \in Seq(Int)
  <2>1. Parts(y, m, d, h, i, s, f)
    BY Zenon, DigitsParts
  <2> QED BY Zenon, <2>1, SignsAre DEF Parts
<1>4. /\ 0 \in Nat /\ 4 \in Nat /\ 5 \in Nat /\ 7 \in Nat /\ 8 \in Nat /\ 10 \in Nat /\ 11 \in Nat
      /\ 13 \in Nat /\ 14 \in Nat /\ 16 \in Nat /\ 17 \in Nat /\ 19 \in Nat /\ 20 \in Nat
  OBVIOUS
<1>5. DateShown(u, y, m, d)
  BY Zenon, <1>1, <1>3, <1>4 DEF DateShown
<1>6. TimeShown(u, h, i, s, f)
  BY Zenon, <1>1, <1>3, <1>4 DEF TimeShown
<1> QED BY Zenon, <1>2, <1>5, <1>6 DEF u

\* What a column of the database gives back shows the same parts and ends in its seconds.
LEMMA ColumnEnds ==
  ASSUME NEW t \in Seq(Int), NEW y, NEW m, NEW d, NEW h, NEW i, NEW s, NEW f,
         Digits(y, m, d, h, i, s, f), DateShown(t, y, m, d), TimeShown(t, h, i, s, f),
         Len(t) = 26
  PROVE  /\ Column(t) \in Seq(Int)
         /\ DateShown(Column(t), y, m, d) /\ TimeShown(Column(t), h, i, s, f)
         /\ \E e : EndsIn(Column(t), 17, s, f, e)
<1> DEFINE point == CHOOSE k \in DOMAIN t : t[k] = Point
           Kept(p) == {k \in DOMAIN t : k > p /\ t[k] # 0}
           LastKept(p) == IF Kept(p) = {} THEN p - 1 ELSE CHOOSE k \in Kept(p) : \A j \in Kept(p) : j <= k
           kept == Kept(20)
           last == LastKept(20)
           u == SubSeq(t, 1, last)
           e == IF kept = {} THEN 0 ELSE last - 20
<1>1. DOMAIN t = 1 .. 26 /\ t[20] = Point /\ \A k \in 1 .. 26 : t[k] = Point => k = 20
  BY PointAt
<1>2. point = 20
  <2>1. 20 \in DOMAIN t
    BY <1>1
  <2>2. point \in DOMAIN t /\ t[point] = Point
    BY Zenon, <1>1, <2>1
  <2> HIDE DEF point
  <2> QED BY Zenon, <1>1, <2>2
<1> HIDE DEF point
<1>3. kept \in SUBSET (21 .. 26) /\ \A k \in 21 .. 26 : t[k] # 0 => k \in kept
  <2>1. kept = {k \in 1 .. 26 : k > 20 /\ t[k] # 0}
    BY Zenon, <1>1
  <2>2. \A k \in 1 .. 26 : k > 20 <=> k \in 21 .. 26
    OBVIOUS
  <2> HIDE DEF kept
  <2>3. \A k \in kept : k \in 21 .. 26
    BY Zenon, <2>1, <2>2
  <2>4. \A k \in 21 .. 26 : k \in 1 .. 26 /\ k > 20
    OBVIOUS
  <2>5. \A k \in 21 .. 26 : t[k] # 0 => k \in kept
    BY Zenon, <2>1, <2>4
  <2> QED BY Zenon, <2>3, <2>5
<1> HIDE DEF kept
<1>4. kept # {} => last \in kept /\ \A j \in kept : j <= last
  <2> SUFFICES ASSUME kept # {} PROVE last \in kept /\ \A j \in kept : j <= last
    OBVIOUS
  <2>1. kept \in SUBSET (1 .. 26) /\ 26 \in Nat
    BY <1>3
  <2>2. PICK k \in kept : \A j \in kept : k >= j
    BY <2>1, HasLargest
  <2>3. \A j \in kept : j <= k
    <3>1. \A j \in kept : j \in Int /\ k \in Int
      BY <1>3
    <3> QED BY <2>2, <3>1
  <2> QED BY Zenon, <2>3 DEF kept
<1>5. /\ last \in 19 .. 26 /\ last \in 0 .. Len(t) /\ e \in 0 .. 6
      /\ last = 17 + 2 + (IF e = 0 THEN 0 ELSE e + 1) /\ (kept # {} => e = last - 20)
      /\ (kept = {} => e = 0)
  <2>1. CASE kept = {}
    <3>0. 20 - 1 = 19
      OBVIOUS
    <3>1. last = 19 /\ e = 0
      BY Zenon, <2>1, <3>0 DEF kept
    <3> HIDE DEF last, e
    <3> QED BY <2>1, <3>1
  <2>2. CASE kept # {}
    <3>1. last \in 21 .. 26
      BY <1>3, <1>4, <2>2
    <3> HIDE DEF last
    <3> QED BY <2>2, <3>1
  <2> QED BY <2>1, <2>2
<1> HIDE DEF last, e
<1>6. \A k \in e + 1 .. 6 : f[k] = 0
  <2> TAKE k \in e + 1 .. 6
  <2>1. 20 + k \in 21 .. 26 /\ k \in 1 .. 6
    BY <1>5
  <2>2. 20 + k \notin kept
    <3>1. CASE kept = {}
      BY <3>1
    <3>2. CASE kept # {}
      <4>1. ~(20 + k <= last)
        BY <1>5, <3>2
      <4> QED BY Zenon, <1>4, <3>2, <4>1
    <3> QED BY <3>1, <3>2
  <2>3. t[20 + k] = 0
    BY Zenon, <1>3, <2>1, <2>2
  <2>4. Shows(t, 20, f) /\ k \in 1 .. Len(f) /\ 20 + k <= Len(t)
    BY <2>1 DEF TimeShown, Digits
  <2>5. t[20 + k] = f[k]
    BY Zenon, <2>4 DEF Shows
  <2> QED BY <2>3, <2>5
<1>7. u \in Seq(Int) /\ Len(u) = last /\ DateShown(u, y, m, d) /\ TimeShown(u, h, i, s, f)
  <2>1. last \in 0 .. Len(t)
    BY <1>5
  <2> QED BY Zenon, <2>1, PartsCut
<1>8. Column(t) = u
  <2>1. Column(t) = SubSeq(t, 1, LastKept(point))
    BY Zenon DEF Column, point
  <2> HIDE DEF LastKept
  <2> QED BY Zenon, <1>2, <2>1 DEF last
<1> HIDE DEF u
<1>9. EndsIn(u, 17, s, f, e)
  <2>1. s \in Seq(Digit) /\ Len(s) = 2 /\ f \in Seq(Digit) /\ Len(f) = 6
    BY Zenon DEF Digits
  <2>2. 17 + 2 = 19 /\ 17 + 3 = 20
    OBVIOUS
  <2>3. Shows(u, 17, s) /\ Shows(u, 19, <<Point>>) /\ Shows(u, 20, f)
    BY Zenon, <1>7 DEF TimeShown
  <2>4. Len(u) = 17 + 2 + (IF e = 0 THEN 0 ELSE e + 1) /\ e \in 0 .. 6
    BY Zenon, <1>5, <1>7
  <2> QED BY Zenon, <1>6, <2>1, <2>2, <2>3, <2>4 DEF EndsIn
<1> QED BY Zenon, <1>7, <1>8, <1>9

\* Numbers that fit the digits they are written with.
FieldsFit(x, tod) ==
  /\ x.y \in Nat /\ x.y < 10000 /\ x.m \in Nat /\ x.m < 100 /\ x.d \in Nat /\ x.d < 100
  /\ tod.h \in Nat /\ tod.h < 100 /\ tod.m \in Nat /\ tod.m < 100
  /\ tod.s \in Nat /\ tod.s < 100 /\ tod.us \in Nat /\ tod.us < Million

\* What a date and a time of day are read as.
NumbersOf(x, tod) == <<x.y, x.m, x.d, tod.h, tod.m, tod.s, tod.us>>

ReadsAs(r, x, tod) == r.ok /\ r.got = NumbersOf(x, tod)

\* The digits of the numbers of a date and a time of day.
AreDigitsOf(y, m, d, h, i, s, f, x, tod) ==
  /\ Digits(y, m, d, h, i, s, f)
  /\ Value(y) = x.y /\ Value(m) = x.m /\ Value(d) = x.d
  /\ Value(h) = tod.h /\ Value(i) = tod.m /\ Value(s) = tod.s /\ Value(f) = tod.us

\* Numbers that fit have their digits in the texts.
LEMMA FieldsWritten ==
  ASSUME NEW x, NEW tod, FieldsFit(x, tod)
  PROVE  AreDigitsOf(Padded(Number(x.y), 4), Padded(Number(x.m), 2), Padded(Number(x.d), 2),
                     Padded(Number(tod.h), 2), Padded(Number(tod.m), 2), Padded(Number(tod.s), 2),
                     Padded(Number(tod.us), 6), x, tod)
<1>1. \A n \in Nat : n < 100 => Numeral(Padded(Number(n), 2), 2, n)
  BY TwoDigits
<1>2. Numeral(Padded(Number(x.y), 4), 4, x.y)
  <2>1. x.y \in Nat /\ x.y < 10000
    BY SMT DEF FieldsFit
  <2> QED BY SMT, <2>1, FourDigitsOf
<1>3. \A n \in Nat : n < Million => Numeral(Padded(Number(n), 6), 6, n)
  BY SMT, SixDigits DEF Million
<1>4. /\ Numeral(Padded(Number(x.y), 4), 4, x.y) /\ Numeral(Padded(Number(x.m), 2), 2, x.m)
      /\ Numeral(Padded(Number(x.d), 2), 2, x.d) /\ Numeral(Padded(Number(tod.h), 2), 2, tod.h)
      /\ Numeral(Padded(Number(tod.m), 2), 2, tod.m) /\ Numeral(Padded(Number(tod.s), 2), 2, tod.s)
      /\ Numeral(Padded(Number(tod.us), 6), 6, tod.us)
  <2>1. /\ x.y \in Nat /\ x.m \in Nat /\ x.d \in Nat
        /\ tod.h \in Nat /\ tod.m \in Nat /\ tod.s \in Nat /\ tod.us \in Nat
    BY SMT DEF FieldsFit
  <2>2. /\ x.m < 100 /\ x.d < 100
        /\ tod.h < 100 /\ tod.m < 100 /\ tod.s < 100 /\ tod.us < Million
    BY SMT DEF FieldsFit
  <2> QED BY Zenon, <1>1, <1>2, <1>3, <2>1, <2>2
<1> QED BY Zenon, <1>4 DEF AreDigitsOf, Digits, Numeral

\* The text to_iso8601_str writes is read back as it was written, and so is what a column
\* gives back of it; what ends before the seconds is not read.
LEMMA TextReturns ==
  ASSUME NEW x, NEW tod, FieldsFit(x, tod)
  PROVE  LET t == PutF(x) \o <<Blank>> \o PutTime(tod, 6)
         IN  /\ ReadsAs(ReadFields(t), x, tod)
             /\ ReadsAs(ReadFields(Column(t)), x, tod)
             /\ \A n \in 0 .. 17 : ~ReadFields(SubSeq(t, 1, n)).ok
<1> DEFINE t == PutF(x) \o <<Blank>> \o PutTime(tod, 6)
<1>1. PICK y, m, d, h, i, s, f :
        /\ AreDigitsOf(y, m, d, h, i, s, f, x, tod)
        /\ t = TextOf(y, m, d, h, i, s, f)
  <2>1. x.y \in Nat /\ 6 > 0
    BY SMT DEF FieldsFit
  <2>2. Signed(x.y) = Number(x.y)
    BY <2>1 DEF Signed
  <2>3. t = TextOf(Padded(Number(x.y), 4), Padded(Number(x.m), 2), Padded(Number(x.d), 2),
                   Padded(Number(tod.h), 2), Padded(Number(tod.m), 2), Padded(Number(tod.s), 2),
                   Padded(Number(tod.us), 6))
    BY Zenon, <2>1, <2>2 DEF PutF, PutTime, PutSeconds, TextOf
  <2> HIDE DEF t
  <2>4. AreDigitsOf(Padded(Number(x.y), 4), Padded(Number(x.m), 2), Padded(Number(x.d), 2),
                    Padded(Number(tod.h), 2), Padded(Number(tod.m), 2), Padded(Number(tod.s), 2),
                    Padded(Number(tod.us), 6), x, tod)
    BY Zenon, FieldsWritten
  <2> QED BY Zenon, <2>3, <2>4
<1> HIDE DEF t
<1>2. /\ Digits(y, m, d, h, i, s, f) /\ Parts(y, m, d, h, i, s, f)
      /\ Value(f) \in Nat /\ Value(f) < Million
  <2>1. Digits(y, m, d, h, i, s, f) /\ Value(f) = tod.us
    BY Zenon, <1>1 DEF AreDigitsOf
  <2>2. Parts(y, m, d, h, i, s, f)
    BY Zenon, <2>1, DigitsParts
  <2>3. tod.us \in Nat /\ tod.us < Million
    BY SMT DEF FieldsFit
  <2> QED BY Zenon, <2>1, <2>2, <2>3
<1>3. t \in Seq(Int) /\ Len(t) = 26 /\ DateShown(t, y, m, d) /\ TimeShown(t, h, i, s, f)
  BY Zenon, <1>1, <1>2, TextLaidOut
<1>4. EndsIn(t, 17, s, f, 6)
  BY Zenon, <1>2, <1>3, WholeEnds
<1>5. /\ Column(t) \in Seq(Int) /\ DateShown(Column(t), y, m, d) /\ TimeShown(Column(t), h, i, s, f)
      /\ \E e : EndsIn(Column(t), 17, s, f, e)
  BY Zenon, <1>2, <1>3, ColumnEnds
<1>6. ASSUME NEW u, u \in Seq(Int), DateShown(u, y, m, d), TimeShown(u, h, i, s, f),
             NEW e, EndsIn(u, 17, s, f, e)
      PROVE  ReadsAs(ReadFields(u), x, tod)
  <2>1. /\ ReadFields(u).ok
        /\ ReadFields(u).got
             = <<Value(y), Value(m), Value(d), Value(h), Value(i), Value(s), Value(f)>>
    BY Zenon, <1>2, <1>6, TextRead
  <2> QED BY Zenon, <1>1, <2>1 DEF ReadsAs, NumbersOf, AreDigitsOf
<1>7. ASSUME NEW n \in 0 .. 17 PROVE ~ReadFields(SubSeq(t, 1, n)).ok
  <2> DEFINE u == SubSeq(t, 1, n)
  <2>1. n \in 0 .. Len(t)
    BY <1>3
  <2>2. u \in Seq(Int) /\ Len(u) = n /\ DateShown(u, y, m, d) /\ TimeShown(u, h, i, s, f)
    BY Zenon, <1>2, <1>3, <2>1, PartsCut
  <2> HIDE DEF u
  <2>3. Len(u) <= 17
    BY <2>2
  <2>4. ~ReadFields(u).ok
    BY Zenon, <1>2, <2>2, <2>3, ShortTextRefused
  <2> QED BY Zenon, <2>4 DEF u
<1>8. ReadsAs(ReadFields(t), x, tod) /\ ReadsAs(ReadFields(Column(t)), x, tod)
  BY Zenon, <1>3, <1>4, <1>5, <1>6
<1> QED BY Zenon, <1>7, <1>8 DEF t

\* A date the class holds as it is, and a time of day.
Held(x, tod) ==
  /\ YearMonthDay(x.y, x.m, x.d) = x
  /\ tod = [h |-> tod.h, m |-> tod.m, s |-> tod.s, us |-> tod.us]

\* What from_stream makes of the numbers it read.
Points(x, tod) ==
  IF YearMonthDayOk(x) /\ InConventionalRange(tod) THEN {TimePoint(x, tod)} ELSE {}

\* A text read as a date and a time of day is their time point if both exist.
LEMMA StreamReads ==
  ASSUME NEW t, NEW x, NEW tod, ReadsAs(ReadFields(t), x, tod), Held(x, tod)
  PROVE  FromStream(t) = Points(x, tod)
<1> DEFINE r == ReadFields(t)
           P(q) == q.ok /\ YearMonthDayOk(DateRead(q)) /\ InConventionalRange(TimeRead(q))
<1>1. r.ok /\ r.got = NumbersOf(x, tod)
  BY DEF ReadsAs
<1>2. FromStream(t) = {TimePoint(DateRead(q), TimeRead(q)) : q \in {z \in {r} : P(z)}}
  BY Zenon DEF FromStream
<1> HIDE DEF r
<1>3. DateRead(r) = x /\ TimeRead(r) = tod
  <2>1. /\ r.got[1] = x.y /\ r.got[2] = x.m /\ r.got[3] = x.d /\ r.got[4] = tod.h
        /\ r.got[5] = tod.m /\ r.got[6] = tod.s /\ r.got[7] = tod.us
    BY <1>1 DEF NumbersOf
  <2> QED BY Zenon, <2>1 DEF DateRead, TimeRead, Held
<1>4. P(r) <=> YearMonthDayOk(x) /\ InConventionalRange(tod)
  BY Zenon, <1>1, <1>3
<1> HIDE DEF P
<1>5. {TimePoint(DateRead(q), TimeRead(q)) : q \in {z \in {r} : P(z)}}
        = IF P(r) THEN {TimePoint(DateRead(r), TimeRead(r))} ELSE {}
  OBVIOUS
<1> QED BY Zenon, <1>2, <1>3, <1>4, <1>5 DEF Points

\* A text that is not read is no time point.
LEMMA StreamRefuses ==
  ASSUME NEW t, ~ReadFields(t).ok
  PROVE  FromStream(t) = {}
BY Zenon DEF FromStream

\* The text of a date and a time of day leads back to their time point, through a column of
\* the database too, if both exist, and to none if one does not or the seconds are missing.
LEMMA StreamReturns ==
  ASSUME NEW x, NEW tod, FieldsFit(x, tod), Held(x, tod)
  PROVE  LET t == PutF(x) \o <<Blank>> \o PutTime(tod, 6)
         IN  /\ from_iso8601_str(t) = Points(x, tod)
             /\ from_iso8601_str(Column(t)) = Points(x, tod)
             /\ \A n \in 0 .. 17 : from_iso8601_str(SubSeq(t, 1, n)) = {}
<1> DEFINE t == PutF(x) \o <<Blank>> \o PutTime(tod, 6)
<1>1. /\ ReadsAs(ReadFields(t), x, tod)
      /\ ReadsAs(ReadFields(Column(t)), x, tod)
      /\ \A n \in 0 .. 17 : ~ReadFields(SubSeq(t, 1, n)).ok
  BY Zenon, TextReturns
<1> HIDE DEF t
<1> QED BY Zenon, <1>1, StreamReads, StreamRefuses DEF from_iso8601_str, t

-----------------------------------------------------------------------------
(* Timestamps and their fields *)

\* The hour, minute and second of a second of the day, which they name.
LEMMA HoursAre ==
  ASSUME NEW n \in Int, 0 <= n, n < 86400
  PROVE  LET h == n \div 3600
             m == (n \div 60) % 60
             s == n % 60
         IN  /\ h \in Int /\ 0 <= h /\ h < 24 /\ m \in Int /\ 0 <= m /\ m < 60
             /\ s \in Int /\ 0 <= s /\ s < 60 /\ (h * 60 + m) * 60 + s = n
<1> DEFINE h == n \div 3600
           q == n \div 60
           m == q % 60
           s == n % 60
           k == q \div 60
<1>1. q \in Int /\ s \in Int /\ n = 60 * q + s /\ 0 <= s /\ s < 60
  OBVIOUS
<1>2. h \in Int /\ 3600 * h <= n /\ n < 3600 * h + 3600
  OBVIOUS
<1> HIDE DEF q, s, h
<1>3. k \in Int /\ m \in Int /\ q = 60 * k + m /\ 0 <= m /\ m < 60
  BY <1>1
<1> HIDE DEF k, m
<1>4. h = k /\ 0 <= h /\ h < 24
  BY <1>1, <1>2, <1>3
<1>5. (h * 60 + m) * 60 + s = n
  BY <1>1, <1>3, <1>4
<1> QED BY <1>1, <1>2, <1>3, <1>4, <1>5 DEF q, s, h, m

\* to_stream undoes the rounding of its cast: the fields are those of the time point's day
\* and time of day, before 1970 too.
LEMMA FieldsAre ==
  ASSUME NEW day \in Int, NEW s \in Int, NEW us
  PROVE  Fields([day |-> day, s |-> s, us |-> us])
           = [ymd |-> FromDays(day), tod |-> HhMmSs([s |-> s, us |-> us])]
<1> DEFINE ts == [day |-> day, s |-> s, us |-> us]
           sd == CastDays(ts)
           back == IF sd <= day THEN sd ELSE sd - 1
<1>1. ts.day = day /\ ts.s = s /\ ts.us = us
  OBVIOUS
<1> HIDE DEF ts
<1>2. sd \in {day, day + 1}
  BY <1>1 DEF CastDays
<1> HIDE DEF sd
<1>3. back = day
  BY <1>2
<1> DEFINE Since(b) == (day - b) * 86400 + s
<1>4. Since(day) = s
  OBVIOUS
<1>5. Fields(ts) = [ymd |-> FromDays(back), tod |-> HhMmSs([s |-> Since(back), us |-> us])]
  BY SMT, <1>1 DEF Fields, sd
<1> HIDE DEF back, Since
<1> QED BY Zenon, <1>3, <1>4, <1>5 DEF ts

\* A year of four digits, and a time of day a timestamp can have.
FourDigitYear(y) == y \in Int /\ 0 <= y /\ y < 10000

TimeOfDay(s, us) == s \in Int /\ 0 <= s /\ s < 86400 /\ us \in Int /\ 0 <= us /\ us < Million

\* The fields of a date and a time of day fit their digits, and are held as they are.
LEMMA FieldsHeld ==
  ASSUME NEW x, RealDate(x), FourDigitYear(x.y), NEW s, NEW us, TimeOfDay(s, us)
  PROVE  LET tod == HhMmSs([s |-> s, us |-> us])
         IN  /\ FieldsFit(x, tod) /\ Held(x, tod)
             /\ YearMonthDayOk(x) /\ InConventionalRange(tod)
             /\ (tod.h * 60 + tod.m) * 60 + tod.s = s /\ tod.us = us
<1> DEFINE tod == HhMmSs([s |-> s, us |-> us])
<1>1. tod = [h |-> s \div 3600, m |-> (s \div 60) % 60, s |-> s % 60, us |-> us]
  BY DEF HhMmSs
<1>2. /\ x = [y |-> x.y, m |-> x.m, d |-> x.d]
      /\ x.m \in Int /\ 1 <= x.m /\ x.m <= 12 /\ x.d \in Int /\ 1 <= x.d /\ x.d <= 31
  BY LengthRange DEF RealDate
<1>3. x.y \in Int /\ 0 <= x.y /\ x.y < 10000 /\ Short(x.y) /\ x.y # -32768
  BY DEF FourDigitYear, Short
<1>4. YearMonthDay(x.y, x.m, x.d) = x
  <2>1. Year(x.y) = x.y /\ Month(x.m) = x.m /\ Day(x.d) = x.d
    BY <1>2, <1>3, YearKept, Narrowed
  <2> QED BY Zenon, <1>2, <2>1 DEF YearMonthDay
<1>5. YearMonthDayOk(x)
  <2>1. x.d \in 0 .. 32 /\ x.d \in 1 .. LengthOf(x.y, x.m)
    BY <1>2 DEF RealDate
  <2>2. YearMonthDayOk(YearMonthDay(x.y, x.m, x.d)) <=> x.d \in 1 .. LengthOf(x.y, x.m)
    BY SMT, <1>3, <2>1, MonthsEndRight
  <2> QED BY Zenon, <1>4, <2>1, <2>2
<1> DEFINE h == s \div 3600
           m == (s \div 60) % 60
           c == s % 60
<1>6. /\ h \in Int /\ 0 <= h /\ h < 24 /\ m \in Int /\ 0 <= m /\ m < 60
      /\ c \in Int /\ 0 <= c /\ c < 60 /\ (h * 60 + m) * 60 + c = s
  <2>1. s \in Int /\ 0 <= s /\ s < 86400
    BY DEF TimeOfDay
  <2> QED BY <2>1, HoursAre
<1>7. tod = [h |-> h, m |-> m, s |-> c, us |-> us]
  BY <1>1
<1> HIDE DEF h, m, c, tod
<1>8. tod.h = h /\ tod.m = m /\ tod.s = c /\ tod.us = us
  BY Zenon, <1>7
<1>9. Held(x, tod)
  BY Zenon, <1>4, <1>7, <1>8 DEF Held
<1>10. FieldsFit(x, tod)
  <2>1. us \in Nat /\ us < Million
    BY SMT DEF TimeOfDay
  <2> QED BY SMT, <1>2, <1>3, <1>6, <1>8, <2>1 DEF FieldsFit
<1>11. InConventionalRange(tod)
  <2>1. us < 1000000
    BY SMT DEF TimeOfDay, Million
  <2> QED BY SMT, <1>6, <1>8, <2>1 DEF InConventionalRange
<1> QED BY Zenon, <1>5, <1>6, <1>8, <1>9, <1>10, <1>11 DEF tod

\* A timestamp of a year of four digits that is written is read again as itself, and so is
\* one that went through a column of the database.
LEMMA TimestampReturns ==
  ASSUME NEW x, RealDate(x), FourDigitYear(x.y), NEW s, NEW us, TimeOfDay(s, us)
  PROVE  LET ts == [day |-> DayCount(x), s |-> s, us |-> us]
         IN  /\ from_iso8601_str(to_iso8601_str(ts)) = {ts}
             /\ from_iso8601_str(Column(to_iso8601_str(ts))) = {ts}
<1> DEFINE ts == [day |-> DayCount(x), s |-> s, us |-> us]
           tod == HhMmSs([s |-> s, us |-> us])
           text == PutF(x) \o <<Blank>> \o PutTime(tod, 6)
<1>1. Fields(ts) = [ymd |-> x, tod |-> tod]
  <2>1. DayCount(x) \in Int /\ s \in Int
    BY InYear DEF TimeOfDay
  <2>2. Short(x.y)
    BY DEF FourDigitYear, Short
  <2>3. FromDays(DayCount(x)) = x
    BY Zenon, <2>2, FromDaysReturns
  <2> DEFINE n == DayCount(x)
  <2> HIDE DEF n
  <2>4. Fields([day |-> n, s |-> s, us |-> us]) = [ymd |-> FromDays(n), tod |-> tod]
    <3>1. n \in Int /\ s \in Int
      BY <2>1 DEF n
    <3> QED BY Zenon, <3>1, FieldsAre
  <2> QED BY Zenon, <2>3, <2>4 DEF n
<1>2. /\ FieldsFit(x, tod) /\ Held(x, tod) /\ YearMonthDayOk(x) /\ InConventionalRange(tod)
      /\ (tod.h * 60 + tod.m) * 60 + tod.s = s /\ tod.us = us
  BY Zenon, FieldsHeld
<1>3. TimePoint(x, tod) = ts
  <2>1. ToDays(x) = DayCount(x)
    BY ToDaysCounts DEF RealDate
  <2> QED BY Zenon, <1>2, <2>1 DEF TimePoint
<1> HIDE DEF ts, tod
<1>4. to_iso8601_str(ts) = text
  <2>1. Fields(ts).ymd = x /\ Fields(ts).tod = tod
    BY <1>1
  <2> QED BY Zenon, <2>1 DEF to_iso8601_str
<1>5. from_iso8601_str(text) = Points(x, tod) /\ from_iso8601_str(Column(text)) = Points(x, tod)
  BY Zenon, <1>2, StreamReturns
<1>6. Points(x, tod) = {ts}
  BY Zenon, <1>2, <1>3 DEF Points
<1> HIDE DEF text
<1> QED BY Zenon, <1>4, <1>5, <1>6 DEF ts

-----------------------------------------------------------------------------
(* HTTP dates *)

\* The fraction an HTTP date leaves out is six zeros.
LEMMA NoFraction ==
  LET f == Padded(Number(0), 6) IN \A k \in 1 .. 6 : f[k] = 0
<1> DEFINE z == [i \in 1 .. 5 |-> 0]
           s == <<0>>
           f == Padded(Number(0), 6)
<1>1. Number(0) = s
  BY NumberUnfolds
<1>2. Len(s) = 1 /\ s \in Seq(Int) /\ s[1] = 0 /\ z \in Seq(Int) /\ Len(z) = 5
      /\ \A i \in 1 .. 5 : z[i] = 0
  OBVIOUS
<1>3. f = z \o s
  <2> DEFINE P(n) == [i \in 1 .. n |-> 0] \o s
  <2>1. f = P(6 - Len(s))
    BY Zenon, <1>1 DEF Padded
  <2>2. 6 - Len(s) = 5
    BY <1>2
  <2> HIDE DEF P
  <2>3. f = P(5)
    BY Zenon, <2>1, <2>2
  <2> QED BY Zenon, <2>3 DEF P
<1> HIDE DEF s, z, f
<1>4. \A i \in 1 .. Len(z) + Len(s) : f[i] = IF i <= Len(z) THEN z[i] ELSE s[i - Len(z)]
  BY Zenon, <1>2, <1>3, ConcatProperties
<1>5. \A k \in 1 .. 6 : f[k] = 0
  BY <1>2, <1>4
<1> QED BY Zenon, <1>5 DEF f

\* The text to_http_ts_str writes after the name of the day.
HttpText(x, tod) ==
  Padded(Number(x.d), 2) \o <<Dash>> \o Padded(Number(x.m), 2) \o <<Dash>> \o PutY(x.y)
    \o <<Blank>> \o Padded(Number(tod.h), 2) \o <<Colon>> \o Padded(Number(tod.m), 2)
    \o <<Colon>> \o PutSeconds(tod, 0)

\* Its parts, with a year of four digits.
LEMMA HttpTextIs ==
  ASSUME NEW x, NEW tod, FieldsFit(x, tod)
  PROVE  HttpText(x, tod)
           = HttpOf(Padded(Number(x.y), 4), Padded(Number(x.m), 2), Padded(Number(x.d), 2),
                    Padded(Number(tod.h), 2), Padded(Number(tod.m), 2), Padded(Number(tod.s), 2))
<1>1. x.y \in Nat /\ ~(x.y < 0)
  BY SMT DEF FieldsFit
<1>2. PutY(x.y) = Padded(Number(x.y), 4)
  BY Zenon, <1>1 DEF PutY
<1> DEFINE s == Padded(Number(tod.s), 2)
<1>3. s \in Seq(Int)
  <2>1. s \in Seq(Digit)
    BY Zenon, FieldsWritten DEF AreDigitsOf, Digits
  <2> HIDE DEF s
  <2> QED BY Zenon, <2>1, DigitsInt
<1>4. PutSeconds(tod, 0) = s
  <2>1. ~(0 > 0)
    OBVIOUS
  <2>2. PutSeconds(tod, 0) = s \o <<>>
    BY Zenon, <2>1 DEF PutSeconds
  <2> HIDE DEF s
  <2>3. s \o <<>> = s
    BY Zenon, <1>3, ConcatEmptySeq
  <2> QED BY Zenon, <2>2, <2>3
<1> HIDE DEF s
<1> QED BY Zenon, <1>2, <1>4 DEF HttpText, HttpOf, s

\* An HTTP date reads back as the numbers it was written from.
LEMMA HttpTextReturns ==
  ASSUME NEW x, NEW tod, FieldsFit(x, tod), tod.us = 0
  PROVE  FoldLeft(Read, Reader(HttpText(x, tod)), HttpFormat).got
           = <<x.d, x.m, x.y, tod.h, tod.m, tod.s, 0>>
<1> DEFINE t == HttpText(x, tod)
<1>1. PICK y, m, d, h, i, s, f :
        /\ AreDigitsOf(y, m, d, h, i, s, f, x, tod)
        /\ t = HttpOf(y, m, d, h, i, s)
        /\ f = Padded(Number(tod.us), 6)
  <2>1. t = HttpOf(Padded(Number(x.y), 4), Padded(Number(x.m), 2), Padded(Number(x.d), 2),
                   Padded(Number(tod.h), 2), Padded(Number(tod.m), 2), Padded(Number(tod.s), 2))
    BY Zenon, HttpTextIs
  <2> HIDE DEF t
  <2>2. AreDigitsOf(Padded(Number(x.y), 4), Padded(Number(x.m), 2), Padded(Number(x.d), 2),
                    Padded(Number(tod.h), 2), Padded(Number(tod.m), 2), Padded(Number(tod.s), 2),
                    Padded(Number(tod.us), 6), x, tod)
    BY Zenon, FieldsWritten
  <2> QED BY Zenon, <2>1, <2>2
<1> HIDE DEF t
<1>2. /\ Digits(y, m, d, h, i, s, f) /\ Parts(y, m, d, h, i, s, f)
      /\ Value(f) \in Nat /\ Value(f) < Million
  <2>1. Digits(y, m, d, h, i, s, f) /\ Value(f) = tod.us
    BY Zenon, <1>1 DEF AreDigitsOf
  <2>2. Parts(y, m, d, h, i, s, f)
    BY Zenon, <2>1, DigitsParts
  <2>3. tod.us \in Nat /\ tod.us < Million
    BY SMT DEF FieldsFit
  <2> QED BY Zenon, <2>1, <2>2, <2>3
<1>3. t \in Seq(Int) /\ Len(t) = 19 /\ HttpDateShown(t, d, m, y) /\ TimeShown(t, h, i, s, f)
  BY Zenon, <1>1, <1>2, HttpLaidOut
<1>4. \A k \in 1 .. 6 : f[k] = 0
  BY Zenon, <1>1, NoFraction
<1>5. EndsIn(t, 17, s, f, 0)
  BY Zenon, <1>2, <1>3, <1>4, SecondEnds
<1>6. FoldLeft(Read, Reader(t), HttpFormat).got
        = <<Value(d), Value(m), Value(y), Value(h), Value(i), Value(s), Value(f)>>
  <2>1. /\ t \in Seq(Int) /\ Digits(y, m, d, h, i, s, f) /\ HttpDateShown(t, d, m, y)
        /\ TimeShown(t, h, i, s, f) /\ EndsIn(t, 17, s, f, 0) /\ Value(f) \in Nat /\ Value(f) < Million
    BY Zenon, <1>2, <1>3, <1>5
  <2> QED BY SMT, <2>1, HttpRead
<1> QED BY Zenon, <1>1, <1>6 DEF t, AreDigitsOf

\* to_http_ts_str from 1970 on: the day's weekday, its date and its second.
LEMMA HttpWritten ==
  ASSUME NEW day \in Int, 0 <= day, NEW s, NEW us, TimeOfDay(s, us)
  PROVE  LET http == to_http_ts_str([day |-> day, s |-> s, us |-> us])
         IN  /\ http.weekday = WeekdayName(YearWeeknumWeekdayFromDays(day).wd)
             /\ http.text = HttpText(FromDays(day), HhMmSs([s |-> s, us |-> 0]))
<1> DEFINE ts == [day |-> day, s |-> s, us |-> us]
           f == Fields(CastSeconds(ts))
           tod == HhMmSs([s |-> s, us |-> 0])
<1>0. s \in Int /\ 0 <= s /\ s < 86400
  BY DEF TimeOfDay
<1>1. ts.day = day /\ ts.s = s /\ ts.us = us /\ ~(day < 0) /\ s \in Int
  BY <1>0
<1> HIDE DEF ts
<1>2. CastDays(ts) = day
  BY Zenon, <1>1 DEF CastDays
<1>3. CastSeconds(ts) = [day |-> day, s |-> s, us |-> 0]
  <2>1. day + (s \div 86400) = day /\ s % 86400 = s
    BY SMT, <1>0
  <2> QED BY SMT, <1>1, <2>1 DEF CastSeconds
<1>4. f = [ymd |-> FromDays(day), tod |-> tod]
  <2>0. day \in Int /\ s \in Int
    BY <1>1
  <2> HIDE DEF tod
  <2>1. Fields([day |-> day, s |-> s, us |-> 0])
          = [ymd |-> FromDays(day), tod |-> HhMmSs([s |-> s, us |-> 0])]
    BY Zenon, <2>0, FieldsAre
  <2> QED BY Zenon, <1>3, <2>1 DEF tod
<1> HIDE DEF f, tod
<1>5. f.ymd = FromDays(day) /\ f.tod = tod
  BY Zenon, <1>4
<1> DEFINE http == to_http_ts_str(ts)
<1>6. http = [weekday |-> WeekdayName(YearWeeknumWeekdayFromDays(day).wd),
              text |-> HttpText(FromDays(day), tod)]
  BY Zenon, <1>2, <1>5 DEF to_http_ts_str, f, HttpText, PutDay, PutMonth, PutYear, PutHour,
                           PutMinute, PutSecond
<1> HIDE DEF http
<1>7. /\ http.weekday = WeekdayName(YearWeeknumWeekdayFromDays(day).wd)
      /\ http.text = HttpText(FromDays(day), tod)
  BY Zenon, <1>6
<1> QED BY Zenon, <1>7 DEF http, ts, tod

-----------------------------------------------------------------------------
(* The timestamps of the days walked to *)

\* The clocks are times of day.
LEMMA ClockIs ==
  ASSUME NEW c \in Clocks
  PROVE  TimeOfDay(c.s, c.us)
BY SMT, ClocksAssumption DEF TimeOfDay, Million

\* From 1970 on a day's year is one of ours.
LEMMA YearSince1970 ==
  ASSUME NEW x, RealDate(x), 0 <= DayCount(x)
  PROVE  x.y \in Int /\ 1970 <= x.y
<1>1. x.y \in Int /\ DayCount(x) \in Int /\ DayCount(x) < YearStart(x.y + 1)
  BY InYear
<1>2. \A y \in Int : y <= 1970 => YearStart(y) <= 0
  BY SMT DEF YearStart
<1>3. ASSUME x.y < 1970 PROVE FALSE
  <2>1. x.y + 1 \in Int /\ x.y + 1 <= 1970
    BY <1>1, <1>3
  <2>2. YearStart(x.y + 1) <= 0 /\ YearStart(x.y + 1) \in Int
    BY <1>2, <2>1, YearInt
  <2> QED BY <1>1, <2>2
<1> QED BY <1>1, <1>3

\* The timestamps of the walks are read back as they were written.
LEMMA HereReturns ==
  ASSUME WalkInv, FourDigits, NEW c \in Clocks
  PROVE  /\ from_iso8601_str(to_iso8601_str(Here(c))) = {Here(c)}
         /\ from_iso8601_str(Column(to_iso8601_str(Here(c)))) = {Here(c)}
<1>1. RealDate(date) /\ serial = DayCount(date) /\ date.y \in Int
  BY Today DEF RealDate
<1>2. FourDigitYear(date.y)
  BY SMT, <1>1 DEF FourDigits, FourDigitYear
<1>3. TimeOfDay(c.s, c.us)
  BY ClockIs
<1>4. Here(c) = [day |-> DayCount(date), s |-> c.s, us |-> c.us]
  BY Zenon, <1>1 DEF Here
<1> DEFINE ts == [day |-> DayCount(date), s |-> c.s, us |-> c.us]
<1>5. /\ from_iso8601_str(to_iso8601_str(ts)) = {ts}
      /\ from_iso8601_str(Column(to_iso8601_str(ts))) = {ts}
  BY Zenon, <1>1, <1>2, <1>3, TimestampReturns
<1> QED BY Zenon, <1>4, <1>5

\* The HTTP dates of the walks name their day, and are read back as their second.
LEMMA HttpHolds == WalkInv => HttpDates
<1> SUFFICES ASSUME WalkInv, serial >= 0, NEW c \in Clocks
             PROVE  LET http == to_http_ts_str(Here(c))
                    IN  /\ http.weekday = WeekdayName(IsoEncoding(wday))
                        /\ date.y <= 9999 =>
                             FoldLeft(Read, Reader(http.text), HttpFormat).got
                               = <<date.d, date.m, date.y, c.s \div 3600, (c.s \div 60) % 60, c.s % 60, 0>>
  BY SMT DEF HttpDates, HttpFormat
<1> DEFINE http == to_http_ts_str(Here(c))
           tod == HhMmSs([s |-> c.s, us |-> 0])
<1>1. RealDate(date) /\ serial = DayCount(date) /\ serial \in Int /\ Wide(date.y)
  BY Today
<1>2. TimeOfDay(c.s, c.us) /\ TimeOfDay(c.s, 0)
  <2>1. TimeOfDay(c.s, c.us)
    BY ClockIs
  <2> QED BY SMT, <2>1 DEF TimeOfDay, Million
<1>3. FromDays(serial) = date
  <2>1. Short(date.y)
    BY SMT, <1>1, WideShort
  <2>2. FromDays(DayCount(date)) = date
    BY Zenon, <1>1, <2>1, FromDaysReturns
  <2> QED BY Zenon, <1>1, <2>2
<1>4. /\ http.weekday = WeekdayName(YearWeeknumWeekdayFromDays(serial).wd)
      /\ http.text = HttpText(date, tod)
  <2>1. 0 <= serial
    BY <1>1
  <2>2. LET h == to_http_ts_str([day |-> serial, s |-> c.s, us |-> c.us])
        IN  /\ h.weekday = WeekdayName(YearWeeknumWeekdayFromDays(serial).wd)
            /\ h.text = HttpText(FromDays(serial), HhMmSs([s |-> c.s, us |-> 0]))
    BY ZenonT(40), <1>1, <1>2, <2>1, HttpWritten
  <2> QED BY ZenonT(40), <1>3, <2>2 DEF Here
<1>5. http.weekday = WeekdayName(IsoEncoding(wday))
  <2>1. YearWeeknumWeekdayFromDays(serial).wd = IsoEncoding(wday)
    BY Zenon, ThursdayIs
  <2> QED BY Zenon, <1>4, <2>1
<1>6. ASSUME date.y <= 9999
      PROVE  FoldLeft(Read, Reader(http.text), HttpFormat).got
               = <<date.d, date.m, date.y, c.s \div 3600, (c.s \div 60) % 60, c.s % 60, 0>>
  <2>1. FourDigitYear(date.y)
    <3>1. date.y \in Int /\ 1970 <= date.y
      BY <1>1, YearSince1970
    <3> QED BY SMT, <1>6, <3>1 DEF FourDigitYear
  <2>2. FieldsFit(date, tod) /\ tod.us = 0
    BY Zenon, <1>1, <1>2, <2>1, FieldsHeld
  <2>3. tod = [h |-> c.s \div 3600, m |-> (c.s \div 60) % 60, s |-> c.s % 60, us |-> 0]
    BY DEF HhMmSs
  <2> DEFINE h == c.s \div 3600
             m == (c.s \div 60) % 60
             s == c.s % 60
  <2>4. tod.h = h /\ tod.m = m /\ tod.s = s
    BY <2>3
  <2> HIDE DEF tod, h, m, s
  <2>5. FoldLeft(Read, Reader(HttpText(date, tod)), HttpFormat).got
          = <<date.d, date.m, date.y, tod.h, tod.m, tod.s, 0>>
    BY Zenon, <2>2, HttpTextReturns
  <2>6. FoldLeft(Read, Reader(http.text), HttpFormat).got = <<date.d, date.m, date.y, h, m, s, 0>>
    BY Zenon, <1>4, <2>4, <2>5
  <2> QED BY <2>6 DEF h, m, s
<1> QED BY SMT, <1>5, <1>6

\* A timestamp written and read again is the same, through a column of the database too, and
\* an HTTP date names its day and second: on every day of every walk, for every time of day.
THEOREM TimestampsComeBack == Spec => []TimestampsReturn
<1>1. WalkInv => TimestampsReturn
  <2> SUFFICES ASSUME WalkInv PROVE TimestampsReturn
    OBVIOUS
  <2>1. HttpDates
    BY HttpHolds
  <2>2. ASSUME FourDigits, NEW c \in Clocks
        PROVE  /\ from_iso8601_str(to_iso8601_str(Here(c))) = {Here(c)}
               /\ from_iso8601_str(Column(to_iso8601_str(Here(c)))) = {Here(c)}
    BY <2>2, HereReturns
  <2> QED BY Zenon, <2>1, <2>2 DEF TimestampsReturn
<1> QED BY <1>1, WalkHolds, PTL

-----------------------------------------------------------------------------
(* Texts of what does not exist *)

\* Numbers two digits hold.
Two(n) == n \in Int /\ 0 <= n /\ n < 100

\* The text of any numbers is a time point exactly if they are a date and a time of day.
LEMMA TextAccepted ==
  ASSUME NEW y, FourDigitYear(y), NEW m, Two(m), NEW d, Two(d),
         NEW h, Two(h), NEW i, Two(i), NEW s, Two(s), NEW us \in Nat, us < Million
  PROVE  LET tod == [h |-> h, m |-> i, s |-> s, us |-> us]
         IN  /\ from_iso8601_str(Text(y, m, d, tod)) # {}
                  <=> YearMonthDayOk(YearMonthDay(y, m, d)) /\ h < 24 /\ i < 60 /\ s < 60
             /\ \A n \in 0 .. 17 : from_iso8601_str(SubSeq(Text(y, m, d, tod), 1, n)) = {}
<1> DEFINE x == [y |-> y, m |-> m, d |-> d]
           tod == [h |-> h, m |-> i, s |-> s, us |-> us]
<1>1. x.y = y /\ x.m = m /\ x.d = d /\ tod.h = h /\ tod.m = i /\ tod.s = s /\ tod.us = us
  OBVIOUS
<1>2. YearMonthDay(y, m, d) = x
  <2>1. Year(y) = y
    BY SMT, YearKept DEF FourDigitYear, Short
  <2>2. Month(m) = m /\ Day(d) = d
    BY SMT, Narrowed DEF Two
  <2> QED BY Zenon, <2>1, <2>2 DEF YearMonthDay
<1>3. tod = [h |-> tod.h, m |-> tod.m, s |-> tod.s, us |-> tod.us]
  OBVIOUS
<1>4. Text(y, m, d, tod) = PutF(x) \o <<Blank>> \o PutTime(tod, 6)
  BY Zenon DEF Text
<1> HIDE DEF x, tod
<1>5. Held(x, tod)
  BY Zenon, <1>1, <1>2, <1>3 DEF Held
<1>6. FieldsFit(x, tod)
  BY SMT, <1>1 DEF FieldsFit, FourDigitYear, Two
<1>7. InConventionalRange(tod) <=> h < 24 /\ i < 60 /\ s < 60
  BY SMT, <1>1 DEF InConventionalRange, Million
<1> DEFINE t == Text(y, m, d, tod)
<1>8. from_iso8601_str(t) = Points(x, tod) /\ \A n \in 0 .. 17 : from_iso8601_str(SubSeq(t, 1, n)) = {}
  BY Zenon, <1>4, <1>5, <1>6, StreamReturns
<1> HIDE DEF t
<1>9. Points(x, tod) # {} <=> YearMonthDayOk(x) /\ InConventionalRange(tod)
  BY DEF Points
<1>10. /\ from_iso8601_str(t) # {}
            <=> YearMonthDayOk(YearMonthDay(y, m, d)) /\ h < 24 /\ i < 60 /\ s < 60
       /\ \A n \in 0 .. 17 : from_iso8601_str(SubSeq(t, 1, n)) = {}
  BY Zenon, <1>2, <1>7, <1>8, <1>9
<1> QED BY Zenon, <1>10 DEF t, tod

\* Only the twelve months have a first.
LEMMA FirstsOk ==
  ASSUME NEW y, FourDigitYear(y), NEW m \in {0, 1, 12, 13}
  PROVE  YearMonthDayOk(YearMonthDay(y, m, 1)) <=> m \in 1 .. 12
<1>1. y \in Int /\ Short(y) /\ y # -32768
  BY SMT DEF FourDigitYear, Short
<1>2. CASE m \in 1 .. 12
  <2> DEFINE x == [y |-> y, m |-> m, d |-> 1]
  <2>1. x.y = y /\ x.m = m /\ x.d = 1 /\ m \in Int
    BY <1>2
  <2>2. LengthOf(y, m) \in Int /\ 28 <= LengthOf(y, m)
    <3>1. y \in Int /\ m \in Int
      BY <1>1, <2>1
    <3> QED BY Zenon, <3>1, LengthRange
  <2>3. RealDate(x)
    BY <1>1, <1>2, <2>2 DEF RealDate
  <2> HIDE DEF x
  <2>4. 1 \in 0 .. 32 /\ 1 \in 1 .. LengthOf(y, m)
    BY <2>2
  <2>5. YearMonthDayOk(YearMonthDay(x.y, x.m, 1)) <=> 1 \in 1 .. LengthOf(x.y, x.m)
    BY SMT, <1>1, <2>1, <2>3, <2>4, MonthsEndRight
  <2> QED BY <1>2, <2>1, <2>4, <2>5
<1>3. CASE m \notin 1 .. 12
  <2>1. Month(m) = m
    BY Narrowed
  <2>2. YearMonthDay(y, m, 1).m = m
    BY <2>1 DEF YearMonthDay
  <2>3. ~MonthOk(m)
    BY <1>3 DEF MonthOk
  <2> QED BY Zenon, <1>3, <2>2, <2>3 DEF YearMonthDayOk
<1> QED BY <1>2, <1>3

\* A text with a day, a month, an hour, a minute or a second that does not exist is refused,
\* on every day of every walk, and so is one that ends before its seconds.
THEOREM RealTimesOnly == Spec => []OnlyRealTimes
<1> DEFINE Tod(h, i, s, us) == [h |-> h, m |-> i, s |-> s, us |-> us]
           Accepted(m, d, h, i, s) == from_iso8601_str(Text(date.y, m, d, Tod(h, i, s, 5))) # {}
           text == Text(date.y, date.m, date.d, Tod(0, 0, 0, 0))
<1>1. ASSUME WalkInv, FourDigits
      PROVE  /\ \A d \in {0, 1, 28, 29, 30, 31, 32} :
                  Accepted(date.m, d, 0, 0, 0) <=> d \in 1 .. LengthOf(date.y, date.m)
             /\ \A m \in {0, 1, 12, 13} : Accepted(m, 1, 23, 59, 59) <=> m \in 1 .. 12
             /\ ~Accepted(date.m, date.d, 24, 0, 0)
             /\ ~Accepted(date.m, date.d, 0, 60, 0)
             /\ ~Accepted(date.m, date.d, 0, 0, 60)
             /\ \A n \in 0 .. 17 : from_iso8601_str(SubSeq(text, 1, n)) = {}
  <2>1. RealDate(date) /\ date.y \in Int /\ Short(date.y) /\ date.y # -32768
    BY SMT, <1>1, Today, WideShort
  <2>2. FourDigitYear(date.y)
    BY SMT, <1>1, <2>1 DEF FourDigits, FourDigitYear
  <2>3. Two(date.m) /\ Two(date.d)
    BY <2>1, LengthRange DEF RealDate, Two
  <2>4. 0 \in Nat /\ 5 \in Nat /\ 0 < Million /\ 5 < Million
    BY SMT DEF Million
  <2>5. ASSUME NEW m, Two(m), NEW d, Two(d), NEW h, Two(h), NEW i, Two(i), NEW s, Two(s)
        PROVE  Accepted(m, d, h, i, s)
                 <=> YearMonthDayOk(YearMonthDay(date.y, m, d)) /\ h < 24 /\ i < 60 /\ s < 60
    BY Zenon, <2>2, <2>4, <2>5, TextAccepted
  <2>6. \A n \in 0 .. 17 : from_iso8601_str(SubSeq(text, 1, n)) = {}
    <3>1. Two(0)
      BY DEF Two
    <3> QED BY Zenon, <2>2, <2>3, <2>4, <3>1, TextAccepted
  <2> HIDE DEF Accepted, text
  <2>7. Two(0) /\ Two(1) /\ Two(23) /\ Two(24) /\ Two(59) /\ Two(60)
    BY DEF Two
  <2>8. ASSUME NEW d \in {0, 1, 28, 29, 30, 31, 32}
        PROVE  Accepted(date.m, d, 0, 0, 0) <=> d \in 1 .. LengthOf(date.y, date.m)
    <3>1. Two(d) /\ d \in 0 .. 32 /\ 0 < 24 /\ 0 < 60
      BY DEF Two
    <3>2. YearMonthDayOk(YearMonthDay(date.y, date.m, d)) <=> d \in 1 .. LengthOf(date.y, date.m)
      BY SMT, <2>1, <3>1, MonthsEndRight
    <3>3. Accepted(date.m, d, 0, 0, 0)
            <=> YearMonthDayOk(YearMonthDay(date.y, date.m, d)) /\ 0 < 24 /\ 0 < 60 /\ 0 < 60
      BY Zenon, <2>3, <2>5, <2>7, <3>1
    <3> QED BY Zenon, <3>1, <3>2, <3>3
  <2>9. ASSUME NEW m \in {0, 1, 12, 13}
        PROVE  Accepted(m, 1, 23, 59, 59) <=> m \in 1 .. 12
    <3>1. Two(m) /\ 23 < 24 /\ 59 < 60
      BY DEF Two
    <3>2. YearMonthDayOk(YearMonthDay(date.y, m, 1)) <=> m \in 1 .. 12
      BY Zenon, <2>2, FirstsOk
    <3>3. Accepted(m, 1, 23, 59, 59)
            <=> YearMonthDayOk(YearMonthDay(date.y, m, 1)) /\ 23 < 24 /\ 59 < 60 /\ 59 < 60
      BY Zenon, <2>5, <2>7, <3>1
    <3> QED BY Zenon, <3>1, <3>2, <3>3
  <2>10. /\ ~Accepted(date.m, date.d, 24, 0, 0)
         /\ ~Accepted(date.m, date.d, 0, 60, 0)
         /\ ~Accepted(date.m, date.d, 0, 0, 60)
    <3>1. ~(24 < 24) /\ ~(60 < 60)
      OBVIOUS
    <3> QED BY Zenon, <2>3, <2>5, <2>7, <3>1
  <2> QED BY Zenon, <2>6, <2>8, <2>9, <2>10
<1>2. WalkInv => OnlyRealTimes
  <2> SUFFICES ASSUME WalkInv, FourDigits PROVE OnlyRealTimes
    BY Zenon DEF OnlyRealTimes
  <2> QED BY Zenon, <1>1 DEF OnlyRealTimes
<1> QED BY <1>2, WalkHolds, PTL

-----------------------------------------------------------------------------
(* The expiry of a token *)

\* Seconds carried into days.
LEMMA SecondsCarried ==
  ASSUME NEW day \in Int, NEW s \in Int, 0 <= s
  PROVE  LET t == Seconds(day, s)
         IN  /\ t = [day |-> t.day, s |-> t.s] /\ t.day \in Int /\ t.s \in Int
             /\ 0 <= t.s /\ t.s < 86400 /\ day <= t.day
             /\ s < 86400 => t.day = day /\ t.s = s
             /\ s >= 86400 => t.day > day
<1> DEFINE q == s \div 86400
           r == s % 86400
           t == Seconds(day, s)
<1>1. q \in Int /\ r \in Int /\ s = 86400 * q + r /\ 0 <= r /\ r < 86400
  OBVIOUS
<1>2. t = [day |-> day + q, s |-> r]
  BY SMT DEF Seconds
<1> HIDE DEF q, r, t
<1>3. t.day = day + q /\ t.s = r /\ t = [day |-> t.day, s |-> t.s]
  BY <1>2
<1>4. 0 <= q /\ (s < 86400 => q = 0 /\ r = s) /\ (s >= 86400 => q >= 1)
  BY SMT, <1>1
<1> QED BY SMT, <1>1, <1>3, <1>4 DEF t

\* Before the seconds no longer fit 32 bits, a year has four digits.
LEMMA YearOfSeconds ==
  ASSUME NEW x, RealDate(x), 0 <= DayCount(x), DayCount(x) <= 49710
  PROVE  FourDigitYear(x.y)
<1>1. x.y \in Int /\ 1970 <= x.y
  BY YearSince1970
<1>2. DayCount(x) \in Int /\ YearStart(x.y) <= DayCount(x) /\ YearStart(x.y) \in Int
  BY <1>1, InYear, YearInt
<1>3. \A y \in Int : y >= 10000 => YearStart(y) > 49710
  BY SMT DEF YearStart
<1>4. x.y < 10000
  BY SMT, <1>1, <1>2, <1>3
<1> QED BY SMT, <1>1, <1>4 DEF FourDigitYear

\* A moment from 1970 on.
Moment(t) ==
  /\ t = [day |-> t.day, s |-> t.s] /\ t.day \in Int /\ 0 <= t.day
  /\ t.s \in Int /\ 0 <= t.s /\ t.s < 86400

\* A moment that fits 32 bits is the timestamp it was made, and back.
LEMMA MomentKept ==
  ASSUME NEW due, Moment(due), SecondsBefore(due, Wrap)
  PROVE  LET ts == from_unix_time(Unsigned32(due))
         IN  /\ ts = from_unix_time(due)
             /\ from_iso8601_str(Column(to_iso8601_str(ts))) = {ts}
             /\ to_unix_time(ts) = due
<1> DEFINE ts == from_unix_time(due)
<1>1. Unsigned32(due) = due
  BY Zenon DEF Unsigned32
<1>2. ts = [day |-> due.day, s |-> due.s, us |-> 0]
  BY Zenon DEF from_unix_time
<1> HIDE DEF ts
<1>3. due.day <= 49710
  <2>1. Wrap.day = 49710 /\ Wrap.day \in Int
    BY SMT DEF Wrap
  <2>2. due.day < Wrap.day \/ (due.day = Wrap.day /\ due.s < Wrap.s)
    BY Zenon, Before2 DEF SecondsBefore
  <2>3. due.day \in Int
    BY SMT DEF Moment
  <2> QED BY SMT, <2>1, <2>2, <2>3
<1>4. PICK x : RealDate(x) /\ DayCount(x) = due.day
  <2>1. due.day \in Int
    BY SMT DEF Moment
  <2> QED BY Zenon, <2>1, DateOn
<1>5. FourDigitYear(x.y)
  BY SMT, <1>3, <1>4, YearOfSeconds DEF Moment
<1>6. TimeOfDay(due.s, 0)
  BY SMT DEF TimeOfDay, Million, Moment
<1>7. from_iso8601_str(Column(to_iso8601_str(ts))) = {ts}
  <2> DEFINE u == [day |-> DayCount(x), s |-> due.s, us |-> 0]
  <2>1. /\ from_iso8601_str(to_iso8601_str(u)) = {u}
        /\ from_iso8601_str(Column(to_iso8601_str(u))) = {u}
    BY Zenon, <1>4, <1>5, <1>6, TimestampReturns
  <2>2. u = ts
    BY Zenon, <1>2, <1>4
  <2> QED BY Zenon, <2>1, <2>2
<1>8. to_unix_time(ts) = due
  <2>1. ts.day = due.day /\ ts.s = due.s /\ ts.us = 0 /\ ~(due.day < 0)
    BY SMT, <1>2 DEF Moment
  <2>2. due.day + (due.s \div 86400) = due.day /\ due.s % 86400 = due.s
    BY SMT DEF Moment
  <2>3. CastSeconds(ts) = [day |-> due.day, s |-> due.s, us |-> 0]
    BY SMT, <2>1, <2>2 DEF CastSeconds
  <2>4. CastSeconds(ts).day = due.day /\ CastSeconds(ts).s = due.s
    BY SMT, <2>3
  <2>5. Seconds(due.day, due.s) = due
    BY SMT, <2>2 DEF Seconds, Moment
  <2>6. to_unix_time(ts) = Seconds(due.day, due.s)
    BY Zenon, <2>1, <2>4 DEF to_unix_time
  <2> QED BY Zenon, <2>5, <2>6
<1> QED BY Zenon, <1>1, <1>7, <1>8 DEF ts

\* The expiry refreshSpotify stores is the moment an hour ahead for as long as the seconds
\* fit 32 bits, reads back from the column as itself, and lies after the answer's time: on
\* every day of every walk, at every time of day.
THEOREM ExpiriesKept == Spec => []ExpiryKept
<1> DEFINE Due(c) == Seconds(serial, c.s + 3600)
           Ts(c) == Expiry([day |-> serial, s |-> c.s], 3600)
<1>1. ASSUME WalkInv, NEW c \in Clocks, serial >= 0, SecondsBefore(Due(c), Wrap)
      PROVE  /\ from_iso8601_str(Column(to_iso8601_str(Ts(c)))) = {from_unix_time(Due(c))}
             /\ to_unix_time(Ts(c)) = Due(c)
             /\ SecondsBefore([day |-> serial, s |-> c.s], Ts(c))
  <2> DEFINE due == Due(c)
             ts == Ts(c)
  <2>1. serial \in Int /\ c.s \in Int /\ 0 <= c.s /\ c.s < 86400
    BY SMT, <1>1, Today, ClockIs DEF TimeOfDay
  <2>2. ts = from_unix_time(Unsigned32(due))
    <3>1. LET now == [day |-> serial, s |-> c.s] IN now.day = serial /\ now.s = c.s
      OBVIOUS
    <3> QED BY SMT, <3>1 DEF Expiry
  <2>3. /\ due = [day |-> due.day, s |-> due.s] /\ due.day \in Int /\ due.s \in Int
        /\ 0 <= due.s /\ due.s < 86400 /\ serial <= due.day
        /\ c.s + 3600 < 86400 => due.day = serial /\ due.s = c.s + 3600
        /\ c.s + 3600 >= 86400 => due.day > serial
    <3> DEFINE n == c.s + 3600
    <3>1. n \in Int /\ 0 <= n
      BY SMT, <2>1
    <3> HIDE DEF n
    <3>2. due = Seconds(serial, n)
      BY Zenon DEF n
    <3> HIDE DEF due
    <3> QED BY SMT, <2>1, <3>1, <3>2, SecondsCarried DEF n
  <2>4. SecondsBefore(due, Wrap)
    BY <1>1
  <2> HIDE DEF due, ts, Due, Ts
  <2>5. 0 <= due.day
    BY SMT, <1>1, <2>1, <2>3
  <2>6. /\ ts = from_unix_time(due)
        /\ from_iso8601_str(Column(to_iso8601_str(ts))) = {ts}
        /\ to_unix_time(ts) = due
    <3>1. Moment(due)
      BY SMT, <2>3, <2>5 DEF Moment
    <3> QED BY Zenon, <2>2, <2>4, <3>1, MomentKept
  <2>7. SecondsBefore([day |-> serial, s |-> c.s], ts)
    <3> DEFINE now == [day |-> serial, s |-> c.s]
    <3>1. now.day = serial /\ now.s = c.s
      OBVIOUS
    <3>2. ts.day = due.day /\ ts.s = due.s
      BY <2>6 DEF from_unix_time
    <3>3. serial < due.day \/ (serial = due.day /\ c.s < due.s)
      BY SMT, <2>1, <2>3
    <3> HIDE DEF now
    <3>4. Before(<<now.day, now.s>>, <<ts.day, ts.s>>)
      BY Zenon, <3>1, <3>2, <3>3, Before2
    <3>5. SecondsBefore(now, ts)
      BY Zenon, <3>4 DEF SecondsBefore
    <3> QED BY Zenon, <3>5 DEF now
  <2> QED BY Zenon, <2>6, <2>7 DEF due, ts
<1>2. WalkInv => ExpiryKept
  <2> SUFFICES ASSUME WalkInv PROVE ExpiryKept
    OBVIOUS
  <2> QED BY SMT, <1>1 DEF ExpiryKept
<1> QED BY <1>2, WalkHolds, PTL

=============================================================================
