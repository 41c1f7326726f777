----------------------------- MODULE TextProofs -----------------------------
(***************************************************************************)
(* What the string utilities and the tokeniser compute, for every text.    *)
(*                                                                         *)
(* ReplaceString searches a lower case copy and edits text and copy by     *)
(* turns.  LoopUnfolds says that its loop ends; LoopSpells is its loop     *)
(* invariant: the copy is the text's, what stands before the position is   *)
(* done, and what stands after it is alike the rest of the original, so    *)
(* that the loop finds what a single pass from the left finds next.        *)
(* ReplacingRids: such a pass takes away what it searches, and brings      *)
(* nothing that cannot begin, end or lie around what it writes.            *)
(* TokensJoin is the same for the tokeniser, from its end to its           *)
(* beginning: the words from a position on, joined, are the rest of the    *)
(* text.                                                                   *)
(***************************************************************************)
EXTENDS Text, Induction, SequenceTheorems
-----------------------------------------------------------------------------
(* Texts *)

\* A slice of a text.
LEMMA Slice ==
  ASSUME NEW S, NEW s \in Seq(S), NEW m \in 1 .. Len(s) + 1, NEW n \in m - 1 .. Len(s)
  PROVE  /\ SubSeq(s, m, n) \in Seq(S)
         /\ Len(SubSeq(s, m, n)) = n - m + 1
         /\ \A i \in 1 .. n - m + 1 : SubSeq(s, m, n)[i] = s[m + i - 1]
<1>1. Len(s) \in Nat /\ m \in Int /\ n \in Int /\ m - 1 <= n
  BY LenProperties
<1>2. \A i \in m .. n : s[i] \in S
  BY <1>1, ElementOfSeq
<1>3. /\ SubSeq(s, m, n) \in Seq(S)
      /\ Len(SubSeq(s, m, n)) = IF m <= n THEN n - m + 1 ELSE 0
      /\ \A i \in 1 .. n - m + 1 : SubSeq(s, m, n)[i] = s[m + i - 1]
  BY <1>1, <1>2, SubSeqProperties
<1>4. (IF m <= n THEN n - m + 1 ELSE 0) = n - m + 1
  BY <1>1
<1> QED BY <1>3, <1>4

\* The lower case copy is as long as the text.
LEMMA LowerCase ==
  ASSUME NEW s \in Seq(Chars)
  PROVE  /\ lowercase(s) \in Seq(Chars) /\ Len(lowercase(s)) = Len(s)
         /\ \A i \in 1 .. Len(s) : lowercase(s)[i] = Lower[s[i]]
<1>1. DOMAIN s = 1 .. Len(s) /\ Len(s) \in Nat
  BY LenProperties
<1>2. \A i \in 1 .. Len(s) : Lower[s[i]] \in Chars
  BY ElementOfSeq, TextAssumption
<1>3. [i \in 1 .. Len(s) |-> Lower[s[i]]] \in Seq(Chars)
  BY <1>1, <1>2, IsASeq
<1>4. lowercase(s) = [i \in 1 .. Len(s) |-> Lower[s[i]]]
  BY <1>1 DEF lowercase
<1>5. lowercase(s) \in Seq(Chars) /\ DOMAIN lowercase(s) = 1 .. Len(s)
  BY <1>3, <1>4
<1>6. Len(lowercase(s)) = Len(s)
  <2>1. DOMAIN lowercase(s) = 1 .. Len(lowercase(s)) /\ Len(lowercase(s)) \in Nat
    BY <1>5, LenProperties
  <2> QED BY <1>1, <1>5, <2>1
<1> QED BY <1>4, <1>5, <1>6

\* Taking a lower case copy commutes with cutting.
LEMMA LowerSlice ==
  ASSUME NEW s \in Seq(Chars), NEW m \in 1 .. Len(s) + 1, NEW n \in m - 1 .. Len(s)
  PROVE  lowercase(SubSeq(s, m, n)) = SubSeq(lowercase(s), m, n)
<1> DEFINE a == SubSeq(s, m, n)
           b == lowercase(s)
<1>1. Len(s) \in Nat /\ m \in Int /\ n \in Int
  BY LenProperties
<1>2. /\ a \in Seq(Chars) /\ Len(a) = n - m + 1
      /\ \A i \in 1 .. n - m + 1 : a[i] = s[m + i - 1]
  BY Slice
<1>3. b \in Seq(Chars) /\ Len(b) = Len(s) /\ \A i \in 1 .. Len(s) : b[i] = Lower[s[i]]
  BY LowerCase
<1>4. /\ SubSeq(b, m, n) \in Seq(Chars) /\ Len(SubSeq(b, m, n)) = n - m + 1
      /\ \A i \in 1 .. n - m + 1 : SubSeq(b, m, n)[i] = b[m + i - 1]
  <2> HIDE DEF b
  <2>1. m \in 1 .. Len(b) + 1 /\ n \in m - 1 .. Len(b)
    BY <1>3
  <2> QED BY <1>3, <2>1, Slice
<1>5. /\ lowercase(a) \in Seq(Chars) /\ Len(lowercase(a)) = n - m + 1
      /\ \A i \in 1 .. n - m + 1 : lowercase(a)[i] = Lower[a[i]]
  <2> HIDE DEF a
  <2> QED BY <1>2, LowerCase
<1> HIDE DEF a, b
<1>6. \A i \in 1 .. n - m + 1 : m + i - 1 \in 1 .. Len(s)
  BY <1>1
<1>7. ASSUME NEW i \in 1 .. n - m + 1 PROVE lowercase(a)[i] = SubSeq(b, m, n)[i]
  <2>1. lowercase(a)[i] = Lower[s[m + i - 1]]
    BY Zenon, <1>2, <1>5
  <2>2. SubSeq(b, m, n)[i] = Lower[s[m + i - 1]]
    BY Zenon, <1>3, <1>4, <1>6
  <2> QED BY <2>1, <2>2
<1>8. lowercase(a) = SubSeq(b, m, n)
  BY Zenon, <1>4, <1>5, <1>7, SeqEqual
<1> QED BY <1>8 DEF a, b

\* And with joining.
LEMMA LowerJoin ==
  ASSUME NEW s \in Seq(Chars), NEW t \in Seq(Chars)
  PROVE  lowercase(s \o t) = lowercase(s) \o lowercase(t)
<1> DEFINE a == s \o t
           b == lowercase(s)
           c == lowercase(t)
<1>1. Len(s) \in Nat /\ Len(t) \in Nat
  BY LenProperties
<1>2. /\ a \in Seq(Chars) /\ Len(a) = Len(s) + Len(t)
      /\ \A i \in 1 .. Len(s) + Len(t) :
           a[i] = IF i <= Len(s) THEN s[i] ELSE t[i - Len(s)]
  BY ConcatProperties
<1>3. b \in Seq(Chars) /\ Len(b) = Len(s) /\ \A i \in 1 .. Len(s) : b[i] = Lower[s[i]]
  BY LowerCase
<1>4. c \in Seq(Chars) /\ Len(c) = Len(t) /\ \A i \in 1 .. Len(t) : c[i] = Lower[t[i]]
  BY LowerCase
<1>5. /\ lowercase(a) \in Seq(Chars) /\ Len(lowercase(a)) = Len(s) + Len(t)
      /\ \A i \in 1 .. Len(s) + Len(t) : lowercase(a)[i] = Lower[a[i]]
  <2> HIDE DEF a
  <2> QED BY <1>2, LowerCase
<1>6. /\ b \o c \in Seq(Chars) /\ Len(b \o c) = Len(s) + Len(t)
      /\ \A i \in 1 .. Len(s) + Len(t) :
           (b \o c)[i] = IF i <= Len(s) THEN b[i] ELSE c[i - Len(s)]
  <2> HIDE DEF a, b, c
  <2>1. /\ b \o c \in Seq(Chars) /\ Len(b \o c) = Len(b) + Len(c)
        /\ \A i \in 1 .. Len(b) + Len(c) :
             (b \o c)[i] = IF i <= Len(b) THEN b[i] ELSE c[i - Len(b)]
    BY ZenonT(40), <1>3, <1>4, ConcatProperties
  <2> QED BY Zenon, <1>3, <1>4, <2>1
<1> HIDE DEF a, b, c
<1>7. \A i \in 1 .. Len(s) + Len(t) :
        IF i <= Len(s) THEN i \in 1 .. Len(s) ELSE i - Len(s) \in 1 .. Len(t)
  BY <1>1
<1>8. ASSUME NEW i \in 1 .. Len(s) + Len(t) PROVE lowercase(a)[i] = (b \o c)[i]
  <2>1. lowercase(a)[i] = Lower[IF i <= Len(s) THEN s[i] ELSE t[i - Len(s)]]
    BY Zenon, <1>2, <1>5
  <2>2. (b \o c)[i] = IF i <= Len(s) THEN b[i] ELSE c[i - Len(s)]
    BY <1>6
  <2>3. CASE i <= Len(s)
    <3>1. b[i] = Lower[s[i]]
      BY <1>3, <1>7, <2>3
    <3> QED BY Zenon, <2>1, <2>2, <2>3, <3>1
  <2>4. CASE ~(i <= Len(s))
    <3>1. c[i - Len(s)] = Lower[t[i - Len(s)]]
      BY <1>4, <1>7, <2>4
    <3> QED BY Zenon, <2>1, <2>2, <2>4, <3>1
  <2> QED BY <2>3, <2>4
<1>9. lowercase(a) = b \o c
  BY Zenon, <1>5, <1>6, <1>8, SeqEqual
<1> QED BY <1>9 DEF a, b, c

\* The first of some positions.
LEMMA FirstOf ==
  ASSUME NEW T, T \subseteq Nat, T # {}
  PROVE  Min(T) \in T /\ \A n \in T : Min(T) <= n
<1>1. \E m \in T : \A n \in T : m <= n
  BY LeastNat
<1> QED BY <1>1 DEF Min

\* find returns the first occurrence from pos on, or npos.
LEMMA Finds ==
  ASSUME NEW s \in Seq(Chars), NEW sub \in Seq(Chars), NEW pos \in Nat
  PROVE  LET at == find(s, sub, pos) IN
         /\ at = npos => \A p \in pos .. Len(s) - Len(sub) : ~OccursAt(s, sub, p)
         /\ at # npos => /\ at \in pos .. Len(s) - Len(sub) /\ OccursAt(s, sub, at)
                         /\ \A p \in pos .. at - 1 : ~OccursAt(s, sub, p)
<1> DEFINE T == {p \in pos .. Len(s) - Len(sub) : OccursAt(s, sub, p)}
<1>1. Len(s) \in Nat /\ Len(sub) \in Nat
  BY LenProperties
<1>2. T \subseteq Nat /\ find(s, sub, pos) = IF T = {} THEN npos ELSE Min(T)
  BY <1>1 DEF find
<1>3. CASE T = {}
  BY <1>2, <1>3
<1>4. CASE T # {}
  <2>1. Min(T) \in T /\ \A n \in T : Min(T) <= n
    <3> HIDE DEF T
    <3> QED BY <1>2, <1>4, FirstOf
  <2>2. Min(T) \in pos .. Len(s) - Len(sub) /\ OccursAt(s, sub, Min(T))
    BY <2>1
  <2>3. ASSUME NEW p \in pos .. Min(T) - 1 PROVE ~OccursAt(s, sub, p)
    <3>1. p \in pos .. Len(s) - Len(sub) /\ ~(Min(T) <= p)
      BY <1>1, <2>2
    <3> QED BY <2>1, <3>1
  <2>4. Min(T) # npos
    BY <1>1, <2>2 DEF npos
  <2> QED BY <1>2, <1>4, <2>2, <2>3, <2>4
<1> QED BY <1>3, <1>4

-----------------------------------------------------------------------------
(* The loop of ReplaceString *)

\* An occurrence gives way to another text.
LEMMA ReplaceIn ==
  ASSUME NEW S, NEW s \in Seq(S), NEW w \in Seq(S), NEW pos \in Nat, NEW n \in Nat,
         pos + n <= Len(s)
  PROVE  /\ replace(s, pos, n, w) \in Seq(S)
         /\ Len(replace(s, pos, n, w)) = Len(s) - n + Len(w)
<1> DEFINE a == SubSeq(s, 1, pos)
           c == SubSeq(s, pos + n + 1, Len(s))
<1>1. Len(s) \in Nat /\ Len(w) \in Nat
  BY LenProperties
<1>2. a \in Seq(S) /\ Len(a) = pos
  <2>1. 1 \in 1 .. Len(s) + 1 /\ pos \in 1 - 1 .. Len(s) /\ pos - 1 + 1 = pos
    BY <1>1
  <2> QED BY <2>1, Slice
<1>3. c \in Seq(S) /\ Len(c) = Len(s) - pos - n
  <2>1. /\ pos + n + 1 \in 1 .. Len(s) + 1 /\ Len(s) \in (pos + n + 1) - 1 .. Len(s)
        /\ Len(s) - (pos + n + 1) + 1 = Len(s) - pos - n
    BY <1>1
  <2> QED BY <2>1, Slice
<1> HIDE DEF a, c
<1>4. a \o w \in Seq(S) /\ Len(a \o w) = pos + Len(w)
  BY <1>2, ConcatProperties
<1>5. (a \o w) \o c \in Seq(S) /\ Len((a \o w) \o c) = Len(a \o w) + Len(c)
  <2> DEFINE b == a \o w
  <2>1. b \in Seq(S)
    BY <1>4
  <2> HIDE DEF b
  <2>2. b \o c \in Seq(S) /\ Len(b \o c) = Len(b) + Len(c)
    BY <1>3, <2>1, ConcatProperties
  <2> QED BY Zenon, <2>2 DEF b
<1>6. pos + Len(w) + (Len(s) - pos - n) = Len(s) - n + Len(w)
  BY <1>1
<1>7. replace(s, pos, n, w) = (a \o w) \o c
  BY Zenon DEF replace, a, c
<1> QED BY <1>3, <1>4, <1>5, <1>6, <1>7

\* What is left to search.
Left(e) == IF e.from <= Len(e.subject_lc) THEN Len(e.subject_lc) - e.from ELSE 0

\* A round leaves a text and its copy of equal lengths, and less to search.
LEMMA EditedIn ==
  ASSUME NEW search \in Seq(Chars), search # <<>>, NEW with \in Seq(Chars), NEW e \in Edits,
         find(e.subject_lc, lowercase(search), e.from) # npos
  PROVE  LET pos == find(e.subject_lc, lowercase(search), e.from) IN
         /\ Edited(e, pos, search, with) \in Edits
         /\ Left(Edited(e, pos, search, with)) < Left(e)
<1> DEFINE pos == find(e.subject_lc, lowercase(search), e.from)
           k == lowercase(search)
           d == Edited(e, pos, search, with)
<1>1. /\ e.subject \in Seq(Chars) /\ e.subject_lc \in Seq(Chars) /\ e.from \in Nat
      /\ Len(e.subject) = Len(e.subject_lc) /\ Len(e.subject) \in Nat
  BY LenProperties DEF Edits
<1>2. k \in Seq(Chars) /\ Len(k) = Len(search) /\ Len(search) \in Nat \ {0}
  BY LowerCase, EmptySeq
<1>3. lowercase(with) \in Seq(Chars) /\ Len(lowercase(with)) = Len(with) /\ Len(with) \in Nat
  BY LowerCase, LenProperties
<1>4. pos \in e.from .. Len(e.subject_lc) - Len(search)
  <2> HIDE DEF k
  <2>1. LET at == find(e.subject_lc, k, e.from) IN
        at # npos => at \in e.from .. Len(e.subject_lc) - Len(k)
    BY <1>1, <1>2, Finds
  <2> QED BY <1>2, <2>1 DEF k
<1> HIDE DEF pos, k
<1>5. pos \in Nat /\ pos + Len(search) <= Len(e.subject) /\ e.from <= pos
  BY <1>1, <1>2, <1>4
<1>6. /\ d.subject = replace(e.subject, pos, Len(search), with)
      /\ d.subject_lc = replace(e.subject_lc, pos, Len(search), lowercase(with))
      /\ d.from = pos + Len(with)
      /\ d = [subject |-> d.subject, subject_lc |-> d.subject_lc, from |-> d.from]
  BY DEF Edited
<1> HIDE DEF d
<1>7. d.subject \in Seq(Chars) /\ Len(d.subject) = Len(e.subject) - Len(search) + Len(with)
  <2> DEFINE r == replace(e.subject, pos, Len(search), with)
  <2>1. /\ e.subject \in Seq(Chars) /\ pos \in Nat /\ Len(search) \in Nat
        /\ pos + Len(search) <= Len(e.subject)
    BY <1>1, <1>2, <1>5
  <2>2. r \in Seq(Chars) /\ Len(r) = Len(e.subject) - Len(search) + Len(with)
    BY ZenonT(40), <2>1, ReplaceIn
  <2> QED BY Zenon, <1>6, <2>2
<1>8. d.subject_lc \in Seq(Chars) /\ Len(d.subject_lc) = Len(e.subject) - Len(search) + Len(with)
  <2> DEFINE r == replace(e.subject_lc, pos, Len(search), lowercase(with))
  <2>1. /\ e.subject_lc \in Seq(Chars) /\ pos \in Nat /\ Len(search) \in Nat
        /\ pos + Len(search) <= Len(e.subject_lc) /\ lowercase(with) \in Seq(Chars)
    BY <1>1, <1>2, <1>3, <1>5
  <2>2. r \in Seq(Chars) /\ Len(r) = Len(e.subject_lc) - Len(search) + Len(lowercase(with))
    BY ZenonT(40), <2>1, ReplaceIn
  <2> QED BY <1>1, <1>3, <1>6, <2>2
<1>9. d.from \in Nat
  BY <1>3, <1>5, <1>6
<1>10. d \in Edits
  BY <1>6, <1>7, <1>8, <1>9 DEF Edits
<1>11. Left(d) < Left(e)
  <2>1. Left(d) = Len(e.subject) - Len(search) - pos
    BY <1>1, <1>2, <1>3, <1>5, <1>6, <1>8 DEF Left
  <2>2. Left(e) = Len(e.subject) - e.from
    BY <1>1, <1>2, <1>5 DEF Left
  <2> QED BY <1>1, <1>2, <1>5, <2>1, <2>2
<1> QED BY <1>10, <1>11 DEF d, pos, k

\* What is left to search is a number.
LEMMA LeftNat == \A e \in Edits : Left(e) \in Nat
<1> SUFFICES ASSUME NEW e \in Edits PROVE Left(e) \in Nat
  OBVIOUS
<1>1. e.subject_lc \in Seq(Chars) /\ e.from \in Nat
  BY DEF Edits
<1>2. Len(e.subject_lc) \in Nat
  BY <1>1, LenProperties
<1> QED BY <1>1, <1>2 DEF Left

\* The loop ends, with a text, on every text, search and replacement.
LEMMA LoopUnfolds ==
  ASSUME NEW search \in Seq(Chars), search # <<>>, NEW with \in Seq(Chars)
  PROVE  /\ ReplaceFrom(search, with) \in [Edits -> Seq(Chars)]
         /\ \A e \in Edits :
              LET pos == find(e.subject_lc, lowercase(search), e.from) IN
              ReplaceFrom(search, with)[e] =
                IF pos = npos THEN e.subject
                ELSE ReplaceFrom(search, with)[Edited(e, pos, search, with)]
<1> DEFINE at(e) == find(e.subject_lc, lowercase(search), e.from)
           stop == {e \in Edits : at(e) = npos}
           base == [e \in Edits |-> e.subject]
           next == [e \in Edits |-> IF at(e) = npos THEN e
                                    ELSE Edited(e, at(e), search, with)]
           same == [e \in Edits |-> [v \in Seq(Chars) |-> v]]
           rank == [e \in Edits |-> Left(e)]
           Body(f, e) == IF at(e) = npos THEN e.subject
                         ELSE f[Edited(e, at(e), search, with)]
           loop == ReplaceFrom(search, with)
<1>1. \A e \in Edits : at(e) # npos =>
        Edited(e, at(e), search, with) \in Edits
        /\ Left(Edited(e, at(e), search, with)) < Left(e)
  BY EditedIn
<1>2. \A e \in Edits : e.subject \in Seq(Chars)
  BY DEF Edits
<1> HIDE DEF at
<1>3. Recursion(Edits, Seq(Chars), rank, stop, base, next, same)
  <2>1. rank \in [Edits -> Nat]
    BY LeftNat
  <2>2. base \in [Edits -> Seq(Chars)] /\ same \in [Edits -> [Seq(Chars) -> Seq(Chars)]]
    BY <1>2
  <2>3. next \in [Edits -> Edits]
    BY <1>1
  <2>4. \A e \in Edits \ stop : rank[next[e]] < rank[e]
    BY <1>1
  <2> QED BY Zenon, <2>1, <2>2, <2>3, <2>4 DEF Recursion
<1>4. PICK g \in [Edits -> Seq(Chars)] :
        \A e \in Edits : g[e] = Unfold(g, e, stop, base, next, same)
  <2> HIDE DEF stop, base, next, same, rank
  <2> QED BY <1>3, Recursive
<1>5. \A e \in Edits : g[e] = Body(g, e)
  <2> SUFFICES ASSUME NEW e \in Edits PROVE g[e] = Body(g, e)
    OBVIOUS
  <2>1. CASE at(e) = npos
    BY <1>4, <2>1 DEF Unfold
  <2>2. CASE at(e) # npos
    <3>1. next[e] = Edited(e, at(e), search, with) /\ next[e] \in Edits /\ e \notin stop
      BY <1>1, <2>2
    <3>2. g[e] = same[e][g[next[e]]]
      BY <1>4, <3>1 DEF Unfold
    <3>3. g[next[e]] \in Seq(Chars)
      BY <1>4, <3>1
    <3> QED BY <2>2, <3>1, <3>2, <3>3
  <2> QED BY <2>1, <2>2
<1>6. g = [e \in Edits |-> Body(g, e)]
  BY <1>4, <1>5
<1>7. loop = CHOOSE f : f = [e \in Edits |-> Body(f, e)]
  BY Zenon DEF ReplaceFrom, at
<1>8. loop = [e \in Edits |-> Body(loop, e)]
  <2> HIDE DEF Body, loop
  <2> QED BY Zenon, <1>6, <1>7
<1>9. \A e \in Edits : loop[e] = Body(loop, e)
  <2> HIDE DEF Body, loop
  <2> QED BY Zenon, <1>8
<1>10. Edits \subseteq {e \in Edits : loop[e] \in Seq(Chars)}
  <2> DEFINE T == {e \in Edits : loop[e] \in Seq(Chars)}
  <2>1. ASSUME NEW e \in Edits, \A d \in Edits : rank[d] < rank[e] => d \in T
        PROVE  e \in T
    <3>1. CASE at(e) = npos
      BY <1>2, <1>9, <3>1
    <3>2. CASE at(e) # npos
      <4> DEFINE d == Edited(e, at(e), search, with)
      <4>1. d \in Edits /\ rank[d] < rank[e]
        BY <1>1, <3>2
      <4>2. loop[d] \in Seq(Chars)
        BY <2>1, <4>1
      <4> QED BY <1>9, <3>2, <4>2
    <3> QED BY <3>1, <3>2
  <2>2. rank \in [Edits -> Nat]
    BY LeftNat
  <2> HIDE DEF T, rank
  <2>3. Edits \subseteq T
    BY <2>1, <2>2, Descent
  <2> QED BY <2>3 DEF T
<1>11. loop \in [Edits -> Seq(Chars)]
  <2> HIDE DEF loop, Body
  <2> QED BY <1>8, <1>10
<1> QED BY Zenon, <1>9, <1>11 DEF at

\* The reference ends with a text too.
LEMMA OutUnfolds ==
  ASSUME NEW s \in Seq(Chars), NEW search \in Seq(Chars), search # <<>>,
         NEW with \in Seq(Chars)
  PROVE  LET out == ReplacedFrom(s, search, with) IN
         /\ \A p \in 0 .. Len(s) : out[p] \in Seq(Chars)
         /\ \A p \in 0 .. Len(s) :
              out[p] = IF p = Len(s) THEN <<>>
                       ELSE IF p + Len(search) <= Len(s)
                               /\ OccursAt(lowercase(s), lowercase(search), p)
                         THEN with \o out[p + Len(search)]
                         ELSE <<s[p + 1]>> \o out[p + 1]
<1> DEFINE X == 0 .. Len(s)
           hit(p) == p + Len(search) <= Len(s) /\ OccursAt(lowercase(s), lowercase(search), p)
           one(p) == IF hit(p) THEN with ELSE <<s[p + 1]>>
           go(p) == IF hit(p) THEN p + Len(search) ELSE p + 1
           stop == {Len(s)}
           base == [p \in X |-> <<>>]
           next == [p \in X |-> IF p = Len(s) THEN p ELSE go(p)]
           put == [p \in X |-> [v \in Seq(Chars) |->
                                  IF p = Len(s) THEN v ELSE one(p) \o v]]
           rank == [p \in X |-> Len(s) - p]
           Body(f, p) == IF p = Len(s) THEN <<>>
                         ELSE IF hit(p) THEN with \o f[p + Len(search)]
                         ELSE <<s[p + 1]>> \o f[p + 1]
           out == ReplacedFrom(s, search, with)
<1>1. Len(s) \in Nat /\ Len(search) \in Nat \ {0}
  BY LenProperties, EmptySeq
<1>2. \A p \in X : p # Len(s) =>
        /\ hit(p) => p + Len(search) \in X /\ Len(s) - (p + Len(search)) < Len(s) - p
        /\ p + 1 \in X /\ Len(s) - (p + 1) < Len(s) - p
        /\ p + 1 \in 1 .. Len(s)
  BY <1>1
<1>3. \A p \in X : p # Len(s) => one(p) \in Seq(Chars)
  <2> SUFFICES ASSUME NEW p \in X, p # Len(s) PROVE one(p) \in Seq(Chars)
    OBVIOUS
  <2>1. s[p + 1] \in Chars
    BY <1>2, ElementOfSeq
  <2>2. <<s[p + 1]>> \in Seq(Chars)
    BY <2>1
  <2> QED BY <2>2
<1> HIDE DEF hit
<1>4. \A t, v : t \in Seq(Chars) /\ v \in Seq(Chars) => t \o v \in Seq(Chars)
  BY ConcatProperties
<1>5. Recursion(X, Seq(Chars), rank, stop, base, next, put)
  <2>1. rank \in [X -> Nat]
    BY <1>1
  <2>2. base \in [X -> Seq(Chars)]
    BY EmptySeq
  <2>3. put \in [X -> [Seq(Chars) -> Seq(Chars)]]
    <3> HIDE DEF one, X
    <3>1. \A p \in X, v \in Seq(Chars) :
            (IF p = Len(s) THEN v ELSE one(p) \o v) \in Seq(Chars)
      BY Zenon, <1>3, <1>4
    <3> QED BY Zenon, <3>1
  <2>4. next \in [X -> X]
    <3> HIDE DEF X
    <3> QED BY <1>2
  <2>5. \A p \in X \ stop : rank[next[p]] < rank[p]
    <3> SUFFICES ASSUME NEW p \in X, p # Len(s) PROVE rank[next[p]] < rank[p]
      OBVIOUS
    <3>1. next[p] = go(p) /\ go(p) \in X /\ Len(s) - go(p) < Len(s) - p
      BY <1>2
    <3> HIDE DEF go, next, X
    <3> QED BY <3>1
  <2> HIDE DEF rank, stop, base, next, put, X
  <2> QED BY Zenon, <2>1, <2>2, <2>3, <2>4, <2>5 DEF Recursion
<1>6. PICK g \in [X -> Seq(Chars)] :
        \A p \in X : g[p] = Unfold(g, p, stop, base, next, put)
  <2> HIDE DEF stop, base, next, put, rank, X
  <2> QED BY <1>5, Recursive
<1>7. \A p \in X : g[p] = Body(g, p)
  <2> SUFFICES ASSUME NEW p \in X PROVE g[p] = Body(g, p)
    OBVIOUS
  <2>1. CASE p = Len(s)
    BY <1>6, <2>1 DEF Unfold
  <2>2. CASE p # Len(s)
    <3>1. next[p] = go(p) /\ go(p) \in X /\ p \notin stop
      BY <1>2, <2>2
    <3>2. g[p] = put[p][g[next[p]]]
      <4> HIDE DEF next, put, stop, X
      <4> QED BY <1>6, <3>1 DEF Unfold
    <3>3. g[go(p)] \in Seq(Chars)
      <4> HIDE DEF X, go
      <4> QED BY <1>6, <3>1
    <3>4. g[p] = one(p) \o g[go(p)]
      <4> HIDE DEF X, go, one, next
      <4>1. put[p][g[go(p)]] = one(p) \o g[go(p)]
        BY Zenon, <2>2, <3>3
      <4> QED BY Zenon, <3>1, <3>2, <4>1
    <3> QED BY Zenon, <2>2, <3>4
  <2> QED BY <2>1, <2>2
<1> HIDE DEF X
<1>8. g = [p \in X |-> Body(g, p)]
  <2> HIDE DEF Body
  <2> QED BY Zenon, <1>6, <1>7
<1>9. out = CHOOSE f : f = [p \in X |-> Body(f, p)]
  BY Zenon DEF ReplacedFrom, hit, X
<1>10. out = [p \in X |-> Body(out, p)]
  <2> HIDE DEF Body, out
  <2> QED BY Zenon, <1>8, <1>9
<1>11. \A p \in X : out[p] = Body(out, p)
  <2> HIDE DEF Body, out
  <2> QED BY Zenon, <1>10
<1>12. \A p \in X : out[p] \in Seq(Chars)
  <2> DEFINE T == {p \in X : out[p] \in Seq(Chars)}
  <2> HIDE DEF out
  <2>1. ASSUME NEW p \in X, \A q \in X : rank[q] < rank[p] => q \in T
        PROVE  p \in T
    <3>1. CASE p = Len(s)
      BY <1>11, <3>1, EmptySeq
    <3>2. CASE p # Len(s)
      <4>1. go(p) \in X /\ Len(s) - go(p) < Len(s) - p
        BY <1>2, <3>2
      <4>2. rank[go(p)] < rank[p]
        <5> HIDE DEF go
        <5> QED BY <4>1
      <4>3. out[go(p)] \in Seq(Chars)
        <5> HIDE DEF go, rank
        <5> QED BY <2>1, <4>1, <4>2
      <4>4. out[p] = one(p) \o out[go(p)]
        BY Zenon, <1>11, <3>2
      <4>5. out[p] \in Seq(Chars)
        <5> HIDE DEF one, go
        <5> QED BY Zenon, <1>3, <1>4, <3>2, <4>3, <4>4
      <4> QED BY <4>5
    <3> QED BY <3>1, <3>2
  <2>2. rank \in [X -> Nat]
    BY <1>1 DEF X
  <2> HIDE DEF T, rank
  <2>3. X \subseteq T
    BY <2>1, <2>2, Descent
  <2> QED BY <2>3 DEF T
<1> QED BY Zenon, <1>11, <1>12 DEF hit, X

\* Joining texts is associative.
LEMMA Associative ==
  ASSUME NEW a \in Seq(Chars), NEW b \in Seq(Chars), NEW c \in Seq(Chars)
  PROVE  (a \o b) \o c = a \o (b \o c)
BY ConcatAssociative

\* An occurrence gives way: what stands before and after it stays.
LEMMA ReplaceAround ==
  ASSUME NEW s \in Seq(Chars), NEW w \in Seq(Chars), NEW pos \in Nat, NEW n \in Nat,
         pos + n <= Len(s)
  PROVE  LET r == replace(s, pos, n, w) IN
         /\ SubSeq(r, 1, pos + Len(w)) = SubSeq(s, 1, pos) \o w
         /\ \A i \in 1 .. Len(s) - pos - n : r[pos + Len(w) + i] = s[pos + n + i]
<1> DEFINE a == SubSeq(s, 1, pos)
           c == SubSeq(s, pos + n + 1, Len(s))
           b == a \o w
           r == replace(s, pos, n, w)
<1>1. Len(s) \in Nat /\ Len(w) \in Nat
  BY LenProperties
<1>2. a \in Seq(Chars) /\ Len(a) = pos
  <2>1. 1 \in 1 .. Len(s) + 1 /\ pos \in 1 - 1 .. Len(s) /\ pos - 1 + 1 = pos
    BY <1>1
  <2> QED BY <2>1, Slice
<1>3. /\ c \in Seq(Chars) /\ Len(c) = Len(s) - pos - n
      /\ \A i \in 1 .. Len(s) - pos - n : c[i] = s[pos + n + 1 + i - 1]
  <2>1. /\ pos + n + 1 \in 1 .. Len(s) + 1 /\ Len(s) \in (pos + n + 1) - 1 .. Len(s)
        /\ Len(s) - (pos + n + 1) + 1 = Len(s) - pos - n
    BY <1>1
  <2> QED BY ZenonT(40), <2>1, Slice
<1> HIDE DEF a, c
<1>4. b \in Seq(Chars) /\ Len(b) = pos + Len(w)
  BY <1>2, ConcatProperties
<1>5. r = b \o c
  BY Zenon DEF replace, a, c
<1> HIDE DEF b, r
<1>6. /\ r \in Seq(Chars) /\ Len(r) = Len(b) + Len(c)
      /\ \A i \in 1 .. Len(b) + Len(c) : r[i] = IF i <= Len(b) THEN b[i] ELSE c[i - Len(b)]
  <2>1. /\ b \o c \in Seq(Chars) /\ Len(b \o c) = Len(b) + Len(c)
        /\ \A i \in 1 .. Len(b) + Len(c) :
             (b \o c)[i] = IF i <= Len(b) THEN b[i] ELSE c[i - Len(b)]
    <3>1. b \in Seq(Chars) /\ c \in Seq(Chars)
      BY <1>3, <1>4
    <3> QED BY Zenon, <3>1, ConcatProperties
  <2> QED BY Zenon, <1>5, <2>1
<1>7. SubSeq(r, 1, pos + Len(w)) = b
  <2> DEFINE k == pos + Len(w)
             u == SubSeq(r, 1, k)
  <2>1. /\ 1 \in 1 .. Len(r) + 1 /\ k \in 1 - 1 .. Len(r) /\ k - 1 + 1 = k
        /\ k \in Nat /\ k = Len(b) /\ \A i \in 1 .. k : 1 + i - 1 = i
    BY <1>1, <1>3, <1>4, <1>6
  <2>2. /\ u \in Seq(Chars) /\ Len(u) = k - 1 + 1
        /\ \A i \in 1 .. k - 1 + 1 : u[i] = r[1 + i - 1]
    <3> HIDE DEF k
    <3> QED BY <1>6, <2>1, Slice
  <2>3. ASSUME NEW i \in 1 .. k PROVE r[i] = b[i]
    <3>1. i \in 1 .. Len(b) + Len(c) /\ i <= Len(b)
      BY <1>1, <1>3, <1>4, <2>1
    <3> QED BY <1>6, <3>1
  <2> HIDE DEF k, u
  <2>4. Len(u) = k /\ \A i \in 1 .. k : u[i] = b[i]
    BY <2>1, <2>2, <2>3
  <2>5. u = b
    BY Zenon, <1>4, <2>1, <2>2, <2>4, SeqEqual
  <2> QED BY <2>5 DEF u, k
<1>8. ASSUME NEW i \in 1 .. Len(s) - pos - n
      PROVE  r[pos + Len(w) + i] = s[pos + n + i]
  <2> DEFINE j == pos + Len(w) + i
  <2>1. /\ j \in 1 .. Len(b) + Len(c) /\ ~(j <= Len(b)) /\ j - Len(b) = i
        /\ pos + n + 1 + i - 1 = pos + n + i
    BY <1>1, <1>3, <1>4
  <2> HIDE DEF j
  <2>2. r[j] = c[i]
    BY <1>6, <2>1
  <2>3. c[i] = s[pos + n + i]
    BY <1>3, <2>1
  <2> QED BY <2>2, <2>3 DEF j
<1> QED BY Zenon, <1>7, <1>8 DEF b, r, a

\* The copy stays the lower case of the text.
LEMMA CopyInStep ==
  ASSUME NEW s \in Seq(Chars), NEW w \in Seq(Chars), NEW pos \in Nat, NEW n \in Nat,
         pos + n <= Len(s)
  PROVE  lowercase(replace(s, pos, n, w)) = replace(lowercase(s), pos, n, lowercase(w))
<1> DEFINE a == SubSeq(s, 1, pos)
           c == SubSeq(s, pos + n + 1, Len(s))
<1>1. Len(s) \in Nat /\ Len(lowercase(s)) = Len(s)
  BY LenProperties, LowerCase
<1>2. /\ 1 \in 1 .. Len(s) + 1 /\ pos \in 1 - 1 .. Len(s)
      /\ pos + n + 1 \in 1 .. Len(s) + 1 /\ Len(s) \in (pos + n + 1) - 1 .. Len(s)
  BY <1>1
<1>3. a \in Seq(Chars) /\ c \in Seq(Chars)
  BY <1>2, Slice
<1>4. /\ lowercase(a) = SubSeq(lowercase(s), 1, pos)
      /\ lowercase(c) = SubSeq(lowercase(s), pos + n + 1, Len(lowercase(s)))
  BY <1>1, <1>2, LowerSlice
<1> HIDE DEF a, c
<1>5. a \o w \in Seq(Chars)
  BY <1>3, ConcatProperties
<1>6. lowercase((a \o w) \o c) = (lowercase(a) \o lowercase(w)) \o lowercase(c)
  <2> DEFINE b == a \o w
  <2>1. lowercase(b) = lowercase(a) \o lowercase(w)
    BY <1>3, LowerJoin
  <2>2. b \in Seq(Chars)
    BY <1>5
  <2> HIDE DEF b
  <2>3. lowercase(b \o c) = lowercase(b) \o lowercase(c)
    BY <1>3, <2>2, LowerJoin
  <2> QED BY Zenon, <2>1, <2>3 DEF b
<1> QED BY Zenon, <1>4, <1>6 DEF replace, a, c

\* The texts s from position n and t from position p are the same.
Alike(s, n, t, p) ==
  /\ Len(s) - n = Len(t) - p
  /\ \A i \in 1 .. Len(t) - p : s[n + i] = t[p + i]

\* The m characters that follow position a.
LEMMA Cut ==
  ASSUME NEW S, NEW s \in Seq(S), NEW a \in Nat, NEW m \in Nat, a + m <= Len(s)
  PROVE  /\ SubSeq(s, a + 1, a + m) \in Seq(S)
         /\ Len(SubSeq(s, a + 1, a + m)) = m
         /\ \A i \in 1 .. m : SubSeq(s, a + 1, a + m)[i] = s[a + i]
<1> DEFINE x == a + 1
           y == a + m
           u == SubSeq(s, x, y)
<1>1. Len(s) \in Nat
  BY LenProperties
<1>2. /\ x \in 1 .. Len(s) + 1 /\ y \in x - 1 .. Len(s) /\ y - x + 1 = m
      /\ \A i \in 1 .. m : x + i - 1 = a + i
  BY <1>1
<1> HIDE DEF x, y
<1>3. u \in Seq(S) /\ Len(u) = y - x + 1 /\ \A i \in 1 .. y - x + 1 : u[i] = s[x + i - 1]
  BY <1>2, Slice
<1>4. u \in Seq(S) /\ Len(u) = m /\ \A i \in 1 .. m : u[i] = s[a + i]
  <2> HIDE DEF u
  <2> QED BY <1>2, <1>3
<1> QED BY <1>4 DEF x, y

\* Where two texts are alike the same words stand.
LEMMA AlikeOccurs ==
  ASSUME NEW s \in Seq(Chars), NEW t \in Seq(Chars), NEW n \in 0 .. Len(s),
         NEW p \in 0 .. Len(t), Alike(s, n, t, p), NEW k, Len(k) \in Nat, p + Len(k) <= Len(t)
  PROVE  OccursAt(lowercase(s), k, n) <=> OccursAt(lowercase(t), k, p)
<1> DEFINE m == Len(k)
           u == SubSeq(s, n + 1, n + m)
           v == SubSeq(t, p + 1, p + m)
<1>1. Len(s) \in Nat /\ Len(t) \in Nat /\ m \in Nat
  BY LenProperties
<1>2. n + m <= Len(s) /\ p + m <= Len(t) /\ n \in Nat /\ p \in Nat
  BY <1>1 DEF Alike
<1>3. /\ n + 1 \in 1 .. Len(s) + 1 /\ n + m \in (n + 1) - 1 .. Len(s)
      /\ p + 1 \in 1 .. Len(t) + 1 /\ p + m \in (p + 1) - 1 .. Len(t)
      /\ \A i \in 1 .. m : i \in 1 .. Len(t) - p
  BY <1>1, <1>2
<1> HIDE DEF m
<1>4. u \in Seq(Chars) /\ Len(u) = m /\ \A i \in 1 .. m : u[i] = s[n + i]
  BY <1>1, <1>2, Cut
<1>5. v \in Seq(Chars) /\ Len(v) = m /\ \A i \in 1 .. m : v[i] = t[p + i]
  BY <1>1, <1>2, Cut
<1>6. lowercase(u) = SubSeq(lowercase(s), n + 1, n + m)
  BY <1>3, LowerSlice
<1>7. lowercase(v) = SubSeq(lowercase(t), p + 1, p + m)
  BY <1>3, LowerSlice
<1> HIDE DEF u, v
<1>8. \A i \in 1 .. m : u[i] = v[i]
  BY Zenon, <1>3, <1>4, <1>5 DEF Alike
<1>9. u = v
  BY Zenon, <1>4, <1>5, <1>8, SeqEqual
<1> QED BY Zenon, <1>6, <1>7, <1>9 DEF OccursAt, m

\* One more character does not occur: the search may as well begin after it.
LEMMA FindLater ==
  ASSUME NEW s, NEW k, Len(s) \in Nat, Len(k) \in Nat, NEW n \in Nat,
         n + Len(k) <= Len(s) => ~OccursAt(s, k, n)
  PROVE  find(s, k, n) = find(s, k, n + 1)
<1>1. {p \in n .. Len(s) - Len(k) : OccursAt(s, k, p)}
        = {p \in n + 1 .. Len(s) - Len(k) : OccursAt(s, k, p)}
  <2>1. ASSUME NEW p \in n .. Len(s) - Len(k), OccursAt(s, k, p)
        PROVE  p \in n + 1 .. Len(s) - Len(k)
    <3>1. p # n
      BY <2>1
    <3> QED BY <3>1
  <2>2. \A p \in n + 1 .. Len(s) - Len(k) : p \in n .. Len(s) - Len(k)
    OBVIOUS
  <2> QED BY <2>1, <2>2
<1> QED BY Zenon, <1>1 DEF find

\* What the loop has edited so far, and the rest of it as the reference has it.
LEMMA LoopSpells ==
  ASSUME NEW t \in Seq(Chars), NEW search \in Seq(Chars), search # <<>>,
         NEW with \in Seq(Chars)
  PROVE  \A e \in Edits, p \in 0 .. Len(t) :
           /\ e.subject_lc = lowercase(e.subject)
           /\ e.from <= Len(e.subject)
           /\ Alike(e.subject, e.from, t, p)
           => ReplaceFrom(search, with)[e]
                = SubSeq(e.subject, 1, e.from) \o ReplacedFrom(t, search, with)[p]
<1> DEFINE loop == ReplaceFrom(search, with)
           out == ReplacedFrom(t, search, with)
           k == lowercase(search)
           m == Len(search)
           L == Len(t)
           at(e) == find(e.subject_lc, k, e.from)
           Fits(e, p) == /\ e.subject_lc = lowercase(e.subject)
                         /\ e.from <= Len(e.subject)
                         /\ Alike(e.subject, e.from, t, p)
           Spelled(e, p) == loop[e] = SubSeq(e.subject, 1, e.from) \o out[p]
           X == 0 .. L
           rank == [p \in X |-> L - p]
           T == {p \in X : \A e \in Edits : Fits(e, p) => Spelled(e, p)}
<1>1. L \in Nat /\ m \in Nat \ {0} /\ k \in Seq(Chars) /\ Len(k) = m /\ Len(with) \in Nat
  BY LenProperties, LowerCase, EmptySeq
<1>2. \A e \in Edits : loop[e] = IF at(e) = npos THEN e.subject
                                 ELSE loop[Edited(e, at(e), search, with)]
  BY LoopUnfolds
<1>3. \A p \in X : out[p] \in Seq(Chars)
  BY OutUnfolds
<1>4. \A p \in X : out[p] = IF p = L THEN <<>>
                            ELSE IF p + m <= L /\ OccursAt(lowercase(t), k, p)
                              THEN with \o out[p + m]
                              ELSE <<t[p + 1]>> \o out[p + 1]
  BY Zenon, OutUnfolds
<1>5. \A e \in Edits : at(e) # npos => Edited(e, at(e), search, with) \in Edits
  BY EditedIn
<1>6. lowercase(t) \in Seq(Chars) /\ Len(lowercase(t)) = L
  BY LowerCase
<1> HIDE DEF loop, out, k, m, L
<1>7. ASSUME NEW p \in X, \A q \in X : rank[q] < rank[p] => q \in T,
             NEW e \in Edits, Fits(e, p)
      PROVE  Spelled(e, p)
  <2> DEFINE s == e.subject
             n == e.from
             lc == e.subject_lc
  <2>1. /\ s \in Seq(Chars) /\ lc \in Seq(Chars) /\ n \in Nat /\ Len(s) \in Nat
        /\ lc = lowercase(s) /\ Len(lc) = Len(s) /\ n <= Len(s)
    BY <1>7, LenProperties DEF Edits
  <2>2. /\ Len(s) - n = L - p /\ p \in Nat /\ p <= L
        /\ \A i \in 1 .. L - p : s[n + i] = t[p + i]
    BY <1>1, <1>7 DEF Alike, L
  <2>3. LET a == find(lc, k, n) IN
        /\ a = npos => \A q \in n .. Len(lc) - Len(k) : ~OccursAt(lc, k, q)
        /\ a # npos => /\ a \in n .. Len(lc) - Len(k) /\ OccursAt(lc, k, a)
                       /\ \A q \in n .. a - 1 : ~OccursAt(lc, k, q)
    <3> HIDE DEF s, n, lc
    <3> QED BY <1>1, <2>1, Finds
  <2>4. CASE p = L
    <3>1. n = Len(s)
      BY <2>1, <2>2, <2>4, <1>1
    <3>2. find(lc, k, n) = npos
      <4>1. ~(find(lc, k, n) \in n .. Len(lc) - Len(k))
        BY <1>1, <2>1, <3>1
      <4> QED BY <2>3, <4>1
    <3>3. loop[e] = s
      BY Zenon, <1>2, <3>2
    <3>4. SubSeq(s, 1, n) = s
      BY <2>1, <3>1, SubSeqFull
    <3>5. out[p] = <<>>
      BY <1>4, <2>4
    <3>6. s \o <<>> = s
      BY <2>1, ConcatEmptySeq
    <3> QED BY Zenon, <3>3, <3>4, <3>5, <3>6
  <2>5. CASE p # L /\ p + m <= L /\ OccursAt(lowercase(t), k, p)
    <3> DEFINE d == Edited(e, n, search, with)
               w == with
    <3>1. n + m <= Len(s) /\ n \in n .. Len(lc) - Len(k) /\ n - 1 < n
      <4> HIDE DEF s, n, lc
      <4>1. Len(s) - n = L - p /\ p + m <= L /\ Len(lc) = Len(s) /\ Len(k) = m
        BY <1>1, <2>1, <2>2, <2>5
      <4> QED BY <1>1, <2>1, <2>2, <4>1
    <3>2. OccursAt(lc, k, n)
      <4>1. n \in 0 .. Len(s) /\ p \in 0 .. Len(t) /\ Len(k) \in Nat /\ p + Len(k) <= Len(t)
        BY <1>1, <2>1, <2>2, <2>5 DEF L
      <4>2. Alike(s, n, t, p)
        BY <1>7
      <4>3. OccursAt(lowercase(s), k, n) <=> OccursAt(lowercase(t), k, p)
        <5>1. s \in Seq(Chars)
          BY <2>1
        <5> HIDE DEF s, n, lc
        <5> QED BY Zenon, <4>1, <4>2, <5>1, AlikeOccurs
      <4> QED BY <2>1, <2>5, <4>3
    <3>3. find(lc, k, n) = n
      <4>1. find(lc, k, n) # npos
        BY <2>3, <3>1, <3>2
      <4> DEFINE a == find(lc, k, n)
      <4>2. a \in n .. Len(lc) - Len(k) /\ \A q \in n .. a - 1 : ~OccursAt(lc, k, q)
        BY Zenon, <2>3, <4>1
      <4> HIDE DEF a, n, lc
      <4>3. ~(n \in n .. a - 1)
        BY <3>2, <4>2
      <4>4. a = n
        BY <2>1, <4>2, <4>3
      <4> QED BY <4>4 DEF a
    <3>4. n # npos
      BY <2>1 DEF npos
    <3>5. loop[e] = loop[d] /\ d \in Edits
      <4>1. at(e) = n
        BY <3>3
      <4> HIDE DEF at, n
      <4> QED BY Zenon, <1>2, <1>5, <3>4, <4>1
    <3>6. /\ d.subject = replace(s, n, m, w) /\ d.from = n + Len(w)
          /\ d.subject_lc = replace(lc, n, m, lowercase(w))
      BY DEF Edited, m
    <3> HIDE DEF d, s, n, lc
    <3>7. d.subject_lc = lowercase(d.subject)
      BY <1>1, <2>1, <3>1, <3>6, CopyInStep
    <3>8. Len(d.subject) = Len(s) - m + Len(w)
      <4>1. Len(replace(s, n, m, w)) = Len(s) - m + Len(w)
        BY <1>1, <2>1, <3>1, ReplaceIn
      <4> QED BY <3>6, <4>1
    <3>9. /\ SubSeq(d.subject, 1, n + Len(w)) = SubSeq(s, 1, n) \o w
          /\ \A i \in 1 .. Len(s) - n - m : d.subject[n + Len(w) + i] = s[n + m + i]
      <4>1. LET r == replace(s, n, m, w) IN
            /\ SubSeq(r, 1, n + Len(w)) = SubSeq(s, 1, n) \o w
            /\ \A i \in 1 .. Len(s) - n - m : r[n + Len(w) + i] = s[n + m + i]
        <5>1. s \in Seq(Chars) /\ n \in Nat /\ m \in Nat /\ n + m <= Len(s)
          BY <1>1, <2>1, <3>1
        <5> HIDE DEF m
        <5> QED BY ZenonT(40), <5>1, ReplaceAround
      <4> QED BY Zenon, <3>6, <4>1
    <3>10. p + m \in X /\ L - (p + m) < L - p
      BY <1>1, <2>2, <2>5
    <3>11. Fits(d, p + m)
      <4>1. d.from <= Len(d.subject)
        BY <1>1, <2>1, <3>1, <3>6, <3>8
      <4>2. Len(d.subject) - d.from = L - (p + m)
        <5> DEFINE x == Len(s)
                   y == Len(w)
        <5>1. x - n = L - p /\ x \in Nat /\ y \in Nat /\ n \in Nat /\ p \in Nat /\ L \in Nat
              /\ m \in Nat
          BY <1>1, <2>1, <2>2
        <5>2. Len(d.subject) = x - m + y /\ d.from = n + y
          BY <3>6, <3>8
        <5> HIDE DEF x, y
        <5> QED BY <5>1, <5>2
      <4>3. ASSUME NEW i \in 1 .. L - (p + m)
            PROVE  d.subject[d.from + i] = t[(p + m) + i]
        <5>1. i \in 1 .. Len(s) - n - m /\ m + i \in 1 .. L - p /\ i \in Int
          BY <1>1, <2>1, <2>2
        <5>2. d.subject[n + Len(w) + i] = s[n + m + i]
          BY Zenon, <3>9, <5>1
        <5>3. s[n + (m + i)] = t[p + (m + i)]
          BY <2>2, <5>1
        <5>4. n + (m + i) = n + m + i /\ p + (m + i) = p + m + i
          BY <1>1, <2>1, <2>2, <5>1
        <5> QED BY Zenon, <3>6, <5>2, <5>3, <5>4
      <4> QED BY Zenon, <3>7, <4>1, <4>2, <4>3 DEF Alike, L
    <3>12. Spelled(d, p + m)
      <4>1. p + m \in T
        <5> HIDE DEF T
        <5> QED BY <1>7, <3>10
      <4> HIDE DEF Fits, Spelled
      <4> QED BY Zenon, <3>5, <3>11, <4>1
    <3>13. loop[e] = (SubSeq(s, 1, n) \o w) \o out[p + m]
      BY Zenon, <3>5, <3>6, <3>9, <3>12
    <3>14. SubSeq(s, 1, n) \in Seq(Chars)
      <4>1. 1 \in 1 .. Len(s) + 1 /\ n \in 1 - 1 .. Len(s)
        BY <2>1
      <4> QED BY <2>1, <4>1, Slice
    <3>15. (SubSeq(s, 1, n) \o w) \o out[p + m] = SubSeq(s, 1, n) \o (w \o out[p + m])
      <4> DEFINE a == SubSeq(s, 1, n)
                 c == out[p + m]
      <4>1. a \in Seq(Chars) /\ c \in Seq(Chars)
        BY <1>3, <3>10, <3>14
      <4> HIDE DEF a, c
      <4>2. (a \o w) \o c = a \o (w \o c)
        BY ZenonT(40), <4>1, Associative
      <4> QED BY <4>2 DEF a, c
    <3>16. out[p] = w \o out[p + m]
      BY Zenon, <1>4, <2>5
    <3> QED BY Zenon, <3>13, <3>15, <3>16 DEF s, n
  <2>6. CASE p # L /\ ~(p + m <= L /\ OccursAt(lowercase(t), k, p))
    <3> DEFINE d == [subject |-> s, subject_lc |-> lc, from |-> n + 1]
    <3>1. /\ p + 1 \in X /\ L - (p + 1) < L - p /\ n + 1 <= Len(s)
          /\ n + 1 \in 1 .. Len(s)
      BY SMTT(40), <1>1, <2>1, <2>2, <2>6
    <3>2. n + Len(k) <= Len(lc) => ~OccursAt(lc, k, n)
      <4> SUFFICES ASSUME n + Len(k) <= Len(lc) PROVE ~OccursAt(lc, k, n)
        OBVIOUS
      <4>1. n \in 0 .. Len(s) /\ p \in 0 .. Len(t) /\ Len(k) \in Nat /\ p + Len(k) <= Len(t)
        BY <1>1, <2>1, <2>2 DEF L
      <4>2. Alike(s, n, t, p)
        BY <1>7
      <4>3. OccursAt(lowercase(s), k, n) <=> OccursAt(lowercase(t), k, p)
        <5>1. s \in Seq(Chars)
          BY <2>1
        <5> HIDE DEF s, n, lc
        <5> QED BY Zenon, <4>1, <4>2, <5>1, AlikeOccurs
      <4>4. p + m <= L
        BY <1>1, <4>1 DEF L
      <4> QED BY <2>1, <2>6, <4>3, <4>4
    <3>3. find(lc, k, n) = find(lc, k, n + 1)
      <4> HIDE DEF s, n, lc
      <4> QED BY <1>1, <2>1, <3>2, FindLater
    <3>4. d \in Edits /\ d.subject = s /\ d.subject_lc = lc /\ d.from = n + 1
      BY <2>1 DEF Edits
    <3>5. \A a : Edited(d, a, search, with) = Edited(e, a, search, with)
      BY DEF Edited
    <3> HIDE DEF d, s, n, lc
    <3>6. at(e) = at(d)
      BY <3>3, <3>4 DEF s, n, lc
    <3>7. loop[e] = loop[d]
      <4>1. e.subject = d.subject
        BY <3>4 DEF s
      <4> HIDE DEF at
      <4> QED BY Zenon, <1>2, <3>4, <3>5, <3>6, <4>1
    <3>8. Fits(d, p + 1)
      <4>1. Len(d.subject) - d.from = L - (p + 1)
        BY <1>1, <2>1, <2>2, <3>4
      <4>2. ASSUME NEW i \in 1 .. L - (p + 1)
            PROVE  d.subject[d.from + i] = t[(p + 1) + i]
        <5>1. 1 + i \in 1 .. L - p /\ i \in Int
          BY <1>1, <2>2
        <5>2. s[n + (1 + i)] = t[p + (1 + i)]
          BY <2>2, <5>1
        <5>3. n + (1 + i) = n + 1 + i /\ p + (1 + i) = p + 1 + i
          BY <2>1, <2>2, <5>1
        <5> QED BY Zenon, <3>4, <5>2, <5>3
      <4> QED BY Zenon, <2>1, <3>1, <3>4, <4>1, <4>2 DEF Alike, L
    <3>9. Spelled(d, p + 1)
      <4>1. p + 1 \in T
        <5> HIDE DEF T
        <5> QED BY <1>7, <3>1
      <4> HIDE DEF Fits, Spelled
      <4> QED BY Zenon, <3>4, <3>8, <4>1
    <3>10. loop[e] = SubSeq(s, 1, n + 1) \o out[p + 1]
      BY Zenon, <3>4, <3>7, <3>9
    <3>11. SubSeq(s, 1, n + 1) = SubSeq(s, 1, n) \o <<s[n + 1]>>
      <4>1. 1 \in 1 .. Len(s) /\ (n + 1) - 1 = n
        BY <2>1, <3>1
      <4>2. SubSeq(s, 1, n + 1) = SubSeq(s, 1, (n + 1) - 1) \o <<s[n + 1]>>
        BY <2>1, <3>1, <4>1, SubSeqRecursiveSecond
      <4> QED BY Zenon, <4>1, <4>2
    <3>12. s[n + 1] = t[p + 1]
      <4>1. 1 \in 1 .. L - p
        BY <1>1, <2>2, <2>6
      <4> QED BY <2>2, <4>1
    <3>13. SubSeq(s, 1, n) \in Seq(Chars) /\ <<t[p + 1]>> \in Seq(Chars)
      <4>1. 1 \in 1 .. Len(s) + 1 /\ n \in 1 - 1 .. Len(s)
        BY <2>1
      <4>2. s[n + 1] \in Chars
        BY <2>1, <3>1, ElementOfSeq
      <4>3. <<t[p + 1]>> \in Seq(Chars)
        BY <3>12, <4>2
      <4> QED BY <2>1, <4>1, <4>3, Slice
    <3>14. (SubSeq(s, 1, n) \o <<t[p + 1]>>) \o out[p + 1]
             = SubSeq(s, 1, n) \o (<<t[p + 1]>> \o out[p + 1])
      <4> DEFINE a == SubSeq(s, 1, n)
                 b == <<t[p + 1]>>
                 c == out[p + 1]
      <4>1. a \in Seq(Chars) /\ b \in Seq(Chars) /\ c \in Seq(Chars)
        BY <1>3, <3>1, <3>13
      <4> HIDE DEF a, b, c
      <4>2. (a \o b) \o c = a \o (b \o c)
        BY SMTT(40), <4>1, Associative
      <4> QED BY <4>2 DEF a, b, c
    <3>15. out[p] = <<t[p + 1]>> \o out[p + 1]
      BY Zenon, <1>4, <2>6
    <3> QED BY Zenon, <3>10, <3>11, <3>12, <3>14, <3>15 DEF s, n
  <2> QED BY <2>4, <2>5, <2>6
<1>8. X \subseteq T
  <2> HIDE DEF Fits, Spelled
  <2>1. rank \in [X -> Nat]
    BY <1>1
  <2>2. ASSUME NEW p \in X, \A q \in X : rank[q] < rank[p] => q \in T PROVE p \in T
    <3> HIDE DEF rank
    <3>1. \A e \in Edits : Fits(e, p) => Spelled(e, p)
      BY <1>7, <2>2
    <3> QED BY <3>1
  <2> HIDE DEF T, X, rank
  <2> QED BY <2>1, <2>2, Descent
<1> QED BY Zenon, <1>8 DEF loop, out, L

\* ReplaceString is the single pass from the left.
THEOREM ReplaceStringSpells ==
  ASSUME NEW subject \in Seq(Chars), NEW search \in Seq(Chars), search # <<>>,
         NEW with \in Seq(Chars)
  PROVE  /\ ReplaceString(subject, search, with) = Replaced(subject, search, with)
         /\ ReplaceString(subject, search, with) \in Seq(Chars)
<1> DEFINE e == [subject |-> subject, subject_lc |-> lowercase(subject), from |-> 0]
           out == ReplacedFrom(subject, search, with)
<1>1. Len(subject) \in Nat /\ lowercase(subject) \in Seq(Chars)
      /\ Len(lowercase(subject)) = Len(subject)
  BY LenProperties, LowerCase
<1>2. e \in Edits
  BY <1>1 DEF Edits
<1>3. 0 \in 0 .. Len(subject) /\ out[0] \in Seq(Chars)
  BY <1>1, OutUnfolds
<1>4. Alike(e.subject, e.from, subject, 0)
  BY DEF Alike
<1>5. e.subject_lc = lowercase(e.subject) /\ e.from <= Len(e.subject)
  BY <1>1
<1>6. ReplaceFrom(search, with)[e] = SubSeq(e.subject, 1, e.from) \o out[0]
  <2>1. \A z \in Edits, p \in 0 .. Len(subject) :
           /\ z.subject_lc = lowercase(z.subject)
           /\ z.from <= Len(z.subject)
           /\ Alike(z.subject, z.from, subject, p)
           => ReplaceFrom(search, with)[z] = SubSeq(z.subject, 1, z.from) \o out[p]
    BY ZenonT(40), LoopSpells
  <2> HIDE DEF e, out
  <2> QED BY Zenon, <1>2, <1>3, <1>4, <1>5, <2>1
<1>7. SubSeq(e.subject, 1, e.from) = <<>>
  BY SubSeqEmpty
<1> HIDE DEF out
<1>8. <<>> \o out[0] = out[0]
  BY <1>3, ConcatEmptySeq
<1> QED BY Zenon, <1>3, <1>6, <1>7, <1>8 DEF ReplaceString, Replaced, out

-----------------------------------------------------------------------------
(* Trimming *)

\* The last of some positions in a text.
LEMMA LastOf ==
  ASSUME NEW n \in Nat, NEW T, T \subseteq 1 .. n, T # {}
  PROVE  Max(T) \in T /\ \A i \in T : i <= Max(T)
<1> DEFINE U == {n - i : i \in T}
<1>1. \A i \in T : n - i \in Nat
  OBVIOUS
<1>2. U \subseteq Nat /\ U # {}
  BY <1>1
<1>3. PICK u \in U : \A v \in U : u <= v
  <2> HIDE DEF U
  <2> QED BY <1>2, LeastNat
<1>4. PICK m \in T : u = n - m
  OBVIOUS
<1>5. \A i \in T : m >= i
  <2> SUFFICES ASSUME NEW i \in T PROVE m >= i
    OBVIOUS
  <2>1. n - i \in U
    OBVIOUS
  <2>2. n - m <= n - i /\ m \in Nat /\ i \in Nat
    <3> HIDE DEF U
    <3> QED BY <1>3, <1>4, <2>1
  <2> QED BY <2>2
<1>6. \E x \in T : \A y \in T : x >= y
  BY <1>5
<1>7. Max(T) \in T /\ \A i \in T : Max(T) >= i
  BY <1>6 DEF Max
<1> QED BY <1>7

\* What is left of a text without the blanks at its ends is a text.
LEMMA TrimIn ==
  ASSUME NEW s \in Seq(Chars)
  PROVE  trim(s) \in Seq(Chars)
<1>1. ASSUME NEW t \in Seq(Chars) PROVE rtrim(t) \in Seq(Chars)
  <2> DEFINE kept == {i \in DOMAIN t : t[i] \notin Blanks}
  <2>1. Len(t) \in Nat /\ kept \subseteq 1 .. Len(t)
    BY LenProperties
  <2>2. CASE kept = {}
    BY <2>2, EmptySeq DEF rtrim
  <2>3. CASE kept # {}
    <3>1. Max(kept) \in 1 .. Len(t)
      <4> HIDE DEF kept
      <4> QED BY <2>1, <2>3, LastOf
    <3>2. 1 \in 1 .. Len(t) + 1 /\ Max(kept) \in 1 - 1 .. Len(t)
      <4> HIDE DEF kept
      <4> QED BY <2>1, <3>1
    <3>3. SubSeq(t, 1, Max(kept)) \in Seq(Chars)
      <4> HIDE DEF kept
      <4> QED BY <3>2, Slice
    <3> QED BY <2>3, <3>3 DEF rtrim
  <2> QED BY <2>2, <2>3
<1>2. ASSUME NEW t \in Seq(Chars) PROVE ltrim(t) \in Seq(Chars)
  <2> DEFINE kept == {i \in DOMAIN t : t[i] \notin Blanks}
  <2>1. Len(t) \in Nat /\ kept \subseteq 1 .. Len(t)
    BY LenProperties
  <2>2. CASE kept = {}
    BY <2>2, EmptySeq DEF ltrim
  <2>3. CASE kept # {}
    <3>1. Min(kept) \in 1 .. Len(t)
      <4>1. kept \subseteq Nat
        BY <2>1
      <4> HIDE DEF kept
      <4> QED BY <2>1, <2>3, <4>1, FirstOf
    <3>2. Min(kept) \in 1 .. Len(t) + 1 /\ Len(t) \in Min(kept) - 1 .. Len(t)
      <4> HIDE DEF kept
      <4> QED BY <2>1, <3>1
    <3>3. SubSeq(t, Min(kept), Len(t)) \in Seq(Chars)
      <4> HIDE DEF kept
      <4> QED BY <3>2, Slice
    <3> QED BY <2>3, <3>3 DEF ltrim
  <2> QED BY <2>2, <2>3
<1> QED BY <1>1, <1>2 DEF trim

\* The first characters of a text.
LEMMA Beginning ==
  ASSUME NEW s \in Seq(Chars), NEW n \in Nat, n <= Len(s)
  PROVE  /\ SubSeq(s, 1, n) \in Seq(Chars) /\ Len(SubSeq(s, 1, n)) = n
         /\ \A i \in 1 .. n : SubSeq(s, 1, n)[i] = s[i]
<1> DEFINE u == SubSeq(s, 1, n)
<1>1. Len(s) \in Nat
  BY LenProperties
<1>2. /\ 1 \in 1 .. Len(s) + 1 /\ n \in 1 - 1 .. Len(s) /\ n - 1 + 1 = n
      /\ \A i \in 1 .. n : 1 + i - 1 = i
  BY <1>1
<1>3. /\ u \in Seq(Chars) /\ Len(u) = n - 1 + 1
      /\ \A i \in 1 .. n - 1 + 1 : u[i] = s[1 + i - 1]
  BY <1>2, Slice
<1> HIDE DEF u
<1>4. u \in Seq(Chars) /\ Len(u) = n /\ \A i \in 1 .. n : u[i] = s[i]
  BY <1>2, <1>3
<1> QED BY <1>4 DEF u

\* Trimming cuts at the first and the last character that is no blank.
LEMMA Trims ==
  ASSUME NEW s \in Seq(Chars)
  PROVE  \E m \in 1 .. Len(s) + 1 : \E n \in m - 1 .. Len(s) :
           /\ trim(s) = SubSeq(s, m, n)
           /\ m <= n => s[m] \notin Blanks /\ s[n] \notin Blanks
           /\ s # <<>> /\ s[1] \notin Blanks =>
                m = 1 /\ (s[Len(s)] \notin Blanks => n = Len(s))
<1> DEFINE kept == {i \in DOMAIN s : s[i] \notin Blanks}
           r == rtrim(s)
           left == {i \in DOMAIN r : r[i] \notin Blanks}
           n == Max(kept)
           m == Min(left)
<1>1. Len(s) \in Nat /\ DOMAIN s = 1 .. Len(s) /\ (s # <<>> => Len(s) # 0)
  BY LenProperties, EmptySeq
<1>2. kept \subseteq 1 .. Len(s)
  BY <1>1
<1>3. CASE kept = {}
  <2>1. trim(s) = <<>>
    BY <1>3 DEF trim, rtrim, ltrim
  <2>2. SubSeq(s, 1, 0) = <<>>
    BY SubSeqEmpty
  <2>3. s = <<>> \/ s[1] \in Blanks
    BY <1>1, <1>3
  <2>4. 1 \in 1 .. Len(s) + 1 /\ 0 \in 1 - 1 .. Len(s) /\ ~(1 <= 0)
    BY <1>1
  <2> QED BY Zenon, <2>1, <2>2, <2>3, <2>4
<1>4. CASE kept # {}
  <2>1. n \in kept /\ \A i \in kept : i <= n
    <3> HIDE DEF kept
    <3> QED BY <1>1, <1>2, <1>4, LastOf
  <2>2. n \in 1 .. Len(s) /\ s[n] \notin Blanks /\ r = SubSeq(s, 1, n)
    BY <1>2, <1>4, <2>1 DEF rtrim
  <2> HIDE DEF n
  <2>3. r \in Seq(Chars) /\ Len(r) = n /\ \A i \in 1 .. n : r[i] = s[i]
    <3>1. n \in Nat /\ n <= Len(s)
      BY <1>1, <2>2
    <3> QED BY Zenon, <2>2, <3>1, Beginning
  <2> HIDE DEF r
  <2>4. DOMAIN r = 1 .. n
    BY <2>3, LenProperties
  <2>5. left \subseteq Nat /\ n \in left
    BY <2>2, <2>3, <2>4
  <2>6. m \in left /\ \A i \in left : m <= i
    <3> HIDE DEF left
    <3> QED BY <2>5, FirstOf
  <2>7. m \in 1 .. n /\ s[m] \notin Blanks /\ trim(s) = SubSeq(r, m, n)
    <3>1. m \in 1 .. n /\ s[m] \notin Blanks
      BY <2>3, <2>4, <2>6
    <3>2. ltrim(r) = SubSeq(r, m, n)
      BY <2>3, <2>5 DEF ltrim
    <3> QED BY <3>1, <3>2 DEF trim, r
  <2> HIDE DEF m
  <2>8. m \in 1 .. Len(s) + 1 /\ n \in m - 1 .. Len(s)
    BY <1>1, <2>2, <2>7
  <2>9. SubSeq(r, m, n) = SubSeq(s, m, n)
    <3>1. /\ SubSeq(s, m, n) \in Seq(Chars) /\ Len(SubSeq(s, m, n)) = n - m + 1
          /\ \A i \in 1 .. n - m + 1 : SubSeq(s, m, n)[i] = s[m + i - 1]
      BY <2>8, Slice
    <3>2. m \in 1 .. Len(r) + 1 /\ n \in m - 1 .. Len(r)
      BY <1>1, <2>2, <2>3, <2>7
    <3>3. /\ SubSeq(r, m, n) \in Seq(Chars) /\ Len(SubSeq(r, m, n)) = n - m + 1
          /\ \A i \in 1 .. n - m + 1 : SubSeq(r, m, n)[i] = r[m + i - 1]
      BY <2>3, <3>2, Slice
    <3>4. \A i \in 1 .. n - m + 1 : m + i - 1 \in 1 .. n
      BY <2>2, <2>7
    <3>5. \A i \in 1 .. n - m + 1 : SubSeq(r, m, n)[i] = SubSeq(s, m, n)[i]
      BY Zenon, <2>3, <3>1, <3>3, <3>4
    <3> QED BY Zenon, <3>1, <3>3, <3>5, SeqEqual
  <2>10. ASSUME s # <<>>, s[1] \notin Blanks
         PROVE  m = 1 /\ (s[Len(s)] \notin Blanks => n = Len(s))
    <3>1. 1 \in left
      BY <2>2, <2>3, <2>4, <2>10
    <3>2. m = 1
      BY <2>6, <2>7, <3>1 DEF m
    <3>3. s[Len(s)] \notin Blanks => Len(s) \in kept
      BY <1>1, <2>10
    <3>4. ASSUME s[Len(s)] \notin Blanks PROVE n = Len(s)
      <4>1. Len(s) \in kept
        BY <3>3, <3>4
      <4>2. Len(s) <= n
        <5> HIDE DEF kept
        <5> QED BY <2>1, <4>1
      <4>3. n \in Int /\ n <= Len(s) /\ Len(s) \in Int
        BY <1>1, <2>2
      <4> QED BY <4>2, <4>3
    <3> QED BY <3>2, <3>4
  <2> QED BY Zenon, <2>2, <2>7, <2>8, <2>9, <2>10
<1> QED BY <1>3, <1>4

\* A text without blanks at its ends.
Trimmed(s) == s = <<>> \/ (s[1] \notin Blanks /\ s[Len(s)] \notin Blanks)

\* Trimming leaves no blanks at the ends.
LEMMA TrimTrims ==
  ASSUME NEW s \in Seq(Chars)
  PROVE  Trimmed(trim(s))
<1>0. PICK m \in 1 .. Len(s) + 1 : \E n \in m - 1 .. Len(s) :
        trim(s) = SubSeq(s, m, n) /\ (m <= n => s[m] \notin Blanks /\ s[n] \notin Blanks)
  BY Zenon, Trims
<1>1. PICK n \in m - 1 .. Len(s) :
        trim(s) = SubSeq(s, m, n) /\ (m <= n => s[m] \notin Blanks /\ s[n] \notin Blanks)
  BY <1>0
<1> DEFINE t == SubSeq(s, m, n)
<1>2. Len(s) \in Nat
  BY LenProperties
<1>3. t \in Seq(Chars) /\ Len(t) = n - m + 1 /\ \A i \in 1 .. n - m + 1 : t[i] = s[m + i - 1]
  BY Slice
<1> HIDE DEF t
<1>4. CASE m <= n
  <2>1. /\ 1 \in 1 .. n - m + 1 /\ m + 1 - 1 = m
        /\ n - m + 1 \in 1 .. n - m + 1 /\ m + (n - m + 1) - 1 = n
    BY <1>2, <1>4
  <2>2. t[1] = s[m] /\ t[Len(t)] = s[n]
    <3>1. t[1] = s[m + 1 - 1] /\ t[n - m + 1] = s[m + (n - m + 1) - 1]
      BY Zenon, <1>3, <2>1
    <3> QED BY <1>3, <2>1, <3>1
  <2> QED BY Zenon, <1>1, <1>4, <2>2 DEF Trimmed, t
<1>5. CASE ~(m <= n)
  <2>1. Len(t) = 0
    BY <1>2, <1>3, <1>5
  <2>2. t = <<>>
    BY <1>3, <2>1, EmptySeq
  <2> QED BY <1>1, <2>2 DEF Trimmed, t
<1> QED BY <1>4, <1>5

\* A text without blanks at its ends stays as it is.
LEMMA TrimmedStays ==
  ASSUME NEW s \in Seq(Chars), Trimmed(s)
  PROVE  trim(s) = s
<1>0. PICK m \in 1 .. Len(s) + 1 : \E n \in m - 1 .. Len(s) :
        /\ trim(s) = SubSeq(s, m, n)
        /\ s # <<>> /\ s[1] \notin Blanks =>
             m = 1 /\ (s[Len(s)] \notin Blanks => n = Len(s))
  BY Zenon, Trims
<1>1. PICK n \in m - 1 .. Len(s) :
        /\ trim(s) = SubSeq(s, m, n)
        /\ s # <<>> /\ s[1] \notin Blanks =>
             m = 1 /\ (s[Len(s)] \notin Blanks => n = Len(s))
  BY <1>0
<1>2. Len(s) \in Nat
  BY LenProperties
<1>3. CASE s = <<>>
  <2>1. trim(s) \in Seq(Chars) /\ Len(SubSeq(s, m, n)) = n - m + 1 /\ Len(s) = 0
    BY <1>3, TrimIn, Slice, EmptySeq
  <2>2. Len(trim(s)) = 0
    <3>1. n - m + 1 = 0
      BY <2>1
    <3> QED BY <1>1, <2>1, <3>1
  <2> QED BY <1>3, <2>1, <2>2, EmptySeq
<1>4. CASE s # <<>>
  <2>1. m = 1 /\ n = Len(s)
    BY <1>1, <1>4 DEF Trimmed
  <2> QED BY <1>1, <2>1, SubSeqFull
<1> QED BY <1>3, <1>4

\* Trimming a text that starts with no blank cuts its end only.
LEMMA TrimmedEnd ==
  ASSUME NEW s \in Seq(Chars), s = <<>> \/ s[1] \notin Blanks, NEW b \in Seq(Chars),
         IsPrefix(b, trim(s))
  PROVE  IsPrefix(b, s)
<1>0. PICK m \in 1 .. Len(s) + 1 : \E n \in m - 1 .. Len(s) :
        trim(s) = SubSeq(s, m, n) /\ (s # <<>> /\ s[1] \notin Blanks => m = 1)
  BY Zenon, Trims
<1>1. PICK n \in m - 1 .. Len(s) :
        trim(s) = SubSeq(s, m, n) /\ (s # <<>> /\ s[1] \notin Blanks => m = 1)
  BY <1>0
<1>2. Len(s) \in Nat /\ Len(b) \in Nat
  BY LenProperties
<1>3. CASE s = <<>>
  <2>1. trim(s) = s
    BY <1>3, TrimmedStays DEF Trimmed
  <2> QED BY <2>1
<1>4. CASE s # <<>>
  <2> DEFINE t == trim(s)
  <2>1. m = 1 /\ n \in 0 .. Len(s)
    BY <1>1, <1>4
  <2>2. t \in Seq(Chars) /\ Len(t) = n /\ \A i \in 1 .. n : t[i] = s[i]
    <3>1. n \in Nat /\ n <= Len(s)
      BY <1>2, <2>1
    <3>2. trim(s) = SubSeq(s, 1, n)
      BY <1>1, <2>1
    <3> QED BY Zenon, <3>1, <3>2, Beginning
  <2>3. Len(b) <= Len(t) /\ SubSeq(b, 1, Len(b)) = SubSeq(t, 1, Len(b))
    BY DEF IsPrefix
  <2> HIDE DEF t
  <2> DEFINE k == Len(b)
  <2>4. k \in Nat /\ k <= n /\ k <= Len(s) /\ SubSeq(b, 1, k) = SubSeq(t, 1, k)
    BY <1>2, <2>1, <2>2, <2>3
  <2> HIDE DEF k
  <2>5. SubSeq(t, 1, k) = SubSeq(s, 1, k)
    <3>1. k <= Len(t) /\ \A i \in 1 .. k : i \in 1 .. n
      BY <2>1, <2>2, <2>4
    <3>2. /\ SubSeq(s, 1, k) \in Seq(Chars) /\ Len(SubSeq(s, 1, k)) = k
          /\ \A i \in 1 .. k : SubSeq(s, 1, k)[i] = s[i]
      BY Zenon, <2>4, Beginning
    <3>3. /\ SubSeq(t, 1, k) \in Seq(Chars) /\ Len(SubSeq(t, 1, k)) = k
          /\ \A i \in 1 .. k : SubSeq(t, 1, k)[i] = t[i]
      BY Zenon, <2>2, <2>4, <3>1, Beginning
    <3>4. \A i \in 1 .. k : SubSeq(t, 1, k)[i] = SubSeq(s, 1, k)[i]
      BY Zenon, <2>2, <3>1, <3>2, <3>3
    <3> QED BY Zenon, <3>2, <3>3, <3>4, SeqEqual
  <2> QED BY Zenon, <2>4, <2>5 DEF IsPrefix, k
<1> QED BY <1>3, <1>4

\* Without the first n characters a text is a text.
LEMMA DropIn ==
  ASSUME NEW s \in Seq(Chars), NEW t \in Seq(Chars), IsPrefix(t, s)
  PROVE  SubSeq(s, Len(t) + 1, Len(s)) \in Seq(Chars)
<1>1. Len(t) \in Nat /\ Len(s) \in Nat /\ Len(t) <= Len(s)
  BY LenProperties DEF IsPrefix
<1>2. Len(t) + 1 \in 1 .. Len(s) + 1 /\ Len(s) \in (Len(t) + 1) - 1 .. Len(s)
  BY <1>1
<1> QED BY <1>2, Slice

-----------------------------------------------------------------------------
(* What stands in a text, in any case, and what cannot come to stand there *)

\* k, which is in lower case, stands in t after the first p characters.
Stands(t, k, p) == /\ p + Len(k) <= Len(t)
                   /\ \A i \in 1 .. Len(k) : Lower[t[p + i]] = k[i]

\* It stands nowhere.
Without(t, k) == \A p \in Nat : ~Stands(t, k, p)

\* k cannot begin or end in w, nor have w as a part of it.
Apart(k, w) ==
  /\ k # <<>>
  /\ \A i \in 1 .. Len(w) : Lower[w[i]] # k[1] /\ Lower[w[i]] # k[Len(k)]
  /\ \E i \in 1 .. Len(w) : \A j \in 1 .. Len(k) : Lower[w[i]] # k[j]

\* Occurring in the lower case copy is standing in the text.
LEMMA OccursStands ==
  ASSUME NEW t \in Seq(Chars), NEW k \in Seq(Chars), NEW p \in Nat, p + Len(k) <= Len(t)
  PROVE  OccursAt(lowercase(t), k, p) <=> Stands(t, k, p)
<1> DEFINE c == lowercase(t)
           m == Len(k)
           u == SubSeq(c, p + 1, p + m)
<1>1. Len(t) \in Nat /\ m \in Nat
  BY LenProperties
<1>2. c \in Seq(Chars) /\ Len(c) = Len(t) /\ \A i \in 1 .. Len(t) : c[i] = Lower[t[i]]
  BY LowerCase
<1> HIDE DEF c
<1>3. u \in Seq(Chars) /\ Len(u) = m /\ \A i \in 1 .. m : u[i] = c[p + i]
  <2>1. p + m <= Len(c)
    BY <1>2
  <2> HIDE DEF m
  <2> QED BY <1>1, <1>2, <2>1, Cut
<1>4. \A i \in 1 .. m : p + i \in 1 .. Len(t)
  BY <1>1
<1> HIDE DEF u
<1>5. \A i \in 1 .. m : u[i] = Lower[t[p + i]]
  BY Zenon, <1>2, <1>3, <1>4
<1>6. u = k => Stands(t, k, p)
  BY Zenon, <1>5 DEF Stands, m
<1>7. ASSUME Stands(t, k, p) PROVE u = k
  <2>1. \A i \in 1 .. m : u[i] = k[i]
    BY Zenon, <1>5, <1>7 DEF Stands, m
  <2> QED BY Zenon, <1>3, <2>1, SeqEqual DEF m
<1> QED BY Zenon, <1>6, <1>7 DEF OccursAt, u, m, c

\* What find does not find stands nowhere.
LEMMA FindWithout ==
  ASSUME NEW t \in Seq(Chars), NEW k \in Seq(Chars)
  PROVE  find(lowercase(t), k, 0) = npos <=> Without(t, k)
<1> DEFINE c == lowercase(t)
           at == find(c, k, 0)
<1>1. Len(t) \in Nat /\ Len(k) \in Nat
  BY LenProperties
<1>2. c \in Seq(Chars) /\ Len(c) = Len(t)
  BY LowerCase
<1>3. \A p \in Nat : p + Len(k) <= Len(t) => (OccursAt(c, k, p) <=> Stands(t, k, p))
  BY OccursStands
<1> HIDE DEF c
<1>4. /\ at = npos => \A p \in 0 .. Len(c) - Len(k) : ~OccursAt(c, k, p)
      /\ at # npos => at \in 0 .. Len(c) - Len(k) /\ OccursAt(c, k, at)
  BY <1>2, Finds
<1> HIDE DEF at
<1>5. ASSUME at = npos PROVE Without(t, k)
  <2> SUFFICES ASSUME NEW p \in Nat, Stands(t, k, p) PROVE FALSE
    BY DEF Without
  <2>1. p + Len(k) <= Len(t)
    BY DEF Stands
  <2>2. p \in 0 .. Len(c) - Len(k)
    BY <1>1, <1>2, <2>1
  <2> QED BY <1>3, <1>4, <1>5, <2>1, <2>2
<1>6. ASSUME at # npos PROVE ~Without(t, k)
  <2>1. at \in Nat /\ at + Len(k) <= Len(t)
    BY <1>1, <1>2, <1>4, <1>6
  <2> QED BY <1>3, <1>4, <1>6, <2>1 DEF Without
<1> QED BY <1>5, <1>6 DEF at, c

\* A part of a text has nothing that the text does not have.
LEMMA WithoutPart ==
  ASSUME NEW t \in Seq(Chars), NEW k \in Seq(Chars), Without(t, k),
         NEW m \in 1 .. Len(t) + 1, NEW n \in m - 1 .. Len(t)
  PROVE  Without(SubSeq(t, m, n), k)
<1> DEFINE u == SubSeq(t, m, n)
<1>1. Len(t) \in Nat /\ Len(k) \in Nat
  BY LenProperties
<1>2. u \in Seq(Chars) /\ Len(u) = n - m + 1 /\ \A i \in 1 .. n - m + 1 : u[i] = t[m + i - 1]
  BY Slice
<1> HIDE DEF u
<1>3. ASSUME NEW p \in Nat, Stands(u, k, p) PROVE FALSE
  <2> DEFINE q == m - 1 + p
  <2>1. p + Len(k) <= n - m + 1 /\ \A i \in 1 .. Len(k) : Lower[u[p + i]] = k[i]
    BY <1>2, <1>3 DEF Stands
  <2>2. q \in Nat /\ q + Len(k) <= Len(t)
    <3>1. m \in Int /\ n \in Int /\ 1 <= m /\ n <= Len(t)
      BY <1>1
    <3> QED BY <1>1, <2>1, <3>1
  <2>3. \A i \in 1 .. Len(k) : p + i \in 1 .. n - m + 1 /\ m + (p + i) - 1 = q + i
    BY <1>1, <2>1
  <2> HIDE DEF q
  <2>4. \A i \in 1 .. Len(k) : u[p + i] = t[q + i]
    BY Zenon, <1>2, <2>3
  <2>5. Stands(t, k, q)
    BY Zenon, <2>1, <2>2, <2>4 DEF Stands
  <2> QED BY <2>2, <2>5 DEF Without
<1> QED BY <1>3 DEF Without, u

\* Trimming leaves a part.
LEMMA WithoutTrimmed ==
  ASSUME NEW t \in Seq(Chars), NEW k \in Seq(Chars), Without(t, k)
  PROVE  Without(trim(t), k)
<1>1. PICK m \in 1 .. Len(t) + 1 : \E n \in m - 1 .. Len(t) : trim(t) = SubSeq(t, m, n)
  BY Zenon, Trims
<1>2. PICK n \in m - 1 .. Len(t) : trim(t) = SubSeq(t, m, n)
  BY <1>1
<1>3. Without(SubSeq(t, m, n), k)
  BY WithoutPart
<1> QED BY <1>2, <1>3

\* And so does taking its beginning away.
LEMMA WithoutDropped ==
  ASSUME NEW t \in Seq(Chars), NEW k \in Seq(Chars), Without(t, k),
         NEW b \in Seq(Chars), IsPrefix(b, t)
  PROVE  Without(SubSeq(t, Len(b) + 1, Len(t)), k)
<1>1. Len(b) \in Nat /\ Len(t) \in Nat /\ Len(b) <= Len(t)
  BY LenProperties DEF IsPrefix
<1> DEFINE m == Len(b) + 1
<1>2. m \in 1 .. Len(t) + 1 /\ Len(t) \in m - 1 .. Len(t)
  BY <1>1
<1> HIDE DEF m
<1>3. Without(SubSeq(t, m, Len(t)), k)
  BY <1>2, WithoutPart
<1> QED BY <1>3 DEF m

\* What follows the first i characters of k stands in t after the first p characters.
Goes(t, p, k, i) == /\ p + (Len(k) - i) <= Len(t)
                    /\ \A j \in 1 .. Len(k) - i : Lower[t[p + j]] = k[i + j]

\* All of it.
LEMMA GoesStands ==
  ASSUME NEW t \in Seq(Chars), NEW k \in Seq(Chars), NEW p \in Nat
  PROVE  Goes(t, p, k, 0) <=> Stands(t, k, p)
<1>1. Len(k) \in Nat
  BY LenProperties
<1>2. \A n \in Nat : n - 0 = n /\ \A j \in 1 .. n : 0 + j = j
  OBVIOUS
<1> DEFINE n == Len(k)
           z == n - 0
<1>3. z = n /\ \A j \in 1 .. n : 0 + j = j
  BY Zenon, <1>1, <1>2
<1>4. Goes(t, p, k, 0) <=> p + z <= Len(t) /\ \A j \in 1 .. z : Lower[t[p + j]] = k[0 + j]
  BY Zenon DEF Goes
<1> HIDE DEF z
<1>5. Stands(t, k, p) <=> p + n <= Len(t) /\ \A j \in 1 .. n : Lower[t[p + j]] = k[j]
  BY Zenon DEF Stands
<1> HIDE DEF n
<1> QED BY Zenon, <1>3, <1>4, <1>5

\* In two texts joined, what stands behind the first stands in the second.
LEMMA StandsBehind ==
  ASSUME NEW a \in Seq(Chars), NEW v \in Seq(Chars), NEW k \in Seq(Chars), NEW q \in Nat,
         Len(a) <= q, Stands(a \o v, k, q)
  PROVE  q - Len(a) \in Nat /\ Stands(v, k, q - Len(a))
<1> DEFINE e == a \o v
           n == Len(a)
           r == q - n
<1>1. n \in Nat /\ Len(v) \in Nat /\ Len(k) \in Nat
  BY LenProperties
<1>2. /\ e \in Seq(Chars) /\ Len(e) = n + Len(v)
      /\ \A i \in 1 .. n + Len(v) : e[i] = IF i <= n THEN a[i] ELSE v[i - n]
  BY ConcatProperties
<1>3. q + Len(k) <= Len(e) /\ \A i \in 1 .. Len(k) : Lower[e[q + i]] = k[i]
  BY DEF Stands
<1> HIDE DEF e, n
<1>4. n <= q
  BY DEF n
<1>5. r \in Nat /\ r + Len(k) <= Len(v)
  BY <1>1, <1>2, <1>3, <1>4
<1>6. \A i \in 1 .. Len(k) : /\ q + i \in 1 .. n + Len(v) /\ ~(q + i <= n)
                             /\ (q + i) - n = r + i
  BY <1>1, <1>2, <1>3, <1>4
<1> HIDE DEF r
<1>7. \A i \in 1 .. Len(k) : e[q + i] = v[r + i]
  BY Zenon, <1>2, <1>6
<1>8. Stands(v, k, r)
  BY Zenon, <1>3, <1>5, <1>7 DEF Stands
<1> QED BY Zenon, <1>5, <1>8 DEF r, n

\* Where the characters of the first stand there is nothing that is apart from it.
LEMMA ApartBefore ==
  ASSUME NEW w \in Seq(Chars), NEW v \in Seq(Chars), NEW k \in Seq(Chars), Apart(k, w)
  PROVE  /\ \A i \in 0 .. Len(k) - 1 : ~Goes(w \o v, 0, k, i)
         /\ \A q \in Nat : Stands(w \o v, k, q) => Len(w) <= q
<1> DEFINE e == w \o v
           n == Len(w)
           K == Len(k)
<1>1. n \in Nat /\ Len(v) \in Nat /\ K \in Nat \ {0}
  BY LenProperties, EmptySeq DEF Apart
<1>2. /\ e \in Seq(Chars) /\ Len(e) = n + Len(v)
      /\ \A i \in 1 .. n + Len(v) : e[i] = IF i <= n THEN w[i] ELSE v[i - n]
  BY ConcatProperties
<1>3. \A i \in 1 .. n : Lower[w[i]] # k[1] /\ Lower[w[i]] # k[K]
  BY DEF Apart
<1>4. PICK x \in 1 .. n : \A j \in 1 .. K : Lower[w[x]] # k[j]
  BY DEF Apart
<1> HIDE DEF e, n
<1>5. \A i \in 1 .. n : e[i] = w[i]
  BY <1>1, <1>2
<1>6. ASSUME NEW i \in 0 .. K - 1, Goes(e, 0, k, i) PROVE FALSE
  <2>1. \A j \in 1 .. K - i : Lower[e[0 + j]] = k[i + j]
    BY <1>6 DEF Goes
  <2> HIDE DEF K
  <2>2. \A j \in 1 .. K - i : Lower[e[j]] = k[i + j]
    <3>1. \A j \in 1 .. K - i : 0 + j = j
      BY <1>1
    <3> QED BY Zenon, <2>1, <3>1
  <2>3. CASE K - i <= n
    <3>1. K - i \in 1 .. K - i /\ K - i \in 1 .. n /\ i + (K - i) = K
      BY <1>1, <2>3
    <3> QED BY Zenon, <1>3, <1>5, <2>2, <3>1
  <2>4. CASE ~(K - i <= n)
    <3>1. x \in 1 .. K - i /\ i + x \in 1 .. K
      BY <1>1, <2>4
    <3> QED BY Zenon, <1>4, <1>5, <2>2, <3>1
  <2> QED BY <2>3, <2>4
<1>7. ASSUME NEW q \in Nat, Stands(e, k, q), ~(n <= q) PROVE FALSE
  <2>1. 1 \in 1 .. K /\ q + 1 \in 1 .. n
    BY <1>1, <1>7
  <2>2. Lower[e[q + 1]] = k[1]
    BY <1>7, <2>1 DEF Stands
  <2> QED BY Zenon, <1>3, <1>5, <2>1, <2>2
<1> QED BY <1>6, <1>7 DEF e, n

\* One more character at the front.
LEMMA OneBefore ==
  ASSUME NEW c \in Chars, NEW v \in Seq(Chars)
  PROVE  LET e == <<c>> \o v IN
         /\ e \in Seq(Chars) /\ Len(e) = Len(v) + 1 /\ e[1] = c
         /\ \A i \in 1 .. Len(v) : e[i + 1] = v[i]
<1> DEFINE a == <<c>>
           e == a \o v
<1>1. a \in Seq(Chars) /\ Len(a) = 1 /\ a[1] = c /\ Len(v) \in Nat
  BY LenProperties
<1> HIDE DEF a
<1>2. /\ e \in Seq(Chars) /\ Len(e) = Len(a) + Len(v)
      /\ \A i \in 1 .. Len(a) + Len(v) : e[i] = IF i <= Len(a) THEN a[i] ELSE v[i - Len(a)]
  BY <1>1, ConcatProperties
<1> HIDE DEF e
<1>3. /\ 1 \in 1 .. Len(a) + Len(v) /\ 1 <= Len(a) /\ Len(a) + Len(v) = Len(v) + 1
      /\ \A i \in 1 .. Len(v) : /\ i + 1 \in 1 .. Len(a) + Len(v) /\ ~(i + 1 <= Len(a))
                                /\ (i + 1) - Len(a) = i
  BY <1>1
<1>4. /\ e \in Seq(Chars) /\ Len(e) = Len(v) + 1 /\ e[1] = c
      /\ \A i \in 1 .. Len(v) : e[i + 1] = v[i]
  BY Zenon, <1>1, <1>2, <1>3
<1> QED BY <1>4 DEF e, a

\* A pass finds search at position p of t.
Hits(t, search, p) ==
  p + Len(search) <= Len(t) /\ OccursAt(lowercase(t), lowercase(search), p)

\* How the pass out over t goes on at position p: with w for an occurrence of search, or with
\* one character.
PassGoesOn(out, t, search, w, p) ==
  \/ p = Len(t) /\ out[p] = <<>>
  \/ /\ Hits(t, search, p)
     /\ \E r \in p + 1 .. Len(t) : out[r] \in Seq(Chars) /\ out[p] = w \o out[r]
  \/ /\ ~Hits(t, search, p)
     /\ p + 1 \in 1 .. Len(t) /\ t[p + 1] \in Chars
     /\ out[p + 1] \in Seq(Chars) /\ out[p] = <<t[p + 1]>> \o out[p + 1]

\* Every pass does.
LEMMA PassSteps ==
  ASSUME NEW t \in Seq(Chars), NEW search \in Seq(Chars), search # <<>>,
         NEW w \in Seq(Chars), NEW p \in 0 .. Len(t)
  PROVE  PassGoesOn(ReplacedFrom(t, search, w), t, search, w, p)
<1> DEFINE out == ReplacedFrom(t, search, w)
           hit == p + Len(search) <= Len(t) /\ OccursAt(lowercase(t), lowercase(search), p)
           m == Len(search)
<1>1. Len(t) \in Nat /\ m \in Nat \ {0}
  BY LenProperties, EmptySeq
<1>2. /\ \A q \in 0 .. Len(t) : out[q] \in Seq(Chars)
      /\ out[p] = IF p = Len(t) THEN <<>>
                  ELSE IF hit THEN w \o out[p + m]
                  ELSE <<t[p + 1]>> \o out[p + 1]
  BY Zenon, OutUnfolds
<1> HIDE DEF out
<1>3. CASE p = Len(t)
  BY Zenon, <1>2, <1>3 DEF out, PassGoesOn
<1>4. CASE p # Len(t) /\ hit
  <2>1. p + m \in p + 1 .. Len(t) /\ p + m \in 0 .. Len(t)
    BY <1>1, <1>4
  <2>2. out[p + m] \in Seq(Chars) /\ out[p] = w \o out[p + m]
    <3> HIDE DEF hit, m
    <3> QED BY Zenon, <1>2, <1>4, <2>1
  <2> HIDE DEF hit, m
  <2>3. \E r \in p + 1 .. Len(t) : out[r] \in Seq(Chars) /\ out[p] = w \o out[r]
    BY Zenon, <2>1, <2>2
  <2> QED BY Zenon, <1>4, <2>3 DEF out, hit, m, PassGoesOn, Hits
<1>5. CASE p # Len(t) /\ ~hit
  <2>1. p + 1 \in 0 .. Len(t) /\ p + 1 \in 1 .. Len(t)
    BY <1>1, <1>5
  <2>2. t[p + 1] \in Chars
    BY <2>1, ElementOfSeq
  <2> HIDE DEF hit
  <2>3. out[p + 1] \in Seq(Chars) /\ out[p] = <<t[p + 1]>> \o out[p + 1]
    BY Zenon, <1>2, <1>5, <2>1
  <2> QED BY Zenon, <1>5, <2>1, <2>2, <2>3 DEF out, hit, PassGoesOn, Hits
<1> QED BY <1>3, <1>4, <1>5

\* What a pass leaves of k at a position stood there before it.
LEMMA KeptEnd ==
  ASSUME NEW t \in Seq(Chars), NEW search \in Seq(Chars), search # <<>>,
         NEW w \in Seq(Chars), NEW k \in Seq(Chars), Apart(k, w)
  PROVE  LET out == ReplacedFrom(t, search, w) IN
         \A p \in 0 .. Len(t) : \A i \in 0 .. Len(k) - 1 :
           Goes(out[p], 0, k, i) => Goes(t, p, k, i)
<1> DEFINE out == ReplacedFrom(t, search, w)
           X == 0 .. Len(t)
           K == Len(k)
           rank == [p \in X |-> Len(t) - p]
           T == {p \in X : \A i \in 0 .. K - 1 : Goes(out[p], 0, k, i) => Goes(t, p, k, i)}
<1>1. Len(t) \in Nat /\ K \in Nat \ {0}
  BY LenProperties, EmptySeq DEF Apart
<1>2. \A p \in X :
         \/ p = Len(t) /\ out[p] = <<>>
         \/ \E r \in p + 1 .. Len(t) : out[r] \in Seq(Chars) /\ out[p] = w \o out[r]
         \/ /\ p + 1 \in 1 .. Len(t) /\ t[p + 1] \in Chars
            /\ out[p + 1] \in Seq(Chars) /\ out[p] = <<t[p + 1]>> \o out[p + 1]
  <2> HIDE DEF out
  <2>1. \A p \in X : PassGoesOn(out, t, search, w, p)
    BY Zenon, PassSteps DEF out
  <2> QED BY <2>1 DEF PassGoesOn
<1> HIDE DEF out
<1>3. ASSUME NEW p \in X, \A q \in X : rank[q] < rank[p] => q \in T,
             NEW i \in 0 .. K - 1, Goes(out[p], 0, k, i)
      PROVE  Goes(t, p, k, i)
  <2>1. CASE p = Len(t) /\ out[p] = <<>>
    <3>1. 0 + (Len(k) - i) <= Len(<<>>) /\ Len(<<>>) = 0
      BY <1>3, <2>1, EmptySeq DEF Goes
    <3> QED BY <1>1, <3>1
  <2>2. CASE \E r \in p + 1 .. Len(t) : out[r] \in Seq(Chars) /\ out[p] = w \o out[r]
    <3>1. PICK r \in p + 1 .. Len(t) : out[r] \in Seq(Chars) /\ out[p] = w \o out[r]
      BY <2>2
    <3> DEFINE v == out[r]
    <3>2. v \in Seq(Chars) /\ out[p] = w \o v
      BY <3>1
    <3> HIDE DEF v
    <3>3. \A j \in 0 .. Len(k) - 1 : ~Goes(w \o v, 0, k, j)
      BY <3>2, ApartBefore
    <3> QED BY <1>3, <3>2, <3>3
  <2>3. CASE /\ p + 1 \in 1 .. Len(t) /\ t[p + 1] \in Chars
             /\ out[p + 1] \in Seq(Chars) /\ out[p] = <<t[p + 1]>> \o out[p + 1]
    <3> DEFINE v == out[p + 1]
               e == out[p]
               c == t[p + 1]
    <3>1. e = <<c>> \o v /\ v \in Seq(Chars) /\ c \in Chars
      BY <2>3
    <3> HIDE DEF v, c
    <3>2. /\ e \in Seq(Chars) /\ Len(e) = Len(v) + 1 /\ e[1] = c
          /\ \A j \in 1 .. Len(v) : e[j + 1] = v[j]
      <4> DEFINE y == <<c>> \o v
      <4>1. v \in Seq(Chars) /\ c \in Chars /\ e = y
        BY Zenon, <3>1
      <4> HIDE DEF e
      <4>2. /\ y \in Seq(Chars) /\ Len(y) = Len(v) + 1 /\ y[1] = c
            /\ \A j \in 1 .. Len(v) : y[j + 1] = v[j]
        BY Zenon, <4>1, OneBefore
      <4> HIDE DEF y
      <4> QED BY Zenon, <4>1, <4>2
    <3>3. K - i <= Len(e) /\ \A j \in 1 .. K - i : Lower[e[j]] = k[i + j]
      <4> DEFINE z == K - i
      <4>1. 0 + z <= Len(e) /\ \A j \in 1 .. z : Lower[e[0 + j]] = k[i + j]
        BY Zenon, <1>3 DEF Goes
      <4>2. z \in Nat
        BY <1>1
      <4> HIDE DEF e, K, z
      <4>3. 0 + z = z /\ \A j \in 1 .. z : 0 + j = j
        BY <4>2
      <4>4. z <= Len(e) /\ \A j \in 1 .. z : Lower[e[j]] = k[i + j]
        BY Zenon, <4>1, <4>3
      <4> QED BY <4>4 DEF z
    <3> HIDE DEF e
    <3>4. Lower[t[p + 1]] = k[i + 1]
      <4>1. 1 \in 1 .. K - i
        BY <1>1
      <4> HIDE DEF K
      <4> QED BY Zenon, <3>2, <3>3, <4>1 DEF c
    <3>5. CASE i = K - 1
      <4>1. K - i = 1 /\ p + (K - i) <= Len(t) /\ \A j \in 1 .. K - i : j = 1
        BY <1>1, <2>3, <3>5
      <4> QED BY <3>4, <4>1 DEF Goes
    <3>6. CASE i # K - 1
      <4> DEFINE h == i + 1
                 q == p + 1
      <4>1. /\ h \in 0 .. K - 1 /\ q \in X /\ Len(t) - q < Len(t) - p
            /\ \A j \in 1 .. K - h : j \in 1 .. Len(v) /\ j + 1 \in 1 .. K - i
                                      /\ i + (j + 1) = h + j /\ 0 + j = j
            /\ 0 + (K - h) <= Len(v)
        <5>1. Len(v) \in Nat
          BY <3>1, LenProperties
        <5> HIDE DEF K
        <5> QED BY <1>1, <2>3, <3>2, <3>3, <3>6, <5>1
      <4> HIDE DEF h, K
      <4>2. ASSUME NEW j \in 1 .. K - h PROVE Lower[v[0 + j]] = k[h + j]
        <5>1. /\ j \in 1 .. Len(v) /\ j + 1 \in 1 .. K - i
              /\ i + (j + 1) = h + j /\ 0 + j = j
          BY Zenon, <4>1
        <5>2. e[j + 1] = v[j]
          BY Zenon, <3>2, <5>1
        <5>3. Lower[e[j + 1]] = k[i + (j + 1)]
          BY Zenon, <3>3, <5>1
        <5> QED BY Zenon, <5>1, <5>2, <5>3
      <4>3. Goes(v, 0, k, h)
        BY Zenon, <4>1, <4>2 DEF Goes, K
      <4>4. q \in T
        <5> HIDE DEF T, q
        <5> QED BY <1>3, <4>1
      <4>5. Goes(t, q, k, h)
        BY Zenon, <4>1, <4>3, <4>4 DEF v
      <4>6. q + (K - h) <= Len(t) /\ \A j \in 1 .. K - h : Lower[t[q + j]] = k[h + j]
        BY Zenon, <4>5 DEF Goes, K
      <4>7. p + (K - i) <= Len(t)
        BY <1>1, <4>6 DEF h
      <4>8. ASSUME NEW j \in 1 .. K - i PROVE Lower[t[p + j]] = k[i + j]
        <5>1. CASE j = 1
          BY <3>4, <5>1
        <5>2. CASE j # 1
          <6>1. j - 1 \in 1 .. K - h /\ q + (j - 1) = p + j /\ h + (j - 1) = i + j
            BY <1>1, <5>2 DEF h
          <6> HIDE DEF q
          <6> QED BY Zenon, <4>6, <6>1
        <5> QED BY <5>1, <5>2
      <4> QED BY Zenon, <4>7, <4>8 DEF Goes, K
    <3> QED BY <3>5, <3>6
  <2> QED BY Zenon, <1>2, <2>1, <2>2, <2>3
<1>4. X \subseteq T
  <2>1. rank \in [X -> Nat]
    BY <1>1
  <2>2. ASSUME NEW p \in X, \A q \in X : rank[q] < rank[p] => q \in T PROVE p \in T
    <3> HIDE DEF rank
    <3>1. \A i \in 0 .. K - 1 : Goes(out[p], 0, k, i) => Goes(t, p, k, i)
      BY <1>3, <2>2
    <3> QED BY <3>1
  <2> HIDE DEF T, X, rank
  <2> QED BY <2>1, <2>2, Descent
<1> QED BY Zenon, <1>4 DEF out

\* Wherever k stands after a pass it stood somewhere before, where the pass did not find search.
LEMMA KeptWhole ==
  ASSUME NEW t \in Seq(Chars), NEW search \in Seq(Chars), search # <<>>,
         NEW w \in Seq(Chars), NEW k \in Seq(Chars), Apart(k, w)
  PROVE  LET out == ReplacedFrom(t, search, w) IN
         \A p \in 0 .. Len(t) : \A q \in Nat : Stands(out[p], k, q) =>
           \E r \in Nat : Stands(t, k, r) /\ ~Hits(t, search, r)
<1> DEFINE out == ReplacedFrom(t, search, w)
           X == 0 .. Len(t)
           K == Len(k)
           rank == [p \in X |-> Len(t) - p]
           Stood == \E r \in Nat : Stands(t, k, r) /\ ~Hits(t, search, r)
           T == {p \in X : \A q \in Nat : Stands(out[p], k, q) => Stood}
<1>1. Len(t) \in Nat /\ K \in Nat \ {0}
  BY LenProperties, EmptySeq DEF Apart
<1>2. \A p \in X : PassGoesOn(out, t, search, w, p)
  BY Zenon, PassSteps
<1>3. \A p \in X : \A i \in 0 .. K - 1 : Goes(out[p], 0, k, i) => Goes(t, p, k, i)
  BY Zenon, KeptEnd
<1> HIDE DEF out, Stood
<1>4. ASSUME NEW p \in X, \A y \in X : rank[y] < rank[p] => y \in T,
             NEW q \in Nat, Stands(out[p], k, q)
      PROVE  Stood
  <2>0. PassGoesOn(out, t, search, w, p)
    BY Zenon, <1>2
  <2>1. CASE p = Len(t) /\ out[p] = <<>>
    <3>1. q + Len(k) <= Len(<<>>) /\ Len(<<>>) = 0
      BY <1>4, <2>1, EmptySeq DEF Stands
    <3> QED BY <1>1, <3>1
  <2>2. CASE \E r \in p + 1 .. Len(t) : out[r] \in Seq(Chars) /\ out[p] = w \o out[r]
    <3>1. PICK r \in p + 1 .. Len(t) : out[r] \in Seq(Chars) /\ out[p] = w \o out[r]
      BY <2>2
    <3> DEFINE v == out[r]
               n == Len(w)
    <3>2. v \in Seq(Chars) /\ Stands(w \o v, k, q)
      BY <1>4, <3>1
    <3> HIDE DEF v
    <3>3. Len(w) <= q
      BY Zenon, <3>2, ApartBefore
    <3>4. q - Len(w) \in Nat /\ Stands(v, k, q - Len(w))
      BY Zenon, <3>2, <3>3, StandsBehind
    <3>5. r \in X /\ rank[r] < rank[p]
      BY <1>1
    <3>6. r \in T
      <4> HIDE DEF T, rank
      <4> QED BY <1>4, <3>5
    <3> QED BY Zenon, <3>4, <3>6 DEF v
  <2>3. CASE /\ ~Hits(t, search, p)
             /\ p + 1 \in 1 .. Len(t) /\ t[p + 1] \in Chars
             /\ out[p + 1] \in Seq(Chars) /\ out[p] = <<t[p + 1]>> \o out[p + 1]
    <3>1. CASE q = 0
      <4> DEFINE e == out[p]
      <4>1. e \in Seq(Chars)
        <5> DEFINE a == <<t[p + 1]>>
                   v == out[p + 1]
        <5>1. a \in Seq(Chars) /\ v \in Seq(Chars) /\ e = a \o v
          BY <2>3
        <5> HIDE DEF a, v, e
        <5> QED BY <5>1, ConcatProperties
      <4>2. Stands(e, k, 0) /\ 0 \in Nat
        BY <1>4, <3>1
      <4> HIDE DEF e
      <4>3. Goes(e, 0, k, 0)
        BY Zenon, <4>1, <4>2, GoesStands
      <4>4. 0 \in 0 .. K - 1 /\ p \in Nat
        BY <1>1
      <4>5. Goes(t, p, k, 0)
        BY Zenon, <1>3, <4>3, <4>4 DEF e
      <4>6. Stands(t, k, p)
        BY Zenon, <4>4, <4>5, GoesStands
      <4> QED BY Zenon, <2>3, <4>4, <4>6 DEF Stood
    <3>2. CASE q # 0
      <4> DEFINE v == out[p + 1]
                 a == <<t[p + 1]>>
                 y == p + 1
      <4>1. a \in Seq(Chars) /\ Len(a) = 1 /\ v \in Seq(Chars) /\ Stands(a \o v, k, q)
        BY <1>4, <2>3
      <4>2. Len(a) <= q
        BY <3>2, <4>1
      <4> HIDE DEF a, v
      <4>3. q - Len(a) \in Nat /\ Stands(v, k, q - Len(a))
        BY Zenon, <4>1, <4>2, StandsBehind
      <4>4. y \in X /\ rank[y] < rank[p]
        BY <1>1, <2>3
      <4> HIDE DEF y
      <4>5. y \in T
        <5> HIDE DEF T, rank
        <5> QED BY <1>4, <4>4
      <4> QED BY Zenon, <4>3, <4>5 DEF v, y
    <3> QED BY <3>1, <3>2
  <2> QED BY Zenon, <2>0, <2>1, <2>2, <2>3 DEF PassGoesOn
<1>5. X \subseteq T
  <2>1. rank \in [X -> Nat]
    BY <1>1
  <2>2. ASSUME NEW p \in X, \A y \in X : rank[y] < rank[p] => y \in T PROVE p \in T
    <3> HIDE DEF rank
    <3>1. \A q \in Nat : Stands(out[p], k, q) => Stood
      BY <1>4, <2>2
    <3> QED BY <3>1
  <2> HIDE DEF T, X, rank
  <2> QED BY <2>1, <2>2, Descent
<1> QED BY Zenon, <1>5 DEF out, Stood

\* Replacing takes every occurrence away, and brings none of anything else that is apart from
\* what comes in its place.
LEMMA ReplacingRids ==
  ASSUME NEW t \in Seq(Chars), NEW search \in Seq(Chars), search # <<>>,
         NEW w \in Seq(Chars), NEW k \in Seq(Chars), Apart(k, w)
  PROVE  /\ k = lowercase(search) => Without(Replaced(t, search, w), k)
         /\ Without(t, k) => Without(Replaced(t, search, w), k)
<1> DEFINE out == ReplacedFrom(t, search, w)
<1>1. Len(t) \in Nat
  BY LenProperties
<1>2. 0 \in 0 .. Len(t)
  BY <1>1
<1>3. ASSUME NEW q \in Nat, Stands(out[0], k, q)
      PROVE  \E r \in Nat : Stands(t, k, r) /\ ~Hits(t, search, r)
  <2>1. \A p \in 0 .. Len(t) : \A y \in Nat : Stands(out[p], k, y) =>
           \E r \in Nat : Stands(t, k, r) /\ ~Hits(t, search, r)
    BY Zenon, KeptWhole
  <2> HIDE DEF out
  <2> QED BY Zenon, <1>2, <1>3, <2>1
<1>4. Replaced(t, search, w) = out[0]
  BY DEF Replaced
<1> HIDE DEF out
<1>5. ASSUME Without(t, k) PROVE Without(Replaced(t, search, w), k)
  BY Zenon, <1>3, <1>4, <1>5 DEF Without
<1>6. ASSUME k = lowercase(search), NEW r \in Nat, Stands(t, k, r) PROVE Hits(t, search, r)
  <2>1. Len(k) = Len(search)
    BY <1>6, LowerCase
  <2>2. r + Len(k) <= Len(t)
    BY Zenon, <1>6 DEF Stands
  <2>3. OccursAt(lowercase(t), k, r)
    BY Zenon, <1>6, <2>2, OccursStands
  <2> QED BY Zenon, <1>6, <2>1, <2>2, <2>3 DEF Hits
<1>7. ASSUME k = lowercase(search) PROVE Without(Replaced(t, search, w), k)
  BY Zenon, <1>3, <1>4, <1>6, <1>7 DEF Without
<1> QED BY <1>5, <1>7

\* What comes in an occurrence's place at the front of a text brings no blank there.
LEMMA ReplacingFront ==
  ASSUME NEW t \in Seq(Chars), NEW search \in Seq(Chars), search # <<>>,
         NEW w \in Seq(Chars), w # <<>>, w[1] \notin Blanks,
         t # <<>> => t[1] \notin Blanks
  PROVE  Replaced(t, search, w) # <<>> => Replaced(t, search, w)[1] \notin Blanks
<1> DEFINE out == ReplacedFrom(t, search, w)
           e == out[0]
<1>1. Len(t) \in Nat /\ Len(w) \in Nat \ {0}
  BY LenProperties, EmptySeq
<1>2. 0 \in 0 .. Len(t)
  BY <1>1
<1>3. PassGoesOn(out, t, search, w, 0)
  BY Zenon, <1>2, PassSteps
<1> HIDE DEF out
<1>4. CASE e = <<>>
  BY Zenon, <1>4 DEF Replaced, out
<1>5. CASE \E r \in 0 + 1 .. Len(t) : out[r] \in Seq(Chars) /\ e = w \o out[r]
  <2>1. PICK r \in 0 + 1 .. Len(t) : out[r] \in Seq(Chars) /\ e = w \o out[r]
    BY <1>5
  <2> DEFINE v == out[r]
  <2>2. v \in Seq(Chars) /\ e = w \o v
    BY <2>1
  <2> HIDE DEF v, e
  <2>3. e[1] = w[1]
    BY <1>1, <2>2, ConcatProperties
  <2> QED BY Zenon, <2>3 DEF Replaced, out, e
<1>6. CASE /\ 0 + 1 \in 1 .. Len(t) /\ t[0 + 1] \in Chars
           /\ out[0 + 1] \in Seq(Chars) /\ e = <<t[0 + 1]>> \o out[0 + 1]
  <2> DEFINE c == t[1]
             v == out[1]
             y == <<c>> \o v
  <2>1. c \in Chars /\ v \in Seq(Chars) /\ e = y /\ 0 < Len(t)
    BY <1>6
  <2>2. t # <<>>
    BY <2>1, EmptySeq
  <2> HIDE DEF v, e
  <2>3. y[1] = c
    <3> HIDE DEF c
    <3>1. v \in Seq(Chars) /\ c \in Chars
      BY <2>1
    <3> QED BY <3>1, OneBefore
  <2>4. e[1] \notin Blanks
    <3> HIDE DEF y
    <3>1. e[1] = t[1]
      BY Zenon, <2>1, <2>3
    <3> QED BY Zenon, <2>2, <3>1
  <2> QED BY Zenon, <2>4 DEF Replaced, out, e
<1>7. \/ e = <<>>
      \/ \E r \in 0 + 1 .. Len(t) : out[r] \in Seq(Chars) /\ e = w \o out[r]
      \/ /\ 0 + 1 \in 1 .. Len(t) /\ t[0 + 1] \in Chars
         /\ out[0 + 1] \in Seq(Chars) /\ e = <<t[0 + 1]>> \o out[0 + 1]
  BY Zenon, <1>3 DEF PassGoesOn
<1> QED BY Zenon, <1>4, <1>5, <1>6, <1>7

-----------------------------------------------------------------------------
(* The tokeniser *)

\* A token ends at the first space or at the end.
LEMMA TokenEnds ==
  ASSUME NEW s \in Seq(Chars), NEW i \in 1 .. Len(s) + 1
  PROVE  /\ TokenEnd(s, i) \in i .. Len(s) + 1
         /\ TokenEnd(s, i) = Len(s) + 1 \/ s[TokenEnd(s, i)] = Space
<1> DEFINE T == {k \in i .. Len(s) + 1 : k = Len(s) + 1 \/ s[k] = Space}
<1>1. Len(s) \in Nat
  BY LenProperties
<1>2. T \subseteq Nat /\ Len(s) + 1 \in T
  BY <1>1
<1>3. Min(T) \in T
  <2> HIDE DEF T
  <2> QED BY <1>2, FirstOf
<1> QED BY <1>3 DEF TokenEnd

\* The tokeniser ends, with a list of words, and a word ends at a space.
LEMMA TokensUnfold ==
  ASSUME NEW s \in Seq(Chars)
  PROVE  LET tokens == TokensFrom(s) IN
         /\ \A i \in 1 .. Len(s) + 1 : tokens[i] \in Seq(Seq(Chars))
         /\ \A i \in 1 .. Len(s) + 1 :
              tokens[i] = <<SubSeq(s, i, TokenEnd(s, i) - 1)>>
                            \o IF TokenEnd(s, i) = Len(s) + 1 THEN <<>>
                               ELSE tokens[TokenEnd(s, i) + 1]
<1> DEFINE X == 1 .. Len(s) + 1
           V == Seq(Seq(Chars))
           end(i) == TokenEnd(s, i)
           word(i) == <<SubSeq(s, i, end(i) - 1)>>
           stop == {i \in X : end(i) = Len(s) + 1}
           base == [i \in X |-> word(i) \o <<>>]
           next == [i \in X |-> IF end(i) = Len(s) + 1 THEN i ELSE end(i) + 1]
           put == [i \in X |-> [v \in V |-> word(i) \o v]]
           rank == [i \in X |-> Len(s) + 1 - i]
           Body(f, i) == word(i) \o IF end(i) = Len(s) + 1 THEN <<>> ELSE f[end(i) + 1]
           tokens == TokensFrom(s)
<1>1. Len(s) \in Nat
  BY LenProperties
<1>2. \A i \in X : /\ end(i) \in i .. Len(s) + 1
                   /\ end(i) # Len(s) + 1 => /\ end(i) + 1 \in X
                                             /\ Len(s) + 1 - (end(i) + 1) < Len(s) + 1 - i
  <2>1. \A i \in X : end(i) \in i .. Len(s) + 1
    BY TokenEnds
  <2> HIDE DEF end
  <2> QED BY <1>1, <2>1
<1>3. \A i \in X : word(i) \in V
  <2> SUFFICES ASSUME NEW i \in X PROVE word(i) \in V
    OBVIOUS
  <2> HIDE DEF end
  <2>1. i \in 1 .. Len(s) + 1 /\ end(i) - 1 \in i - 1 .. Len(s)
    BY <1>1, <1>2
  <2>2. SubSeq(s, i, end(i) - 1) \in Seq(Chars)
    BY <2>1, Slice
  <2> DEFINE u == SubSeq(s, i, end(i) - 1)
  <2>3. u \in Seq(Chars)
    BY <2>2
  <2> HIDE DEF u
  <2>4. <<u>> \in Seq(Seq(Chars))
    BY <2>3
  <2> QED BY <2>4 DEF u
<1>4. \A t, v : t \in V /\ v \in V => t \o v \in V
  <2> SUFFICES ASSUME NEW t \in V, NEW v \in V PROVE t \o v \in V
    OBVIOUS
  <2> QED BY ConcatProperties
<1>5. <<>> \in V
  BY EmptySeq
<1> HIDE DEF end, word, V
<1>6. Recursion(X, V, rank, stop, base, next, put)
  <2>1. rank \in [X -> Nat]
    BY <1>1
  <2>2. base \in [X -> V]
    <3> HIDE DEF X
    <3> QED BY <1>3, <1>4, <1>5
  <2>3. put \in [X -> [V -> V]]
    <3> HIDE DEF X
    <3> QED BY <1>3, <1>4
  <2>4. next \in [X -> X]
    <3> HIDE DEF X
    <3> QED BY <1>2
  <2>5. \A i \in X \ stop : rank[next[i]] < rank[i]
    <3> SUFFICES ASSUME NEW i \in X, end(i) # Len(s) + 1 PROVE rank[next[i]] < rank[i]
      OBVIOUS
    <3>1. next[i] = end(i) + 1 /\ end(i) + 1 \in X
          /\ Len(s) + 1 - (end(i) + 1) < Len(s) + 1 - i
      BY <1>2
    <3> HIDE DEF next, X
    <3> QED BY <3>1
  <2> HIDE DEF rank, stop, base, next, put, X
  <2> QED BY Zenon, <2>1, <2>2, <2>3, <2>4, <2>5 DEF Recursion
<1>7. PICK g \in [X -> V] : \A i \in X : g[i] = Unfold(g, i, stop, base, next, put)
  <2> HIDE DEF stop, base, next, put, rank, X
  <2> QED BY <1>6, Recursive
<1> HIDE DEF X
<1>8. ASSUME NEW i \in X PROVE g[i] = Body(g, i)
  <2>1. CASE end(i) = Len(s) + 1
    BY Zenon, <1>7, <2>1 DEF Unfold
  <2>2. CASE end(i) # Len(s) + 1
    <3>1. next[i] = end(i) + 1 /\ end(i) + 1 \in X /\ i \notin stop
      BY <1>2, <2>2
    <3>2. g[i] = put[i][g[next[i]]]
      <4> HIDE DEF next, put, stop
      <4> QED BY <1>7, <3>1 DEF Unfold
    <3>3. g[end(i) + 1] \in V
      BY <1>7, <3>1
    <3>4. put[i][g[end(i) + 1]] = word(i) \o g[end(i) + 1]
      BY Zenon, <3>3
    <3> HIDE DEF next, put
    <3> QED BY Zenon, <2>2, <3>1, <3>2, <3>4
  <2> QED BY <2>1, <2>2
<1>9. g = [i \in X |-> Body(g, i)]
  <2> HIDE DEF Body
  <2> QED BY Zenon, <1>7, <1>8
<1>10. tokens = CHOOSE f : f = [i \in X |-> Body(f, i)]
  BY Zenon DEF TokensFrom, X, end, word
<1>11. tokens = [i \in X |-> Body(tokens, i)]
  <2> HIDE DEF Body, tokens
  <2> QED BY Zenon, <1>9, <1>10
<1>12. \A i \in X : tokens[i] = Body(tokens, i)
  <2> HIDE DEF Body, tokens
  <2> QED BY Zenon, <1>11
<1>13. \A i \in X : tokens[i] \in V
  <2> DEFINE T == {i \in X : tokens[i] \in V}
  <2> HIDE DEF tokens
  <2>1. ASSUME NEW i \in X, \A q \in X : rank[q] < rank[i] => q \in T
        PROVE  i \in T
    <3>1. CASE end(i) = Len(s) + 1
      BY <1>3, <1>4, <1>5, <1>12, <3>1
    <3>2. CASE end(i) # Len(s) + 1
      <4>1. end(i) + 1 \in X /\ rank[end(i) + 1] < rank[i]
        BY <1>2, <3>2
      <4>2. tokens[end(i) + 1] \in V
        <5> HIDE DEF rank
        <5> QED BY <2>1, <4>1
      <4>3. tokens[i] = word(i) \o tokens[end(i) + 1]
        BY Zenon, <1>12, <3>2
      <4> QED BY <1>3, <1>4, <4>2, <4>3
    <3> QED BY <3>1, <3>2
  <2>2. rank \in [X -> Nat]
    BY <1>1 DEF X
  <2> HIDE DEF T, rank
  <2>3. X \subseteq T
    BY <2>1, <2>2, Descent
  <2> QED BY <2>3 DEF T
<1> QED BY Zenon, <1>12, <1>13 DEF X, V, end, word

\* Lists with at least one word.
Lists == Seq(Seq(Chars)) \ {<<>>}

\* Joining ends on every list of words.
LEMMA JoinedUnfolds ==
  /\ JoinedAll \in [Lists -> Seq(Chars)]
  /\ \A words \in Lists :
       Joined(words) = IF Len(words) = 1 THEN words[1]
                       ELSE words[1] \o <<Space>> \o Joined(Tail(words))
<1> DEFINE V == Seq(Chars)
           stop == {words \in Lists : Len(words) = 1}
           base == [words \in Lists |-> words[1]]
           next == [words \in Lists |-> IF Len(words) = 1 THEN words ELSE Tail(words)]
           put == [words \in Lists |-> [v \in V |-> words[1] \o <<Space>> \o v]]
           rank == [words \in Lists |-> Len(words)]
           Body(f, words) == IF Len(words) = 1 THEN words[1]
                             ELSE words[1] \o <<Space>> \o f[Tail(words)]
<1>1. \A words \in Lists : Len(words) \in Nat \ {0} /\ words[1] \in V
  <2> SUFFICES ASSUME NEW words \in Lists PROVE Len(words) \in Nat \ {0} /\ words[1] \in V
    OBVIOUS
  <2>1. words \in Seq(V) /\ words # <<>>
    BY DEF Lists
  <2> HIDE DEF V
  <2>2. Len(words) \in Nat \ {0}
    BY <2>1, EmptySeq
  <2>3. 1 \in 1 .. Len(words)
    BY <2>2
  <2> QED BY <2>1, <2>2, <2>3, ElementOfSeq
<1>2. \A words \in Lists : Len(words) # 1 =>
        Tail(words) \in Lists /\ Len(Tail(words)) = Len(words) - 1
  <2> SUFFICES ASSUME NEW words \in Lists, Len(words) # 1
               PROVE  Tail(words) \in Lists /\ Len(Tail(words)) = Len(words) - 1
    OBVIOUS
  <2>1. words \in Seq(V) /\ words # <<>>
    BY DEF Lists
  <2>2. Tail(words) \in Seq(V) /\ Len(Tail(words)) = Len(words) - 1
    <3> HIDE DEF V
    <3> QED BY <2>1, HeadTailProperties
  <2>3. Len(Tail(words)) # 0 /\ Len(<<>>) = 0
    BY <1>1, <2>2
  <2> QED BY <2>2, <2>3 DEF Lists
<1>3. \A w, v : w \in V /\ v \in V => w \o <<Space>> \o v \in V
  <2> SUFFICES ASSUME NEW w \in V, NEW v \in V PROVE w \o <<Space>> \o v \in V
    OBVIOUS
  <2> DEFINE c == <<Space>>
             u == w \o c
  <2>1. c \in V
    BY TextAssumption
  <2> HIDE DEF V, c
  <2>2. u \in V
    BY <2>1, ConcatProperties DEF V
  <2> HIDE DEF u
  <2>3. u \o v \in V
    BY <2>2, ConcatProperties DEF V
  <2> QED BY <2>3 DEF u, c
<1> HIDE DEF V
<1>4. Recursion(Lists, V, rank, stop, base, next, put)
  <2>1. rank \in [Lists -> Nat]
    BY <1>1
  <2>2. base \in [Lists -> V] /\ put \in [Lists -> [V -> V]]
    BY <1>1, <1>3
  <2>3. next \in [Lists -> Lists]
    BY <1>2
  <2>4. \A words \in Lists \ stop : rank[next[words]] < rank[words]
    <3> SUFFICES ASSUME NEW words \in Lists, Len(words) # 1
                 PROVE  rank[next[words]] < rank[words]
      OBVIOUS
    <3>1. next[words] = Tail(words) /\ Tail(words) \in Lists
          /\ rank[Tail(words)] = Len(words) - 1 /\ rank[words] = Len(words)
      BY <1>2
    <3> HIDE DEF next, rank
    <3> QED BY <1>1, <3>1
  <2> HIDE DEF rank, stop, base, next, put
  <2> QED BY Zenon, <2>1, <2>2, <2>3, <2>4 DEF Recursion
<1>5. PICK g \in [Lists -> V] :
        \A words \in Lists : g[words] = Unfold(g, words, stop, base, next, put)
  <2> HIDE DEF stop, base, next, put, rank
  <2> QED BY <1>4, Recursive
<1>6. ASSUME NEW words \in Lists PROVE g[words] = Body(g, words)
  <2>1. CASE Len(words) = 1
    BY Zenon, <1>5, <2>1 DEF Unfold
  <2>2. CASE Len(words) # 1
    <3>1. next[words] = Tail(words) /\ Tail(words) \in Lists /\ words \notin stop
      BY <1>2, <2>2
    <3>2. g[words] = put[words][g[next[words]]]
      <4> HIDE DEF next, put, stop
      <4> QED BY <1>5, <3>1 DEF Unfold
    <3>3. g[Tail(words)] \in V
      BY <1>5, <3>1
    <3>4. put[words][g[Tail(words)]] = words[1] \o <<Space>> \o g[Tail(words)]
      BY Zenon, <3>3
    <3> HIDE DEF next, put
    <3> QED BY Zenon, <2>2, <3>1, <3>2, <3>4
  <2> QED BY <2>1, <2>2
<1>7. g = [words \in Lists |-> Body(g, words)]
  <2> HIDE DEF Body
  <2> QED BY Zenon, <1>5, <1>6
<1>8. JoinedAll = CHOOSE f : f = [words \in Lists |-> Body(f, words)]
  BY Zenon DEF JoinedAll, Lists
<1>9. JoinedAll = [words \in Lists |-> Body(JoinedAll, words)]
  <2> HIDE DEF Body
  <2> QED BY Zenon, <1>7, <1>8
<1>10. \A words \in Lists : JoinedAll[words] = Body(JoinedAll, words)
  <2> HIDE DEF Body
  <2> QED BY Zenon, <1>9
<1>11. \A words \in Lists : JoinedAll[words] \in V
  <2> DEFINE T == {words \in Lists : JoinedAll[words] \in V}
  <2>1. ASSUME NEW words \in Lists, \A q \in Lists : rank[q] < rank[words] => q \in T
        PROVE  words \in T
    <3>1. CASE Len(words) = 1
      BY <1>1, <1>10, <3>1
    <3>2. CASE Len(words) # 1
      <4>1. Tail(words) \in Lists /\ rank[Tail(words)] < rank[words]
        <5>1. /\ Tail(words) \in Lists
              /\ rank[Tail(words)] = Len(words) - 1 /\ rank[words] = Len(words)
          BY <1>2, <3>2
        <5> HIDE DEF rank
        <5> QED BY <1>1, <5>1
      <4>2. JoinedAll[Tail(words)] \in V
        <5> HIDE DEF rank
        <5> QED BY <2>1, <4>1
      <4>3. JoinedAll[words] = words[1] \o <<Space>> \o JoinedAll[Tail(words)]
        BY Zenon, <1>10, <3>2
      <4> QED BY <1>1, <1>3, <4>2, <4>3
    <3> QED BY <3>1, <3>2
  <2>2. rank \in [Lists -> Nat]
    BY <1>1
  <2> HIDE DEF T, rank
  <2>3. Lists \subseteq T
    BY <2>1, <2>2, Descent
  <2> QED BY <2>3 DEF T
<1>12. JoinedAll \in [Lists -> V]
  <2> HIDE DEF Body
  <2> QED BY <1>9, <1>11
<1> QED BY Zenon, <1>10, <1>12 DEF V, Joined

\* A list that begins with a word and goes on with another list.
LEMMA FirstAndRest ==
  ASSUME NEW S, NEW w \in S, NEW rest \in Seq(S)
  PROVE  LET words == <<w>> \o rest IN
         /\ words \in Seq(S) /\ words # <<>> /\ Len(words) = Len(rest) + 1
         /\ words[1] = w /\ Tail(words) = rest
<1> DEFINE one == <<w>>
           words == one \o rest
<1>1. one \in Seq(S) /\ Len(one) = 1 /\ one[1] = w
  OBVIOUS
<1>2. Len(rest) \in Nat
  BY LenProperties
<1> HIDE DEF one
<1>3. /\ words \in Seq(S) /\ Len(words) = Len(one) + Len(rest)
      /\ \A i \in 1 .. Len(one) + Len(rest) :
           words[i] = IF i <= Len(one) THEN one[i] ELSE rest[i - Len(one)]
  BY <1>1, ConcatProperties
<1> HIDE DEF words
<1>4. Len(words) = Len(rest) + 1 /\ Len(words) # 0 /\ words # <<>>
  <2>1. Len(words) = Len(rest) + 1 /\ Len(words) # 0
    BY <1>1, <1>2, <1>3
  <2> QED BY <2>1, EmptySeq
<1>5. words[1] = w
  BY <1>1, <1>2, <1>3
<1>6. /\ Tail(words) \in Seq(S) /\ Len(Tail(words)) = Len(words) - 1
      /\ \A i \in 1 .. Len(Tail(words)) : Tail(words)[i] = words[i + 1]
  BY <1>3, <1>4, HeadTailProperties
<1>7. Len(Tail(words)) = Len(rest)
  BY <1>2, <1>4, <1>6
<1>8. ASSUME NEW i \in 1 .. Len(rest) PROVE Tail(words)[i] = rest[i]
  <2>1. i + 1 \in 1 .. Len(one) + Len(rest) /\ ~(i + 1 <= Len(one)) /\ i + 1 - Len(one) = i
    BY <1>1, <1>2
  <2>2. words[i + 1] = rest[i]
    BY <1>3, <2>1
  <2> QED BY <1>6, <1>7, <2>2
<1>9. Tail(words) = rest
  BY Zenon, <1>6, <1>7, <1>8, SeqEqual
<1> QED BY Zenon, <1>3, <1>4, <1>5, <1>9 DEF words, one

\* The words from a position on, joined again, are what stands there.
LEMMA TokensJoin ==
  ASSUME NEW s \in Seq(Chars)
  PROVE  \A i \in 1 .. Len(s) + 1 : /\ TokensFrom(s)[i] \in Lists
                                    /\ Joined(TokensFrom(s)[i]) = SubSeq(s, i, Len(s))
<1> DEFINE X == 1 .. Len(s) + 1
           tokens == TokensFrom(s)
           rank == [i \in X |-> Len(s) + 1 - i]
           T == {i \in X : tokens[i] \in Lists /\ Joined(tokens[i]) = SubSeq(s, i, Len(s))}
<1>1. Len(s) \in Nat
  BY LenProperties
<1>2. \A i \in X : /\ TokenEnd(s, i) \in i .. Len(s) + 1
                   /\ TokenEnd(s, i) = Len(s) + 1 \/ s[TokenEnd(s, i)] = Space
  BY TokenEnds
<1>3. \A i \in X :
        tokens[i] = <<SubSeq(s, i, TokenEnd(s, i) - 1)>>
                      \o IF TokenEnd(s, i) = Len(s) + 1 THEN <<>>
                         ELSE tokens[TokenEnd(s, i) + 1]
  BY Zenon, TokensUnfold
<1> HIDE DEF tokens
<1>4. ASSUME NEW i \in X, \A j \in X : rank[j] < rank[i] => j \in T
      PROVE  i \in T
  <2> DEFINE end == TokenEnd(s, i)
             w == SubSeq(s, i, end - 1)
  <2>1. end \in i .. Len(s) + 1 /\ (end = Len(s) + 1 \/ s[end] = Space)
    BY <1>2
  <2>2. w \in Seq(Chars)
    <3>1. i \in 1 .. Len(s) + 1 /\ end - 1 \in i - 1 .. Len(s)
      BY <1>1, <2>1
    <3> QED BY <3>1, Slice
  <2>3. tokens[i] = <<w>> \o IF end = Len(s) + 1 THEN <<>> ELSE tokens[end + 1]
    BY <1>3
  <2> HIDE DEF end
  <2>4. CASE end = Len(s) + 1
    <3> HIDE DEF w
    <3>1. tokens[i] = <<w>> \o <<>>
      BY <2>3, <2>4
    <3>2. <<>> \in Seq(Seq(Chars)) /\ Len(<<>>) + 1 = 1
      BY EmptySeq
    <3>3. LET words == <<w>> \o <<>> IN
          /\ words \in Seq(Seq(Chars)) /\ words # <<>> /\ Len(words) = Len(<<>>) + 1
          /\ words[1] = w /\ Tail(words) = <<>>
      BY Zenon, <2>2, <3>2, FirstAndRest
    <3>4. tokens[i] \in Lists /\ Len(tokens[i]) = 1 /\ tokens[i][1] = w
      BY Zenon, <3>1, <3>2, <3>3 DEF Lists
    <3>5. Joined(tokens[i]) = w
      BY <3>4, JoinedUnfolds
    <3>6. end - 1 = Len(s)
      BY <1>1, <2>4
    <3>7. w = SubSeq(s, i, Len(s))
      BY Zenon, <3>6 DEF w
    <3> QED BY <3>4, <3>5, <3>7
  <2>5. CASE end # Len(s) + 1
    <3> DEFINE rest == tokens[end + 1]
    <3>1. end + 1 \in X /\ Len(s) + 1 - (end + 1) < Len(s) + 1 - i /\ end \in 1 .. Len(s)
      BY <1>1, <2>1, <2>5
    <3>2. rest \in Lists /\ Joined(rest) = SubSeq(s, end + 1, Len(s))
      <4>1. end + 1 \in T
        <5> HIDE DEF T
        <5> QED BY <1>4, <3>1
      <4> QED BY <4>1
    <3>3. tokens[i] = <<w>> \o rest
      BY <2>3, <2>5
    <3> HIDE DEF w, rest
    <3>4. rest \in Seq(Seq(Chars)) /\ rest # <<>>
      BY <3>2 DEF Lists
    <3>5. LET words == <<w>> \o rest IN
          /\ words \in Seq(Seq(Chars)) /\ words # <<>> /\ Len(words) = Len(rest) + 1
          /\ words[1] = w /\ Tail(words) = rest
      BY Zenon, <2>2, <3>4, FirstAndRest
    <3>6. /\ tokens[i] \in Lists /\ Len(tokens[i]) = Len(rest) + 1
          /\ tokens[i][1] = w /\ Tail(tokens[i]) = rest
      BY Zenon, <3>3, <3>5 DEF Lists
    <3>7. Len(tokens[i]) # 1
      <4>1. Len(rest) \in Nat \ {0}
        BY <3>4, EmptySeq
      <4> QED BY <3>6, <4>1
    <3>8. Joined(tokens[i]) = (w \o <<Space>>) \o SubSeq(s, end + 1, Len(s))
      BY Zenon, <3>2, <3>6, <3>7, JoinedUnfolds
    <3>9. w \o <<Space>> = SubSeq(s, i, end)
      <4>1. end \in i .. Len(s) /\ i \in 1 .. Len(s)
        BY <1>1, <2>1, <3>1
      <4>2. SubSeq(s, i, end) = SubSeq(s, i, end - 1) \o <<s[end]>>
        BY <4>1, SubSeqRecursiveSecond
      <4>3. s[end] = Space
        BY <2>1, <2>5
      <4> QED BY <4>2, <4>3 DEF w
    <3>10. SubSeq(s, i, end) \o SubSeq(s, end + 1, Len(s)) = SubSeq(s, i, Len(s))
      <4>1. i \in 1 .. Len(s) + 1 /\ end \in i - 1 .. Len(s) /\ Len(s) \in end .. Len(s)
        BY <1>1, <2>1, <3>1
      <4> QED BY <4>1, ConcatAdjacentSubSeq
    <3>11. Joined(tokens[i]) = SubSeq(s, i, Len(s))
      BY <3>8, <3>9, <3>10
    <3> QED BY <3>6, <3>11
  <2> QED BY <2>4, <2>5
<1>5. X \subseteq T
  <2>1. rank \in [X -> Nat]
    BY <1>1
  <2> HIDE DEF T, rank, X
  <2> QED BY <1>4, <2>1, Descent
<1> QED BY <1>5 DEF tokens

\* Without its first character a text is still what follows.
LEMMA TailJoin ==
  ASSUME NEW w \in Seq(Chars), w # <<>>, NEW t \in Seq(Chars)
  PROVE  Tail(w) \in Seq(Chars) /\ Tail(w \o t) = Tail(w) \o t
<1> DEFINE u == w \o t
<1>1. Len(w) \in Nat \ {0} /\ Len(t) \in Nat
  BY EmptySeq, LenProperties
<1>2. /\ u \in Seq(Chars) /\ Len(u) = Len(w) + Len(t)
      /\ \A i \in 1 .. Len(w) + Len(t) : u[i] = IF i <= Len(w) THEN w[i] ELSE t[i - Len(w)]
  BY ConcatProperties
<1> HIDE DEF u
<1>3. u # <<>>
  <2>1. Len(u) # 0
    BY <1>1, <1>2
  <2> QED BY <2>1, EmptySeq
<1>4. /\ Tail(u) \in Seq(Chars) /\ Len(Tail(u)) = Len(w) + Len(t) - 1
      /\ \A i \in 1 .. Len(w) + Len(t) - 1 : Tail(u)[i] = u[i + 1]
  BY <1>2, <1>3, HeadTailProperties
<1> DEFINE v == Tail(w)
<1>5. v \in Seq(Chars) /\ Len(v) = Len(w) - 1 /\ \A i \in 1 .. Len(w) - 1 : v[i] = w[i + 1]
  BY HeadTailProperties
<1> HIDE DEF v
<1>6. /\ v \o t \in Seq(Chars) /\ Len(v \o t) = Len(v) + Len(t)
      /\ \A i \in 1 .. Len(v) + Len(t) : (v \o t)[i] = IF i <= Len(v) THEN v[i] ELSE t[i - Len(v)]
  BY <1>5, ConcatProperties
<1>7. Len(v \o t) = Len(w) + Len(t) - 1 /\ Len(v) + Len(t) = Len(w) + Len(t) - 1
  BY <1>1, <1>5, <1>6
<1>8. ASSUME NEW i \in 1 .. Len(w) + Len(t) - 1 PROVE Tail(u)[i] = (v \o t)[i]
  <2>1. i + 1 \in 1 .. Len(w) + Len(t) /\ i \in 1 .. Len(v) + Len(t)
    BY <1>1, <1>7
  <2>2. Tail(u)[i] = IF i + 1 <= Len(w) THEN w[i + 1] ELSE t[i + 1 - Len(w)]
    BY <1>2, <1>4, <2>1
  <2>3. (v \o t)[i] = IF i <= Len(v) THEN v[i] ELSE t[i - Len(v)]
    BY <1>6, <2>1
  <2>4. CASE i <= Len(v)
    <3>1. i + 1 <= Len(w) /\ i \in 1 .. Len(w) - 1
      BY <1>1, <1>5, <2>4
    <3> QED BY <1>5, <2>2, <2>3, <2>4, <3>1
  <2>5. CASE ~(i <= Len(v))
    <3>1. ~(i + 1 <= Len(w)) /\ i + 1 - Len(w) = i - Len(v)
      BY <1>1, <1>5, <2>5
    <3> QED BY Zenon, <2>2, <2>3, <2>5, <3>1
  <2> QED BY <2>4, <2>5
<1>9. Tail(u) = v \o t
  BY Zenon, <1>4, <1>6, <1>7, <1>8, SeqEqual
<1> QED BY <1>5, <1>9 DEF u, v

\* A command's words, the first without the prefix, are what follows the prefix.
THEOREM CommandJoins ==
  ASSUME NEW s \in Seq(Chars), s # <<>>, s[1] # Space
  PROVE  LET words == Tokens(s)
             rest  == [words EXCEPT ![1] = Tail(@)] IN
         /\ words \in Lists /\ words[1] # <<>>
         /\ rest \in Lists /\ Joined(rest) = Tail(s)
<1> DEFINE words == Tokens(s)
           w == words[1]
           rest == [words EXCEPT ![1] = Tail(w)]
<1>1. Len(s) \in Nat \ {0}
  BY EmptySeq
<1>2. words \in Lists /\ Joined(words) = s
  <2>1. 1 \in 1 .. Len(s) + 1
    BY <1>1
  <2>2. TokensFrom(s)[1] \in Lists /\ Joined(TokensFrom(s)[1]) = SubSeq(s, 1, Len(s))
    BY <2>1, TokensJoin
  <2> QED BY <2>2, SubSeqFull DEF Tokens
<1>3. w # <<>>
  <2> DEFINE end == TokenEnd(s, 1)
             v == SubSeq(s, 1, end - 1)
             more == IF end = Len(s) + 1 THEN <<>> ELSE TokensFrom(s)[end + 1]
  <2>1. 1 \in 1 .. Len(s) + 1
    BY <1>1
  <2>2. end \in 1 .. Len(s) + 1 /\ (end = Len(s) + 1 \/ s[end] = Space)
    BY <2>1, TokenEnds
  <2>3. words = <<v>> \o more
    BY Zenon, <2>1, TokensUnfold DEF Tokens
  <2>4. more \in Seq(Seq(Chars))
    <3>1. CASE end = Len(s) + 1
      BY <3>1, EmptySeq
    <3>2. CASE end # Len(s) + 1
      <4> HIDE DEF end
      <4>1. end + 1 \in 1 .. Len(s) + 1
        BY <1>1, <2>2, <3>2
      <4>2. TokensFrom(s)[end + 1] \in Seq(Seq(Chars))
        BY <4>1, TokensUnfold
      <4> QED BY <3>2, <4>2
    <3> QED BY <3>1, <3>2
  <2> HIDE DEF end, more
  <2>5. v \in Seq(Chars) /\ Len(v) = end - 1
    <3>1. end - 1 \in 1 - 1 .. Len(s) /\ end - 1 - 1 + 1 = end - 1
      BY <1>1, <2>2
    <3>2. v \in Seq(Chars) /\ Len(v) = end - 1 - 1 + 1
      BY <2>1, <3>1, Slice
    <3> QED BY <3>1, <3>2
  <2> HIDE DEF v, words
  <2>6. words[1] = v
    <3>1. (<<v>> \o more)[1] = v
      BY Zenon, <2>4, <2>5, FirstAndRest
    <3> QED BY Zenon, <2>3, <3>1
  <2>7. end - 1 # 0
    BY <1>1, <2>2
  <2>8. v # <<>>
    BY <2>5, <2>7, EmptySeq
  <2> QED BY <2>6, <2>8
<1> HIDE DEF words
<1>4. words \in Seq(Seq(Chars)) /\ words # <<>>
  BY <1>2 DEF Lists
<1>5. Len(words) \in Nat \ {0}
  BY <1>4, EmptySeq
<1>6. w \in Seq(Chars)
  <2>1. 1 \in 1 .. Len(words)
    BY <1>5
  <2> QED BY <1>4, <2>1, ElementOfSeq
<1> HIDE DEF w
<1>7. Tail(w) \in Seq(Chars)
  BY <1>3, <1>6, HeadTailProperties
<1>8. /\ rest \in Seq(Seq(Chars)) /\ Len(rest) = Len(words)
      /\ \A j \in 1 .. Len(words) : rest[j] = IF j = 1 THEN Tail(w) ELSE words[j]
  <2>1. 1 \in 1 .. Len(words)
    BY <1>5
  <2> DEFINE x == Tail(w)
  <2>2. x \in Seq(Chars)
    BY <1>7
  <2> HIDE DEF x
  <2>3. /\ [words EXCEPT ![1] = x] \in Seq(Seq(Chars))
        /\ Len([words EXCEPT ![1] = x]) = Len(words)
        /\ \A j \in 1 .. Len(words) :
             [words EXCEPT ![1] = x][j] = IF j = 1 THEN x ELSE words[j]
    BY <1>4, <2>1, <2>2, ExceptSeq
  <2> QED BY <2>3 DEF x
<1> HIDE DEF rest
<1>9. rest \in Lists /\ rest[1] = Tail(w)
  <2>1. rest # <<>>
    BY <1>5, <1>8, EmptySeq
  <2>2. 1 \in 1 .. Len(words)
    BY <1>5
  <2> QED BY <1>8, <2>1, <2>2 DEF Lists
<1>10. Joined(rest) = Tail(s)
  <2>1. CASE Len(words) = 1
    <3>1. Joined(words) = w
      BY <1>2, <2>1, JoinedUnfolds DEF w
    <3>2. Joined(rest) = Tail(w)
      BY <1>8, <1>9, <2>1, JoinedUnfolds
    <3> QED BY <1>2, <3>1, <3>2
  <2>2. CASE Len(words) # 1
    <3> DEFINE t == Tail(words)
               c == <<Space>>
    <3>1. /\ t \in Seq(Seq(Chars)) /\ Len(t) = Len(words) - 1
          /\ \A i \in 1 .. Len(t) : t[i] = words[i + 1]
      BY <1>4, HeadTailProperties
    <3>2. /\ Tail(rest) \in Seq(Seq(Chars)) /\ Len(Tail(rest)) = Len(words) - 1
          /\ \A i \in 1 .. Len(words) - 1 : Tail(rest)[i] = rest[i + 1]
      <4>1. rest # <<>>
        BY <1>9 DEF Lists
      <4> QED BY <1>8, <4>1, HeadTailProperties
    <3> HIDE DEF t
    <3>3. ASSUME NEW i \in 1 .. Len(t) PROVE t[i] = Tail(rest)[i]
      <4>1. i + 1 \in 1 .. Len(words) /\ i + 1 # 1 /\ i \in 1 .. Len(words) - 1
        BY <1>5, <3>1
      <4> QED BY <1>8, <3>1, <3>2, <4>1
    <3>4. Tail(rest) = t
      <4> DEFINE v == Tail(rest)
      <4>1. v \in Seq(Seq(Chars)) /\ Len(t) = Len(v) /\ \A i \in 1 .. Len(t) : t[i] = v[i]
        BY <3>1, <3>2, <3>3
      <4> HIDE DEF v
      <4>2. t = v
        BY Zenon, <3>1, <4>1, SeqEqual
      <4> QED BY <4>2 DEF v
    <3>5. t \in Lists
      <4>1. Len(t) # 0
        BY <1>5, <2>2, <3>1
      <4> QED BY <3>1, <4>1, EmptySeq DEF Lists
    <3> DEFINE x == Joined(t)
    <3>6. x \in Seq(Chars) /\ c \in Seq(Chars)
      <4>1. Joined(t) \in Seq(Chars)
        BY <3>5, JoinedUnfolds DEF Joined
      <4> QED BY <4>1, TextAssumption
    <3>7. s = (w \o <<Space>>) \o Joined(t)
      BY Zenon, <1>2, <2>2, JoinedUnfolds DEF t, w
    <3>8. Joined(rest) = (Tail(w) \o <<Space>>) \o Joined(t)
      <4>1. Len(rest) # 1
        BY <1>8, <2>2
      <4> QED BY Zenon, <1>9, <3>4, <4>1, JoinedUnfolds
    <3>9. s = (w \o c) \o x /\ Joined(rest) = (Tail(w) \o c) \o x
      BY <3>7, <3>8
    <3> HIDE DEF x, c
    <3> DEFINE y == c \o x
    <3>10. y \in Seq(Chars)
      BY <3>6, ConcatProperties
    <3>11. (w \o c) \o x = w \o y /\ (Tail(w) \o c) \o x = Tail(w) \o y
      <4> DEFINE v == Tail(w)
      <4>1. v \in Seq(Chars)
        BY <1>7
      <4> HIDE DEF v
      <4>2. (w \o c) \o x = w \o y
        BY <1>6, <3>6, Associative
      <4>3. (v \o c) \o x = v \o y
        BY <3>6, <4>1, Associative
      <4> QED BY <4>2, <4>3 DEF v
    <3> HIDE DEF y
    <3>12. Tail(w \o y) = Tail(w) \o y
      BY <1>3, <1>6, <3>10, TailJoin
    <3> QED BY <3>9, <3>11, <3>12
  <2> QED BY <2>1, <2>2
<1> QED BY Zenon, <1>2, <1>3, <1>9, <1>10 DEF words, w, rest

=============================================================================
