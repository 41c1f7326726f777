-------------------------------- MODULE Text --------------------------------
(***************************************************************************)
(* The string utilities of util.cpp and util.hpp and the tokeniser of      *)
(* Bot::onMessage, over strings as sequences of characters.  Lower is what *)
(* tolower does to each character; Blanks are what trim removes.           *)
(***************************************************************************)
EXTENDS Integers, Sequences, SequencesExt, FiniteSetsExt

CONSTANTS Chars, Lower, Space, Blanks

ASSUME TextAssumption ==
  /\ Lower \in [Chars -> Chars]
  /\ \A c \in Chars : Lower[Lower[c]] = Lower[c]
  /\ Space \in Blanks
  /\ Blanks \subseteq Chars

npos == -1

lowercase(s) == [i \in DOMAIN s |-> Lower[s[i]]]

\* sub stands in s at position p, counted from 0.
OccursAt(s, sub, p) == SubSeq(s, p + 1, p + Len(sub)) = sub

\* std::string::find(sub, pos)
find(s, sub, pos) ==
  LET at == {p \in pos .. Len(s) - Len(sub) : OccursAt(s, sub, p)}
  IN  IF at = {} THEN npos ELSE Min(at)

\* std::string::replace(pos, n, with)
replace(s, pos, n, with) == SubSeq(s, 1, pos) \o with \o SubSeq(s, pos + n + 1, Len(s))

\* What the loop of ReplaceString edits: a string and its lower case copy.
Edits == {e \in [subject : Seq(Chars), subject_lc : Seq(Chars), from : Nat] :
            Len(e.subject) = Len(e.subject_lc)}

\* One round: the occurrence at pos gives way in both, the search goes on after it.
Edited(e, pos, search, with) ==
  [subject    |-> replace(e.subject, pos, Len(search), with),
   subject_lc |-> replace(e.subject_lc, pos, Len(search), lowercase(with)),
   from       |-> pos + Len(with)]

\* The loop, which searches the copy.  search is not empty.
ReplaceFrom(search, with) ==
  LET loop[e \in Edits] ==
        LET pos == find(e.subject_lc, lowercase(search), e.from)
        IN  IF pos = npos THEN e.subject ELSE loop[Edited(e, pos, search, with)]
  IN  loop

\* Mutant of ReplaceString: one occurrence only.
ReplaceFirst(subject, search, with) ==
  LET pos == find(lowercase(subject), lowercase(search), 0)
  IN  IF pos = npos THEN subject ELSE replace(subject, pos, Len(search), with)

ReplaceString(subject, search, with) ==
  ReplaceFrom(search, with)[[subject |-> subject, subject_lc |-> lowercase(subject),
                             from |-> 0]]

\* erase(find_last_not_of(blanks) + 1): everything when there is only blanks.
rtrim(s) == LET kept == {i \in DOMAIN s : s[i] \notin Blanks}
            IN  IF kept = {} THEN <<>> ELSE SubSeq(s, 1, Max(kept))

\* erase(0, find_first_not_of(blanks))
ltrim(s) == LET kept == {i \in DOMAIN s : s[i] \notin Blanks}
            IN  IF kept = {} THEN <<>> ELSE SubSeq(s, Min(kept), Len(s))

trim(s) == ltrim(rtrim(s))

\* The inner loop of onMessage's tokeniser: to the next space or the terminator.
TokenEnd(s, i) == Min({k \in i .. Len(s) + 1 : k = Len(s) + 1 \/ s[k] = Space})

\* The do loop: a token ends at a space or at the end, and two spaces have an
\* empty token between them.
TokensFrom(s) ==
  LET tokens[i \in 1 .. Len(s) + 1] ==
        LET end == TokenEnd(s, i)
        IN  <<SubSeq(s, i, end - 1)>>
              \o IF end = Len(s) + 1 THEN <<>> ELSE tokens[end + 1]
  IN  tokens

Tokens(s) == TokensFrom(s)[1]

-----------------------------------------------------------------------------
(* References *)

\* s read once from the left, each occurrence of search, in any case, replaced.
ReplacedFrom(s, search, with) ==
  LET out[p \in 0 .. Len(s)] ==
        IF p = Len(s) THEN <<>>
        ELSE IF p + Len(search) <= Len(s) /\ OccursAt(lowercase(s), lowercase(search), p)
             THEN with \o out[p + Len(search)]
             ELSE <<s[p + 1]>> \o out[p + 1]
  IN  out

Replaced(s, search, with) == ReplacedFrom(s, search, with)[0]

\* The words with a space between each two.
JoinedAll ==
  LET joined[words \in Seq(Seq(Chars)) \ {<<>>}] ==
        IF Len(words) = 1 THEN words[1]
        ELSE words[1] \o <<Space>> \o joined[Tail(words)]
  IN  joined

Joined(words) == JoinedAll[words]

=============================================================================
