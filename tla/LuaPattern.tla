----------------------------- MODULE LuaPattern -----------------------------
(***************************************************************************)
(* What a Lua pattern means: the specification that the matcher of         *)
(* lstrlib.c is checked against.  A pattern is a sequence of items, each   *)
(* with its text.  A match is a vector of positions, the place where each  *)
(* item begins and, last, where the match ends; of the matches at one      *)
(* start the preferred one is taken: from the left, an item repeats as     *)
(* often as it can, or, when it is lazy, as seldom as it can.              *)
(***************************************************************************)
EXTENDS Integers, Sequences, FiniteSets, SequencesExt, FiniteSetsExt

NUL == "NUL"
\* The characters in use, in the order of their codes.
Ascii == <<NUL, " ", "%", "(", ")", "*", "+", "-", ".", "0", "1", "2", "?", "A", "[", "]", "^", "a", "b", "c">>
Letters == {"A", "a", "b", "c"}
Chars == ToSet(Ascii)

(***************************************************************************)
(* The items.                                                              *)
(***************************************************************************)
Item(kind, text, has) == [kind |-> kind, text |-> text, has |-> has, rep |-> "1", n |-> 0]
\* A class of characters, its text being t, which may repeat.
Class(t, has) == Item("class", t, has)
Repeat(item, r) == [item EXCEPT !.text = @ \o <<r>>, !.rep = r]
Open == Item("open", <<"(">>, {})
Close == Item("close", <<")">>, {})
Mark == Item("mark", <<"(", ")">>, {})
\* The text of the n-th capture once more.
Back(n) == [Item("back", <<"%", IF n = 1 THEN "1" ELSE "2">>, {}) EXCEPT !.n = n]
Balance == Item("balance", <<"%", "b", "(", ")">>, {})
Frontier(t, has) == Item("frontier", <<"%", "f">> \o t, has)
End == Item("end", <<"$">>, {})
\* A text that no pattern may hold: it can be the last item only.
Malformed(t) == Item("malformed", t, {})

TextOf(items) == FlattenSeq([i \in DOMAIN items |-> items[i].text])
Of(items, kinds) == {i \in DOMAIN items : items[i].kind \in kinds}
Captures(items) == Of(items, {"open", "mark"})
Within(S, a, b) == {i \in S : a <= i /\ i <= b}
\* Where the capture that item i opens is closed: the first place with as many ends as starts.
Closings(items, i) ==
  {j \in Of(items, {"close"}) :
     j > i /\ Cardinality(Within(Of(items, {"open"}), i, j)) = Cardinality(Within(Of(items, {"close"}), i, j))}
ClosedAt(items, i) == Min(Closings(items, i))
\* The item that opens the n-th capture.
Opener(items, n) == CHOOSE i \in Captures(items) : Cardinality(Within(Captures(items), 1, i)) = n

\* What the manual asks of a pattern.
WellFormed(items, maxCaptures) ==
  /\ Of(items, {"malformed"}) = {}
  /\ Cardinality(Captures(items)) <= maxCaptures
  /\ \A i \in Of(items, {"open"}) : Closings(items, i) # {}
  /\ Cardinality(Of(items, {"open"})) = Cardinality(Of(items, {"close"}))
  /\ \A i \in Of(items, {"back"}) :
       /\ Cardinality(Within(Captures(items), 1, i)) >= items[i].n
       /\ Opener(items, items[i].n) \in Of(items, {"open"}) => ClosedAt(items, Opener(items, items[i].n)) < i

(***************************************************************************)
(* The matches.                                                            *)
(***************************************************************************)
Slice(src, from, to) == SubSeq(src, from, to - 1)
Count(src, from, to, c) == Cardinality({i \in from .. to - 1 : src[i] = c})
At(str, i) == IF i = Len(str) + 1 THEN NUL ELSE str[i]
Before(str, i) == IF i = 1 THEN NUL ELSE str[i - 1]
Times(rep, k) == CASE rep = "1" -> k = 1 [] rep = "?" -> k <= 1 [] rep = "+" -> k >= 1 [] OTHER -> TRUE

\* Item i stands for the text that the vector pos gives it.
Stands(items, src, pos, i) ==
  LET it == items[i]
      from == pos[i]
      to == pos[i + 1]
  IN  CASE it.kind = "class" -> /\ Times(it.rep, to - from)
                                /\ \A x \in from .. to - 1 : src[x] \in it.has
        [] it.kind = "back" -> LET o == Opener(items, it.n)
                               IN  /\ items[o].kind = "open"
                                   /\ Slice(src, from, to) = Slice(src, pos[o], pos[ClosedAt(items, o)])
        [] it.kind = "balance" -> /\ from < to /\ src[from] = "("
                                  /\ Count(src, from, to, "(") = Count(src, from, to, ")")
                                  /\ \A x \in from + 1 .. to - 1 :
                                       Count(src, from, x, "(") > Count(src, from, x, ")")
        [] it.kind = "frontier" -> from = to /\ Before(src, from) \notin it.has /\ At(src, from) \in it.has
        [] it.kind = "end" -> from = to /\ from = Len(src) + 1
        [] OTHER -> from = to

Matches(items, src, start) ==
  {pos \in {<<start>> \o f : f \in [1 .. Len(items) -> start .. Len(src) + 1]} :
     \A i \in DOMAIN items : pos[i] <= pos[i + 1] /\ Stands(items, src, pos, i)}
Preferred(items, a, b) ==
  a = b \/ LET i == Min({j \in DOMAIN items : a[j + 1] # b[j + 1]})
           IN  IF items[i].rep = "-" THEN a[i + 1] < b[i + 1] ELSE a[i + 1] > b[i + 1]
Best(items, src, start) ==
  LET all == Matches(items, src, start)
  IN  CHOOSE pos \in all : \A other \in all : Preferred(items, pos, other)
Ends(items, pos) == pos[Len(items) + 1]

Text(t) == [text |-> t, pos |-> 0]
Position(n) == [text |-> <<>>, pos |-> n]
\* The n-th capture of a match.
CaptureMeant(items, src, pos, n) ==
  LET o == Opener(items, n)
  IN  IF items[o].kind = "mark" THEN Position(pos[o])
      ELSE Text(Slice(src, pos[o], pos[ClosedAt(items, o)]))
CapturesMeant(items, src, pos) ==
  [n \in 1 .. Cardinality(Captures(items)) |-> CaptureMeant(items, src, pos, n)]
\* The captures, or the whole match when the pattern has none.
ValuesMeant(items, src, pos) ==
  IF Captures(items) = {} THEN <<Text(Slice(src, pos[1], Ends(items, pos)))>>
  ELSE CapturesMeant(items, src, pos)
(***************************************************************************)
(* Replacements, and the places of a plain text.                           *)
(***************************************************************************)
Literal(c) == [written |-> <<c>>, means |-> <<c>>, n |-> -1]
Escaped(c) == [written |-> <<"%", c>>, means |-> <<c>>, n |-> -1]
Captured(n) == [written |-> <<"%", <<"0", "1", "2">>[n + 1]>>, means |-> <<>>, n |-> n]
ByText(parts) ==
  [kind |-> "string", parts |-> parts, text |-> FlattenSeq([i \in DOMAIN parts |-> parts[i].written])]
By(kind) == [kind |-> kind, parts |-> <<>>, text |-> <<>>]
\* The places where a text occurs at or after init.
OccursAt(src, t, i) == SubSeq(src, i, i + Len(t) - 1) = t
Occurrences(src, t, init) == {i \in init .. Len(src) + 1 - Len(t) : OccursAt(src, t, i)}
=============================================================================
