------------------------------ MODULE LuaMatch ------------------------------
(***************************************************************************)
(* String matching (lstrlib.c): the backtracking matcher, and find, match, *)
(* gmatch and gsub above it.  Strings are sequences of characters and      *)
(* pointers are positions in them; a string is followed by NUL, and        *)
(* nothing behind that is read.                                            *)
(***************************************************************************)
EXTENDS LuaPattern, TLC

CONSTANTS
  Jobs,           \* the calls a program makes: see Call
  Answers,        \* what a replacement function or table answers
  LUA_MAXCAPTURES

ASSUME MaxCapturesAssumption == LUA_MAXCAPTURES \in Nat \ {0}

VARIABLES
  job,            \* the call being served
  at,             \* src in gsub, upvalue 3 of gmatch's iterator, init in find
  n,              \* the substitutions made
  out,            \* gsub's buffer, or the values the call returned
  hits,           \* history: the matches reported, each [s, e, values]
  status          \* "running", "calling" (a replacement is asked for), "yielded", "done", "error"
vars == <<job, at, n, out, hits, status>>

(***************************************************************************)
(* Classes of characters.                                                  *)
(***************************************************************************)
ESC == "%"
NULL == 0
ERROR == -1                 \* luaL_error: not NULL, so every caller hands it on
CAP_UNFINISHED == -1
CAP_POSITION == -2
Code(c) == CHOOSE i \in DOMAIN Ascii : Ascii[i] = c
isdigit(c) == c \in {"0", "1", "2"}
Digit(c) == Code(c) - Code("0")
ClassMembers(cl) ==
  CASE cl = "a" -> Letters
    [] cl = "A" -> Chars \ Letters
    [] OTHER -> {cl}
match_class(c, cl) == c \in ClassMembers(cl)

RECURSIVE setend(_, _)
setend(pat, p) ==
  IF At(pat, p) = NUL THEN ERROR
  ELSE LET q == IF pat[p] = ESC /\ At(pat, p + 1) # NUL THEN p + 2 ELSE p + 1
       IN  IF At(pat, q) = "]" THEN q + 1 ELSE setend(pat, q)
classend(pat, p) ==
  CASE pat[p] = ESC -> IF At(pat, p + 1) = NUL THEN ERROR ELSE p + 2
    [] pat[p] = "[" -> setend(pat, IF At(pat, p + 1) = "^" THEN p + 2 ELSE p + 1)
    [] OTHER -> p + 1

\* Whether the set that ends at ec has c, from p on.
RECURSIVE sethas(_, _, _, _)
sethas(pat, c, p, ec) ==
  /\ p < ec
  /\ CASE pat[p] = ESC -> match_class(c, pat[p + 1]) \/ sethas(pat, c, p + 2, ec)
       [] pat[p] # ESC /\ pat[p + 1] = "-" /\ p + 2 < ec ->
            (Code(pat[p]) <= Code(c) /\ Code(c) <= Code(pat[p + 2])) \/ sethas(pat, c, p + 3, ec)
       [] OTHER -> pat[p] = c \/ sethas(pat, c, p + 1, ec)
matchbracketclass(pat, c, p, ec) ==
  IF pat[p + 1] = "^" THEN ~sethas(pat, c, p + 2, ec) ELSE sethas(pat, c, p + 1, ec)
singlematch(pat, c, p, ep) ==
  CASE pat[p] = "." -> TRUE
    [] pat[p] = ESC -> match_class(c, pat[p + 1])
    [] pat[p] = "[" -> matchbracketclass(pat, c, p, ep - 1)
    [] OTHER -> pat[p] = c

(***************************************************************************)
(* The matcher.  A MatchState ms holds the subject, the pattern, and the   *)
(* captures below level; a match hands back the state it leaves and the    *)
(* place where it ended, NULL or ERROR.                                    *)
(***************************************************************************)
MatchState(src, pat) ==
  [src |-> src, pat |-> pat, level |-> 0,
   capture |-> [i \in 1 .. LUA_MAXCAPTURES |-> [init |-> 1, len |-> CAP_UNFINISHED]]]
Result(ms, s) == [ms |-> ms, s |-> s]

Unfinished(ms) == {i \in 1 .. ms.level : ms.capture[i].len = CAP_UNFINISHED}
check_capture(ms, l) == IF l < 1 \/ l > ms.level \/ l \in Unfinished(ms) THEN ERROR ELSE l
capture_to_close(ms) == IF Unfinished(ms) = {} THEN ERROR ELSE Max(Unfinished(ms))
\* As a size_t the length of a position capture is more than any string has.
Repeats(src, a, b, len) == len >= 0 /\ Len(src) + 1 - b >= len /\ Slice(src, a, a + len) = Slice(src, b, b + len)
match_capture(ms, s, l) ==
  IF l = ERROR THEN ERROR
  ELSE IF Repeats(ms.src, ms.capture[l].init, s, ms.capture[l].len) THEN s + ms.capture[l].len ELSE NULL

\* The place behind the e that balances cont open b's.
RECURSIVE balanced(_, _, _, _, _)
balanced(src, s, cont, b, e) ==
  CASE s > Len(src) -> NULL
    [] s <= Len(src) /\ src[s] = e ->
         IF cont = 1 THEN s + 1 ELSE balanced(src, s + 1, cont - 1, b, e)
    [] OTHER -> balanced(src, s + 1, IF src[s] = b THEN cont + 1 ELSE cont, b, e)
matchbalance(ms, s, p) ==
  IF At(ms.pat, p) = NUL \/ At(ms.pat, p + 1) = NUL THEN ERROR
  ELSE IF At(ms.src, s) # ms.pat[p] THEN NULL
  ELSE balanced(ms.src, s + 1, 1, ms.pat[p], ms.pat[p + 1])

frontier(ms, s, p, ep) ==
  IF ep = ERROR THEN ERROR
  ELSE IF matchbracketclass(ms.pat, Before(ms.src, s), p, ep - 1)
          \/ ~matchbracketclass(ms.pat, At(ms.src, s), p, ep - 1)
  THEN NULL ELSE s

\* How often the item at p can be had from s on.
Run(ms, s, p, ep) ==
  Max({i \in 0 .. Len(ms.src) + 1 - s : \A j \in s .. s + i - 1 : singlematch(ms.pat, ms.src[j], p, ep)})

RECURSIVE match(_, _, _)
RECURSIVE max_expand(_, _, _, _)
RECURSIVE min_expand(_, _, _, _)
\* goto init, unless the item has no place or is an error.
goto_init(ms, s, p) == IF s \in {NULL, ERROR} THEN Result(ms, s) ELSE match(ms, s, p)

\* Mutant: the item is never left out.
MaxExpandOne(ms, s, i, p) ==
  IF i <= 0 THEN Result(ms, NULL)
  ELSE LET res == match(ms, s + i, p)
       IN  IF res.s # NULL THEN res ELSE max_expand(res.ms, s, i - 1, p)
max_expand(ms, s, i, p) ==
  IF i < 0 THEN Result(ms, NULL)
  ELSE LET res == match(ms, s + i, p)
       IN  IF res.s # NULL THEN res ELSE max_expand(res.ms, s, i - 1, p)
\* i more repetitions can be had from s on.
min_expand(ms, s, i, p) ==
  LET res == match(ms, s, p)
  IN  IF res.s # NULL \/ i = 0 THEN res ELSE min_expand(res.ms, s + 1, i - 1, p)

undo_start(res) == IF res.s = NULL THEN [res EXCEPT !.ms.level = @ - 1] ELSE res
start_capture(ms, s, p, what) ==
  IF ms.level >= LUA_MAXCAPTURES THEN Result(ms, ERROR)
  ELSE undo_start(match([ms EXCEPT !.capture[ms.level + 1] = [init |-> s, len |-> what],
                                   !.level = @ + 1], s, p))
\* Mutant: a capture stays closed when what follows it fails.
UndoEndNot(res, l) == res
undo_end(res, l) == IF res.s = NULL THEN [res EXCEPT !.ms.capture[l].len = CAP_UNFINISHED] ELSE res
end_capture(ms, s, p, l) ==
  IF l = ERROR THEN Result(ms, ERROR)
  ELSE undo_end(match([ms EXCEPT !.capture[l].len = s - ms.capture[l].init], s, p), l)

match_item(ms, s, p, ep, m) ==
  CASE At(ms.pat, ep) = "?" ->
         LET res == IF m THEN match(ms, s + 1, ep + 1) ELSE Result(ms, NULL)
         IN  IF res.s # NULL THEN res ELSE match(res.ms, s, ep + 1)
    [] At(ms.pat, ep) = "*" -> max_expand(ms, s, Run(ms, s, p, ep), ep + 1)
    [] At(ms.pat, ep) = "+" ->
         IF m THEN max_expand(ms, s + 1, Run(ms, s + 1, p, ep), ep + 1) ELSE Result(ms, NULL)
    [] At(ms.pat, ep) = "-" -> min_expand(ms, s, Run(ms, s, p, ep), ep + 1)
    [] OTHER -> IF m THEN match(ms, s + 1, ep) ELSE Result(ms, NULL)
item(ms, s, p, ep) ==
  IF ep = ERROR THEN Result(ms, ERROR)
  ELSE match_item(ms, s, p, ep, s <= Len(ms.src) /\ singlematch(ms.pat, ms.src[s], p, ep))

escape(ms, s, p, c) ==
  CASE c = "b" -> goto_init(ms, matchbalance(ms, s, p + 2), p + 4)
    [] c = "f" -> IF At(ms.pat, p + 2) # "[" THEN Result(ms, ERROR)
                  ELSE goto_init(ms, frontier(ms, s, p + 2, classend(ms.pat, p + 2)), classend(ms.pat, p + 2))
    [] isdigit(c) -> goto_init(ms, match_capture(ms, s, check_capture(ms, Digit(c))), p + 2)
    [] OTHER -> item(ms, s, p, classend(ms.pat, p))
match(ms, s, p) ==
  CASE At(ms.pat, p) = NUL -> Result(ms, s)
    [] At(ms.pat, p) = "(" -> IF At(ms.pat, p + 1) = ")" THEN start_capture(ms, s, p + 2, CAP_POSITION)
                              ELSE start_capture(ms, s, p + 1, CAP_UNFINISHED)
    [] At(ms.pat, p) = ")" -> end_capture(ms, s, p + 1, capture_to_close(ms))
    [] At(ms.pat, p) = ESC -> escape(ms, s, p, At(ms.pat, p + 1))
    [] At(ms.pat, p) = "$" /\ At(ms.pat, p + 1) = NUL -> Result(ms, IF s = Len(ms.src) + 1 THEN s ELSE NULL)
    [] OTHER -> item(ms, s, p, classend(ms.pat, p))

(***************************************************************************)
(* What is handed to the program, or to the replacement.                   *)
(***************************************************************************)
Nil == [text |-> <<>>, pos |-> -2]
Broken == [text |-> <<>>, pos |-> ERROR]
push_onecapture(ms, i, s, e) ==
  CASE i > ms.level -> IF i = 1 THEN Text(Slice(ms.src, s, e)) ELSE Broken
    [] i \in Unfinished(ms) -> Broken
    [] i <= ms.level /\ ms.capture[i].len = CAP_POSITION -> Position(ms.capture[i].init)
    [] OTHER -> Text(Slice(ms.src, ms.capture[i].init, ms.capture[i].init + ms.capture[i].len))
push_captures(ms, s, e) ==
  [i \in 1 .. (IF ms.level = 0 /\ s # NULL THEN 1 ELSE ms.level) |-> push_onecapture(ms, i, s, e)]
\* luaL_addvalue: a number becomes its digits.
Digits(v) == IF v.pos > 0 THEN <<ToString(v.pos)>> ELSE v.text

\* The replacement news, from i on, for the match from s to e; b is what was added.
RECURSIVE add_s(_, _, _, _, _, _)
add_s(ms, b, news, i, s, e) ==
  CASE i > Len(news) -> Text(b)
    [] i <= Len(news) /\ news[i] # ESC -> add_s(ms, Append(b, news[i]), news, i + 1, s, e)
    [] i <= Len(news) /\ news[i] = ESC /\ ~isdigit(At(news, i + 1)) ->
         add_s(ms, Append(b, At(news, i + 1)), news, i + 2, s, e)
    [] At(news, i + 1) = "0" -> add_s(ms, b \o Slice(ms.src, s, e), news, i + 2, s, e)
    [] OTHER -> LET v == push_onecapture(ms, Digit(news[i + 1]), s, e)
                IN  IF v = Broken THEN Broken ELSE add_s(ms, b \o Digits(v), news, i + 2, s, e)

(***************************************************************************)
(* find and match.                                                         *)
(***************************************************************************)
Pattern == TextOf(job.items)
Written == IF job.anchor THEN <<"^">> \o Pattern ELSE Pattern
End1 == Len(job.src) + 1
posrelat(pos, len) == IF pos >= 0 THEN pos ELSE len + pos + 1
Clamp(i, len) == IF i < 1 THEN 1 ELSE IF i > len + 1 THEN len + 1 ELSE i

\* Tries the places from s to last: the first match, with its start.
RECURSIVE search(_, _, _, _)
search(src, pat, s, last) ==
  LET res == match(MatchState(src, pat), s, 1)
  IN  IF res.s # NULL \/ s >= last THEN [res |-> res, start |-> s] ELSE search(src, pat, s + 1, last)

\* l places from s on may begin the text t.
RECURSIVE memfind(_, _, _, _)
memfind(src, s, l, t) ==
  LET firsts == {i \in s .. s + l - 1 : src[i] = t[1]}
      i == Min(firsts)
  IN  IF firsts = {} THEN NULL
      ELSE IF Slice(src, i + 1, i + Len(t)) = Tail(t) THEN i
      ELSE memfind(src, i + 1, l - (i + 1 - s), t)
lmemfind(src, s, t) ==
  IF t = <<>> THEN s
  ELSE IF Len(t) > Len(src) + 1 - s THEN NULL
  ELSE memfind(src, s, Len(src) + 1 - s - (Len(t) - 1), t)

SPECIALS == {"^", "$", "*", "+", "?", ".", "(", "[", "%", "-"}
Plainly == job.op = "find" /\ (job.plain \/ ToSet(Written) \cap SPECIALS = {})
Return(vs) ==
  /\ status' = IF Broken \in ToSet(vs) THEN "error" ELSE "done"
  /\ out' = vs
  /\ UNCHANGED <<job, at, n, hits>>

Is(op, st) == job.op \in op /\ status = st
FindPlain ==
  /\ Is({"find"}, "running") /\ Plainly
  /\ LET i == lmemfind(job.src, at, Written)
     IN  Return(IF i = NULL THEN <<Nil>> ELSE <<Position(i), Position(i + Len(Written) - 1)>>)
FindPattern ==
  /\ Is({"find", "match"}, "running") /\ ~Plainly
  /\ LET f == search(job.src, Pattern, at, IF job.anchor THEN at ELSE End1)
     IN  CASE f.res.s = NULL -> Return(<<Nil>>)
           [] f.res.s = ERROR -> Return(<<Broken>>)
           [] OTHER -> Return(IF job.op = "match" THEN push_captures(f.res.ms, f.start, f.res.s)
                              ELSE <<Position(f.start), Position(f.res.s - 1)>>
                                   \o push_captures(f.res.ms, NULL, NULL))

(***************************************************************************)
(* gmatch: each call of the iterator, and the loop that calls it.          *)
(***************************************************************************)
Hit(s, e, vs) == [s |-> s, e |-> e, values |-> vs]
\* Mutant: one character is left out behind every match.
NewStartSkips(s, e) == e + 1
newstart(s, e) == IF e = s THEN e + 1 ELSE e
gmatch_aux ==
  /\ Is({"gmatch"}, "running")
  /\ IF at > End1 THEN Return(<<Nil>>)
     ELSE LET f == search(job.src, Pattern, at, End1)
          IN  CASE f.res.s = NULL -> Return(<<Nil>>)
                [] f.res.s = ERROR -> Return(<<Broken>>)
                [] OTHER -> LET vs == push_captures(f.res.ms, f.start, f.res.s)
                            IN  /\ status' = IF Broken \in ToSet(vs) THEN "error" ELSE "yielded"
                                /\ at' = newstart(f.start, f.res.s)
                                /\ hits' = Append(hits, Hit(f.start, f.res.s, vs))
                                /\ UNCHANGED <<job, n, out>>
\* The body of the loop has run.
CallAgain == Is({"gmatch"}, "yielded") /\ status' = "running" /\ UNCHANGED <<job, at, n, out, hits>>

(***************************************************************************)
(* gsub: each turn of its loop, and what a function or a table answers.    *)
(***************************************************************************)
Fail == status' = "error" /\ UNCHANGED <<at, out>>
Finish(a, b) == status' = "done" /\ at' = a /\ out' = b \o SubSeq(job.src, a, Len(job.src))
Turn(a, b) == IF job.anchor THEN Finish(a, b) ELSE status' = "running" /\ at' = a /\ out' = b
\* Mutant: the character behind an empty match is not copied.
AdvanceLoses(e, b) ==
  CASE e > at -> Turn(e, b)
    [] e <= at /\ at < End1 -> Turn(at + 1, IF e = NULL THEN Append(b, job.src[at]) ELSE b)
    [] OTHER -> Finish(at, b)
\* The end of a turn: b is the buffer, e the end of the match, if there was one.
Advance(e, b) ==
  CASE e > at -> Turn(e, b)
    [] e <= at /\ at < End1 -> Turn(at + 1, Append(b, job.src[at]))
    [] OTHER -> Finish(at, b)
add_value(ms, e) ==
  IF job.repl.kind = "string"
  THEN LET v == add_s(ms, out, job.repl.text, 1, at, e)
       IN  /\ IF v = Broken THEN Fail ELSE Advance(e, v.text)
           /\ hits' = Append(hits, Hit(at, e, <<>>))
  ELSE LET vs == IF job.repl.kind = "function" THEN push_captures(ms, at, e)
                 ELSE <<push_onecapture(ms, 1, at, e)>>
       IN  /\ status' = IF Broken \in ToSet(vs) THEN "error" ELSE "calling"
           /\ hits' = Append(hits, Hit(at, e, vs))
           /\ UNCHANGED <<at, out>>
GsubTurn ==
  /\ Is({"gsub"}, "running") /\ n < job.max
  /\ LET res == match(MatchState(job.src, Pattern), at, 1)
     IN  CASE res.s = ERROR -> Fail /\ UNCHANGED <<n, hits>>
           [] res.s = NULL -> Advance(NULL, out) /\ UNCHANGED <<n, hits>>
           [] OTHER -> n' = n + 1 /\ add_value(res.ms, res.s)
  /\ UNCHANGED job
GsubEnd == Is({"gsub"}, "running") /\ n >= job.max /\ Finish(at, out) /\ UNCHANGED <<job, n, hits>>
Answer(v) ==
  /\ Is({"gsub"}, "calling")
  /\ LET h == Last(hits)
     IN  CASE v = Broken -> Fail
           [] v = Nil -> Advance(h.e, out \o Slice(job.src, h.s, h.e))
           [] OTHER -> Advance(h.e, out \o v.text)
  /\ hits' = [hits EXCEPT ![Len(hits)].values = Append(@, v)]
  /\ UNCHANGED <<job, n>>

(***************************************************************************)
(* The specification: one call of the library.                             *)
(***************************************************************************)
Idle == [op |-> "none"]
Init == job = Idle /\ at = 1 /\ n = 0 /\ out = <<>> /\ hits = <<>> /\ status = "idle"
Call(j) ==
  /\ status = "idle"
  /\ job' = j /\ status' = "running"
  /\ at' = Clamp(posrelat(j.init, Len(j.src)), Len(j.src))
  /\ UNCHANGED <<n, out, hits>>
Serve == FindPlain \/ FindPattern \/ gmatch_aux \/ CallAgain \/ GsubTurn \/ GsubEnd \/ \E v \in Answers : Answer(v)
Next == (\E j \in Jobs : Call(j)) \/ Serve
Spec == Init /\ [][Next]_vars

(***************************************************************************)
(* Properties.                                                             *)
(***************************************************************************)
Meant == status # "idle" /\ WellFormed(job.items, LUA_MAXCAPTURES)
MatchesAt(x) == Matches(job.items, job.src, x)
BestAt(x) == Best(job.items, job.src, x)

\* What find and match return for a pattern that the manual allows.
PatternMeant(starts) ==
  IF starts = {} THEN <<Nil>>
  ELSE LET pos == BestAt(Min(starts))
       IN  IF job.op = "match" THEN ValuesMeant(job.items, job.src, pos)
           ELSE <<Position(pos[1]), Position(Ends(job.items, pos) - 1)>>
                \o CapturesMeant(job.items, job.src, pos)
PlainMeant(starts) ==
  IF starts = {} THEN <<Nil>> ELSE <<Position(Min(starts)), Position(Min(starts) + Len(Written) - 1)>>
\* string.find and string.match (str_find_aux) return the first place where the pattern
\* matches and, of the matches there, the captures of the preferred one, whatever the
\* backtracking tried and undid before; a plain find returns the first occurrence
\* of the text as it was written, a "^" included.
FindMeans ==
  status = "done" /\ job.op \in {"find", "match"} =>
    IF job.op = "find" /\ job.plain THEN out = PlainMeant(Occurrences(job.src, Written, at))
    ELSE Meant => out = PatternMeant({x \in at .. (IF job.anchor THEN at ELSE End1) : MatchesAt(x) # {}})

\* The first place where a match may begin after the k-th one.
FreeAfter(k) == IF k = 0 THEN 1 ELSE Max({hits[k].s + 1, hits[k].e})
NoneFrom(a, b) == \A x \in a .. b : MatchesAt(x) = {}
ValuesAsMeant(h, meant) ==
  IF job.op = "gsub" /\ job.repl.kind = "string" THEN TRUE
  ELSE IF job.op = "gsub" /\ job.repl.kind = "table" THEN h.values[1] = meant[1]
  ELSE SubSeq(h.values, 1, Len(meant)) = meant
\* The matches that gmatch and gsub report are the preferred ones, do not overlap, and
\* none is left out, before, between or after them, but for those over gsub's maximum;
\* the loop and the replacement get the captures of the match.
HitsMeant ==
  Meant /\ job.op \in {"gmatch", "gsub"} =>
    /\ hits # <<>> =>
         LET h == Last(hits)
         IN  /\ h.s >= FreeAfter(Len(hits) - 1) /\ MatchesAt(h.s) # {}
             /\ h.e = Ends(job.items, BestAt(h.s))
             /\ ValuesAsMeant(h, ValuesMeant(job.items, job.src, BestAt(h.s)))
             /\ NoneFrom(FreeAfter(Len(hits) - 1), h.s - 1)
             /\ job.anchor => Len(hits) = 1 /\ h.s = 1
    /\ status = "done" /\ ~job.anchor /\ (job.op = "gsub" => n < job.max) => NoneFrom(FreeAfter(Len(hits)), End1)
    /\ job.op = "gsub" => n = Len(hits) /\ (n > 0 => n <= job.max)

\* The text that takes the place of the match h.
ReplacementMeant(h) ==
  IF job.repl.kind # "string"
  THEN IF Last(h.values) = Nil THEN Slice(job.src, h.s, h.e) ELSE Last(h.values).text
  ELSE FlattenSeq([i \in DOMAIN job.repl.parts |->
         LET part == job.repl.parts[i]
         IN  CASE part.n < 0 -> part.means
               [] part.n = 0 -> Slice(job.src, h.s, h.e)
               [] OTHER -> Digits(ValuesMeant(job.items, job.src, BestAt(h.s))[part.n])])
\* gsub's answer is the subject with each match replaced and all the rest kept in its
\* place: nothing is lost or copied twice where a match is empty, the maximum is
\* reached or the replacement gives nothing.
GsubText ==
  Meant /\ status = "done" /\ job.op = "gsub" =>
    out = FlattenSeq([k \in DOMAIN hits |->
                        Slice(job.src, IF k = 1 THEN 1 ELSE hits[k - 1].e, hits[k].s) \o ReplacementMeant(hits[k])])
          \o SubSeq(job.src, IF hits = <<>> THEN 1 ELSE Last(hits).e, Len(job.src))

\* An error is raised only for a pattern that the manual does not allow, for a
\* replacement that names a capture the pattern has not, or for an answer that is no
\* text: never by a capture that backtracking left unfinished or out of its range.
ErrorsMeant ==
  status = "error" =>
    \/ ~Meant
    \/ /\ job.op = "gsub" /\ job.repl.kind = "string"
       /\ \E i \in DOMAIN job.repl.parts : job.repl.parts[i].n > Max({1, Cardinality(Captures(job.items))})
    \/ job.op = "gsub" /\ job.repl.kind # "string" /\ Last(Last(hits).values) = Broken
=============================================================================
