----------------------------- MODULE MCLuaMatch -----------------------------
(* Instances of LuaMatch for TLC: every sequence of up to three items of a choice. *)
EXTENDS LuaMatch

A == Class(<<"a">>, {"a"})
Dot == Class(<<".">>, Chars)
AnyLetter == Class(<<"%", "a">>, Letters)
NotLetter == Class(<<"%", "A">>, Chars \ Letters)
Set == Class(<<"[", "a", "-", "b", "]">>, {"a", "b"})
NotB == Class(<<"[", "^", "%", "b", "]">>, Chars \ {"b"})
SetOfBracket == Class(<<"[", "]", "(", "]">>, {"]", "("})
\* "()" is one item, so no "(" is followed by ")".
Unambiguous(items) == \A i \in 1 .. Len(items) - 1 : items[i] # Open \/ items[i + 1] # Close
Sequences(choice, len) == {items \in UNION {[1 .. l -> choice] : l \in 0 .. len} : Unambiguous(items)}
Ending(itemss, lasts) == itemss \union {Append(i, l) : i \in itemss, l \in lasts}
Wrap(items, i, j) == SubSeq(items, 1, i) \o <<Open>> \o SubSeq(items, i + 1, j) \o <<Close>> \o SubSeq(items, j + 1, Len(items))

Repeated == {A, Repeat(A, "*"), Repeat(Dot, "*"), Repeat(Dot, "-"), Repeat(Set, "+"), Repeat(NotB, "?")}
Zero == {Open, Close, Mark, Back(1), Frontier(<<"[", "a", "]">>, {"a"})}
Odd == {Malformed(t) : t \in {<<"%">>, <<"[", "a">>, <<"%", "b", "a">>, <<"%", "f", "a">>, <<"%", "0">>}}
Captured2 == {Wrap(items, i, 2) : items \in [1 .. 2 -> Repeated], i \in 0 .. 1}

Job(op, items, src) ==
  [op |-> op, items |-> items, anchor |-> FALSE, src |-> src, init |-> 1, plain |-> FALSE,
   max |-> Len(src) + 1, repl |-> By("function")]
Subjects == {<<>>, <<"a">>, <<"a", "b">>, <<"b", "a", "a">>, <<"a", "b", "a", "b">>}
FindJobs ==
  {Job("match", items, s) : items \in Ending(Sequences(Repeated \union Zero, 3), {}), s \in Subjects}
  \union {Job("match", items \o <<Back(1)>>, s) : items \in Captured2, s \in Subjects}
  \union {Job("find", items, s) :
             items \in Ending(Sequences({A, AnyLetter, NotLetter, SetOfBracket, Balance, Open, Mark}, 2), {End} \union Odd),
             s \in {<<"a">>, <<"(", "(", "a", ")", "a">>, <<"a", "]">>}}
  \union {[Job("find", items, s) EXCEPT !.init = i, !.plain = p, !.anchor = a] :
             items \in Sequences({A, Dot}, 2), i \in {-6, -2, 0, 3, 9}, p \in BOOLEAN, a \in BOOLEAN,
             s \in {<<"a", "b", "a", "a">>, <<"b", "^", "a", "a">>}}
GmatchJobs == {Job("gmatch", items, s) : items \in Sequences(Repeated \union {Mark}, 2), s \in Subjects}
GsubJobs ==
  {[Job("gsub", items, s) EXCEPT !.max = m, !.repl = r, !.anchor = a] :
     items \in Sequences({A, Repeat(Dot, "-"), Repeat(A, "*")}, 1) \union {<<Open, A, Close, Mark>>, <<Mark, Open>>},
     s \in Subjects, m \in {-1, 1, 5}, a \in BOOLEAN,
     r \in {By("function"), By("table"), ByText(<<Captured(1), Literal("c"), Captured(0)>>),
            ByText(<<Escaped("%"), Captured(2)>>)}}
MCJobs == FindJobs \union GmatchJobs \union GsubJobs
MCAnswers == {Nil, Broken, Text(<<"c", "a">>)}
=============================================================================
