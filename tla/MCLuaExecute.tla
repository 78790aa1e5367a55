---------------------------- MODULE MCLuaExecute ----------------------------
(* The programs that TLC compiles and runs, as syntax trees, and what the function f,
   which they call, may answer. *)
EXTENDS LuaExecute

MCNames == {"f", "x", "y", "z", "t", "g", "n", "self", "a"}
MCAnswers == {<<>>, <<"2">>, <<"3", "1">>}
Call0(fn, args) == <<"call", fn, args>>
F(args) == Call0(<<"f">>, args)
Local(x, e) == <<"local", <<x>>, <<e>>>>
LocalX == Local("x", F(<<>>))
Bin(ops, l, r) == {<<o, a, b>> : o \in ops, a \in l, b \in r}
SeqsTo(S, n) == UNION {[1 .. k -> S] : k \in 0 .. n}
SeqsOf(S, n) == UNION {[1 .. k -> S] : k \in 1 .. n}

\* Boolean expressions, with their jumps, where a value or only a branch is wanted.
Leaves == {<<"nil">>, <<"1">>, <<"true">>, <<"x">>, F(<<>>)}
Few == {<<"false">>, <<"x">>, F(<<>>)}
Logic == {"and", "or"}
Pairs == Bin(Logic, Leaves, Leaves)
FewPairs == Bin(Logic \cup {"==", "<="}, Few, Few)
Nots(S) == {<<"not", e>> : e \in S}
Booleans ==
  Bin(Logic, Pairs, Few) \cup Bin(Logic, Few, Pairs) \cup Nots(Pairs) \cup Bin(Logic, Nots(Few), Few)
  \cup Bin(Logic, Nots(Bin(Logic, Few, Few)), Few) \cup Bin({"=="}, Bin(Logic, Few, Few), Few)
  \cup Bin(Logic, FewPairs, Few) \cup Bin(Logic, Few, Nots(FewPairs))
\* Three operators, of a call or a local and the constants that the generator decides on.
Two(S) == Bin(Logic, S, S)
Three(S) == Bin(Logic, Bin(Logic, Two(S), S) \cup Bin(Logic, S, Two(S)), S) \cup Bin(Logic, Two(S), Two(S))
            \cup Bin(Logic, S, Bin(Logic, Two(S), S) \cup Bin(Logic, S, Two(S)))
\* Known to be compiled wrongly: a constant that decides its operator c takes over the jumps
\* to it (luaK_goiftrue, luaK_goiffalse, luaK_jump), among them those that keep the value of
\* the first operand of e, so that this value is the result.
Carries(e, b) == LET first == e[2] IN
  \/ e[1] = "or" /\ b = "and" /\ first \notin {<<"true">>, <<"false">>, <<"nil">>}
  \/ e[1] = "and" /\ b = "or" /\ first \notin {<<"true">>, <<"false">>, <<"1">>}
Decides(k, c) == <<k, c>> \in {<<<<"false">>, "and">>, <<<<"true">>, "or">>}
TakesOver(b, e, k, c) == Decides(k, c) /\ Carries(e, b)
Wrong(e) ==
  \/ Len(e[2]) = 3 /\ TakesOver(e[2][1], e[2][2], e[2][3], e[1])
  \/ Len(e[3]) = 3 /\ TakesOver(e[1], e[2], e[3][2], e[3][1])
Triples == UNION {Three({<<"true">>, <<"false">>, e}) : e \in {<<"x">>, F(<<>>)}}
TriplePrograms ==
  {<<LocalX, Local("y", e), F(<<<<"y">>, <<"x">>>>)>> : e \in {e \in Triples : ~Wrong(e)}}
  \cup {<<LocalX, <<"if", <<<<e, <<F(<<<<"1">>>>)>>>>>>, <<F(<<<<"2">>>>)>>>>>> : e \in {e \in Triples : Wrong(e)}}
Contexts(e) ==
  {<<LocalX, Local("y", e), F(<<<<"y">>, <<"x">>>>)>>,
   <<LocalX, <<"if", <<<<e, <<F(<<<<"1">>>>)>>>>>>, <<F(<<<<"2">>>>)>>>>>>}
MoreContexts(e) ==
  {<<LocalX, <<"=", <<<<"x">>>>, <<e>>>>, <<"return", <<e, <<"x">>>>>>>>,
   <<LocalX, <<"while", e, <<F(<<<<"1">>>>), <<"=", <<<<"x">>>>, <<<<"nil">>>>>>>>>>, <<"return", <<F(<<e>>)>>>>>>,
   <<LocalX, <<"repeat", e, <<Local("x", F(<<<<"1">>>>))>>>>, <<"return", <<e>>>>>>}
BooleanPrograms == UNION {Contexts(e) : e \in Booleans} \cup TriplePrograms \cup UNION {MoreContexts(e) : e \in FewPairs \cup Nots(FewPairs)}

\* Loops and blocks whose variables are captured and broken out of.
Capture == <<"=", <<<<"t">>>>, <<<<"function", <<>>, <<<<"return", <<<<"x">>>>>>>>>>>>>>
Increase == Call0(<<"t">>, <<>>)
BreakIf == <<"if", <<<<F(<<>>), <<<<"break">>>>>>>>, <<>>>>
Effects(b) == \E j \in DOMAIN b : b[j] \in {LocalX, F(<<<<"x">>>>)}
Bodies == SeqsTo({LocalX, Capture, BreakIf, F(<<<<"x">>>>)}, 3)
Loops(b) ==
  {<<"while", F(<<>>), b>>, <<"repeat", F(<<>>), b>>,
   <<"fornum", "x", <<<<"1">>, <<"2">>>>, b>>, <<"forin", <<"x", "y">>, <<<<"f">>>>, b>>}
  \cup (IF Effects(b) THEN {<<"repeat", <<"x">>, b>>} ELSE {})
Around(s) == <<LocalX, <<"do", <<Local("y", <<"1">>), s>>>>, Local("z", <<"3">>), F(<<<<"or", <<"not", <<"t">>>>, Call0(<<"t">>, <<>>)>>, <<"x">>>>)>>
LoopPrograms == {Around(s) : s \in UNION {Loops(b) : b \in Bodies}}
Inner == {<<Capture, BreakIf>>, <<BreakIf, Capture>>, <<LocalX, Capture, <<"break">>>>}
NestedPrograms ==
  {Around(s) : s \in UNION {Loops(<<LocalX, l, BreakIf>>) : l \in UNION {Loops(b) : b \in Inner}}}

\* Functions, their arguments and their results.
ExpLists == {<<>>, <<<<"1">>>>, <<F(<<>>)>>, <<F(<<>>), <<"x">>>>, <<<<"1">>, <<"()", F(<<>>)>>>>, <<<<"x">>, F(<<>>)>>}
RetLists == ExpLists \cup {<<<<"...">>>>, <<<<"y">>, <<"...">>>>, <<<<"...">>, <<"y">>>>, <<F(<<<<"...">>>>)>>,
             <<Call0(<<"g">>, <<<<"()", F(<<<<"y">>>>)>>>>)>>, <<<<"{}", <<<<"...">>>>>>>>}
FunctionBodies ==
  {<<<<"if", <<<<<<"y">>, <<<<"return", r>>>>>>>>, <<>>>>, Local("z", F(<<>>)), <<"return", <<<<"z">>>>>>>> : r \in RetLists}
  \cup {<<<<"local", <<"z", "y">>, r>>, <<"return", <<<<"y">>, <<"z">>>>>>>> : r \in RetLists}
Setter == <<<<"localfunction", "a", <<>>, <<<<"=", <<<<"x">>, <<"y">>>>, <<F(<<<<"y">>>>), <<"x">>>>>>>>>>, Call0(<<"a">>, <<>>), <<"return", <<<<"y">>, <<"x">>>>>>>>
FunctionPrograms ==
  {<<LocalX, <<"localfunction", "g", <<"y", "...">>, b>>, F(<<Call0(<<"g">>, l)>>), F(<<<<"x">>>>)>> :
     b \in FunctionBodies \cup {Setter}, l \in ExpLists}
MethodPrograms ==
  {<<LocalX, Local("t", <<"{}", <<<<"field", "n", <<"x">>>>>>>>), <<"functionstat", <<"t", d, "a">>, <<"y">>, <<<<"return", <<<<"y">>, r>>>>>>>>,
     F(<<c, <<"x">>>>)>> :
     d \in {".", ":"}, r \in {<<".", <<"t">>, "n">>, <<"[]", <<"t">>, <<"'n'">>>>},
     c \in {<<":", <<"t">>, "a", <<F(<<>>)>>>>, Call0(<<".", <<"t">>, "a">>, <<<<"t">>, <<"x">>>>), <<"callstr", <<".", <<"t">>, "a">>, <<"'b'">>>>,
            <<"calltab", <<".", <<"t">>, "a">>, <<"{}", <<F(<<>>)>>>>>>}}

\* Assignments, constructors and arithmetic.
Targets == {<<<<"x">>>>, <<<<"x">>, <<"y">>>>, <<<<".", <<"x">>, "a">>, <<"x">>>>, <<<<"x">>, <<"[]", <<"x">>, <<"y">>>>, <<"y">>>>,
            <<<<"[]", <<"x">>, <<"y">>>>, <<"y">>>>, <<<<"[]", <<"x">>, <<"y">>>>, <<"y">>, <<"x">>>>, <<<<"t">>, <<".", <<"x">>, "a">>>>}
AssignPrograms ==
  {<<Local("x", <<"{}", <<<<"field", "a", <<"1">>>>>>>>), Local("z", <<"x">>), Local("y", <<"1">>), <<"=", v, e>>,
     F(<<<<"x">>, <<"y">>, <<"t">>, <<".", <<"z">>, "a">>, <<"[]", <<"z">>, <<"1">>>>>>)>> :
     v \in Targets, e \in SeqsOf({F(<<>>), <<"y">>, <<"2">>}, 3)}
Items == SeqsTo({<<"1">>, F(<<>>), <<"field", "n", <<"x">>>>, <<"entry", <<"'a'">>, F(<<>>)>>}, 3)
ConstructorPrograms ==
  {<<LocalX, Local("y", <<"{}", l>>),
     F(<<<<"#", <<"y">>>>, <<"[]", <<"y">>, <<"1">>>>, <<"[]", <<"y">>, <<"3">>>>, <<".", <<"y">>, "n">>, <<".", <<"y">>, "a">>>>)>> : l \in Items}
Operands == {<<"1">>, <<"3">>, <<"x">>, F(<<>>), <<"'a'">>}
Arithmetic == Bin({"+", "-", "*", "%", "..", "<", ">=", "~="}, Operands, Operands) \cup {<<"/", e, <<"0">>>> : e \in Operands}
MoreArithmetic ==
  Bin({"-", "*", ".."}, Bin({"-", "..", "%"}, Operands, {<<"x">>, <<"2">>}), {<<"x">>, <<"3">>})
  \cup Bin({"-", "*", ".."}, {<<"x">>, <<"3">>}, Bin({"-", "..", "%"}, Operands, {<<"x">>, <<"2">>}))
  \cup {<<"-", e>> : e \in Operands \cup Bin({"+"}, Operands, Operands)} \cup {<<"#", e>> : e \in Operands}
ArithmeticPrograms == {<<LocalX, <<"return", <<<<"x">>, e>>>>>> : e \in Arithmetic \cup MoreArithmetic}
Others ==
  {<<<<"fornum", "x", <<a, b, <<"-", <<"1">>>>>>, <<<<"if", <<<<<<"==", <<"x">>, <<"1">>>>, <<<<"break">>>>>>, <<F(<<>>), <<<<"=", <<<<"y">>>>, <<<<"x">>>>>>>>>>>>, <<F(<<<<"x">>>>)>>>>>>>>,
     F(<<<<"y">>>>)>> : a \in {<<"3">>, F(<<>>)}, b \in {<<"1">>, F(<<>>)}}
\* Variables of functions that have returned, seen through two levels of closures.
Counter == <<"function", <<>>, <<<<"=", <<<<"x">>>>, <<F(<<<<"x">>>>)>>>>, <<"return", <<<<"function", <<>>, <<<<"=", <<<<"x">>, <<"y">>>>, <<<<"y">>, <<"x">>>>>>, <<"return", <<<<"x">>, <<"y">>>>>>>>>>>>>>>>>>
CounterPrograms ==
  {<<<<"localfunction", "a", <<"y">>, <<Local("x", F(<<>>)), <<"return", <<Counter>>>>>>>>, Local("g", Call0(<<"a">>, <<<<"1">>>>)),
     Local("t", Call0(<<"g">>, <<>>)), F(<<Call0(<<"t">>, <<>>)>>), <<"return", <<Call0(Call0(<<"g">>, <<>>), <<>>)>>>>>>,
   <<F(<<>>)>>, <<<<"break">>>>}

\* A parameter that is set to nil by the first instruction of its function.
NilParameter ==
  {<<<<"localfunction", "g", <<"y">>, <<<<"=", <<<<"y">>>>, <<e>>>>, <<"return", <<<<"y">>>>>>>>>>, F(<<Call0(<<"g">>, <<l>>)>>)>> :
     e \in {<<"nil">>, <<"2">>}, l \in {<<"1">>, F(<<>>)}}

MCPrograms == BooleanPrograms \cup LoopPrograms \cup NestedPrograms \cup FunctionPrograms \cup MethodPrograms
              \cup AssignPrograms \cup ConstructorPrograms \cup ArithmeticPrograms \cup Others \cup CounterPrograms
=============================================================================
