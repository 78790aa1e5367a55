---------------------------- MODULE LuaSemantics ----------------------------
(***************************************************************************)
(* What a Lua program means, on its syntax tree: the specification that    *)
(* the compiler and the virtual machine are checked against.  An           *)
(* expression is a tuple: a one-token leaf, or an operator with its parts; *)
(* so is a statement, and a block is a sequence of them.  A program can be *)
(* seen only through the calls it makes of the external function f, whose  *)
(* answers are given, and through how it ends.                             *)
(***************************************************************************)
EXTENDS LuaParser

(***************************************************************************)
(* Values.                                                                 *)
(***************************************************************************)
Empty == [x \in {} |-> "nil"]
Truth(v) == v \notin {"nil", "false"}
Bool(b) == IF b THEN "true" ELSE "false"
IsString(v) == Len(v) > 1 /\ SubSeq(v, 1, 1) = "'"
AsString(v) == IF IsString(v) THEN SubSeq(v, 2, Len(v) - 1) ELSE v
\* The result of an operator, or "error".
Operate(op, a, b) ==
  LET num == IsNumber(a) /\ IsNumber(b)
      str(v) == IsNumber(v) \/ IsString(v)
  IN  CASE op = "EQ" -> Bool(a = b)
        [] op = "LT" -> IF num THEN Bool(NumberOf[a] < NumberOf[b]) ELSE "error"
        [] op = "LE" -> IF num THEN Bool(NumberOf[a] <= NumberOf[b]) ELSE "error"
        [] op = "CONCAT" -> IF str(a) /\ str(b) THEN "'" \o AsString(a) \o AsString(b) \o "'" ELSE "error"
        [] op \in {"DIV", "MOD"} /\ b = "0" -> IF num THEN "nan" ELSE "error"
        [] OTHER -> IF num THEN ToString(Arith(op, NumberOf[a], NumberOf[b])) ELSE "error"
\* The length of a table that holds a sequence.
Border(t) == CHOOSE n \in 0 .. Cardinality(DOMAIN t) :
               /\ \A i \in 1 .. n : ToString(i) \in DOMAIN t
               /\ ToString(n + 1) \notin DOMAIN t
TGet(t, k) == IF k \in DOMAIN t THEN t[k] ELSE "nil"
TSet(t, k, v) == IF v = "nil" THEN [x \in DOMAIN t \ {k} |-> t[x]] ELSE (k :> v) @@ t
Show(v, heap, clos) == IF v \in DOMAIN heap THEN "table" ELSE IF v \in DOMAIN clos THEN "function" ELSE v
Adjust(vs, n) == [i \in 1 .. n |-> IF i <= Len(vs) THEN vs[i] ELSE "nil"]

(***************************************************************************)
(* The text of a program: its tokens, with the parentheses that the        *)
(* precedence of the operators needs.                                      *)
(***************************************************************************)
Precedence ==
  [o \in DOMAIN LeftPriority |->
     CASE o = "or" -> 1 [] o = "and" -> 2 [] o = ".." -> 4 [] o \in {"+", "-"} -> 5
       [] o \in {"*", "/", "%"} -> 6 [] OTHER -> 3]
UnaryPrecedence == 7

Commas(ts) == IF ts = <<>> THEN <<>>
              ELSE FoldSeq(LAMBDA t, acc : IF acc = <<>> THEN t ELSE t \o <<",">> \o acc, <<>>, ts)
\* What writes each other: an expression, and a block.
RECURSIVE Written(_, _, _)
Text(e, level) == Written("exp", e, level)
BlockText(b) == Written("block", b, 0)

Texts(es) == Commas([i \in DOMAIN es |-> Text(es[i], 0)])
NameTexts(xs) == Commas([i \in DOMAIN xs |-> <<xs[i]>>])
Parens(t, c) == IF c THEN <<"(">> \o t \o <<")">> ELSE t
FunctionText(params, body) == <<"(">> \o NameTexts(params) \o <<")">> \o BlockText(body) \o <<"end">>
RightAssociative == {".."}
BinaryText(op, l, r, prec, level) ==
  Parens(Text(l, IF op \in RightAssociative THEN prec + 1 ELSE prec) \o <<op>>
         \o Text(r, IF op \in RightAssociative THEN prec ELSE prec + 1), prec < level)
UnaryText(op, e, level) == Parens(<<op>> \o Text(e, UnaryPrecedence), UnaryPrecedence < level)
SuffixText(e) ==
  CASE e[1] = "call" -> <<"(">> \o Texts(e[3]) \o <<")">>
    [] e[1] = "callstr" -> e[3]
    [] e[1] = "calltab" -> Text(e[3], 0)
    [] e[1] = ":" -> <<":", e[3], "(">> \o Texts(e[4]) \o <<")">>
    [] e[1] = "." -> <<".", e[3]>>
    [] e[1] = "[]" -> <<"[">> \o Text(e[3], 0) \o <<"]">>
ExpText(e, level) ==
  CASE Len(e) = 1 -> e
    [] Len(e) = 3 /\ e[1] \in DOMAIN Precedence -> BinaryText(e[1], e[2], e[3], Precedence[e[1]], level)
    [] Len(e) = 2 /\ e[1] \in UnaryOps -> UnaryText(e[1], e[2], level)
    [] e[1] = "()" -> Parens(Text(e[2], 0), TRUE)
    [] e[1] = "{}" -> <<"{">> \o Texts(e[2]) \o <<"}">>
    [] e[1] = "field" -> <<e[2], "=">> \o Text(e[3], 0)
    [] e[1] = "entry" -> <<"[">> \o Text(e[2], 0) \o <<"]", "=">> \o Text(e[3], 0)
    [] e[1] = "function" -> <<"function">> \o FunctionText(e[2], e[3])
    [] e[1] \in {"call", "callstr", "calltab", ":", ".", "[]"} -> Text(e[2], 0) \o SuffixText(e)

RECURSIVE Arms(_, _)
Arms(arms, kw) ==
  IF arms = <<>> THEN <<>>
  ELSE <<kw>> \o Text(arms[1][1], 0) \o <<"then">> \o BlockText(arms[1][2]) \o Arms(Tail(arms), "elseif")
ElseText(b) == IF b = <<>> THEN <<>> ELSE <<"else">> \o BlockText(b)
DoText(b) == <<"do">> \o BlockText(b) \o <<"end">>
ValuesText(es) == IF es = <<>> THEN <<>> ELSE <<"=">> \o Texts(es)
StatText(s) ==
  CASE s[1] = "local" -> <<"local">> \o NameTexts(s[2]) \o ValuesText(s[3])
    [] s[1] = "=" -> Texts(s[2]) \o ValuesText(s[3])
    [] s[1] = "do" -> DoText(s[2])
    [] s[1] = "if" -> Arms(s[2], "if") \o ElseText(s[3]) \o <<"end">>
    [] s[1] = "while" -> <<"while">> \o Text(s[2], 0) \o DoText(s[3])
    [] s[1] = "repeat" -> <<"repeat">> \o BlockText(s[3]) \o <<"until">> \o Text(s[2], 0)
    [] s[1] = "fornum" -> <<"for", s[2]>> \o ValuesText(s[3]) \o DoText(s[4])
    [] s[1] = "forin" -> <<"for">> \o NameTexts(s[2]) \o <<"in">> \o Texts(s[3]) \o DoText(s[4])
    [] s[1] = "break" -> <<"break">>
    [] s[1] = "return" -> <<"return">> \o Texts(s[2])
    [] s[1] = "localfunction" -> <<"local", "function", s[2]>> \o FunctionText(s[3], s[4])
    [] s[1] = "functionstat" -> <<"function">> \o s[2] \o FunctionText(s[3], s[4])
    [] OTHER -> Text(s, 0)
Written(what, x, level) ==
  CASE what = "exp" -> ExpText(x, level)
    [] what = "block" -> IF x = <<>> THEN <<>> ELSE StatText(x[1]) \o <<";">> \o BlockText(Tail(x))

(***************************************************************************)
(* Evaluation.  st holds the variables in scope (env) and their cells, the *)
(* globals, the tables, the functions, the calls made of f, the values of  *)
(* the last expression (vs), and how the program stands: it runs, breaks,  *)
(* returns, or has ended in an error or because f has no more answers.     *)
(* What is evaluated after that is not seen.                               *)
(***************************************************************************)
Start(answers) ==
  [env |-> [v |-> Empty, va |-> <<>>], cells |-> <<>>, g |-> "f" :> "f", heap |-> Empty, clos |-> Empty,
   tr |-> <<>>, vs |-> <<>>, out |-> "run", rv |-> <<>>, answers |-> answers]

Running(st) == st.out = "run"
End(st, how) == IF Running(st) THEN [st EXCEPT !.out = how] ELSE st
Give(st, v) == IF v = "error" THEN [End(st, "error") EXCEPT !.vs = <<"nil">>] ELSE [st EXCEPT !.vs = <<v>>]
First(st) == IF st.vs = <<>> THEN "nil" ELSE st.vs[1]
One(st) == [st EXCEPT !.vs = <<First(st)>>]
Quoted(n) == "'" \o n \o "'"
Scoped(st, env) == [st EXCEPT !.env = env]

\* New cells for local variables: the last of a name is the one seen.
LastOf(names, x) == CHOOSE i \in DOMAIN names : names[i] = x /\ \A j \in DOMAIN names : names[j] = x => j <= i
Bind(st, names, vs) ==
  [st EXCEPT !.cells = @ \o Adjust(vs, Len(names)),
             !.env.v = [x \in {names[i] : i \in DOMAIN names} |-> Len(st.cells) + LastOf(names, x)] @@ @]

\* What evaluates each other: an expression, and a block.
RECURSIVE Meant(_, _, _)
Ev(e, st) == Meant("exp", e, st)
Exec(b, st) == Meant("block", b, st)
InScope(b, st) == Scoped(Exec(b, st), st.env)

RECURSIVE EvList(_, _, _)
OpenEnd(acc, st) == [st EXCEPT !.vs = acc \o @]
NextExp(es, acc, st) == EvList(es, Append(acc, First(st)), st)
EvList(es, acc, st) ==
  CASE es = <<>> -> [st EXCEPT !.vs = acc]
    [] Len(es) = 1 -> OpenEnd(acc, Ev(es[1], st))
    [] Len(es) > 1 -> NextExp(Tail(es), acc, Ev(es[1], st))

\* Tables and functions.
Fresh(prefix, made) == prefix \o ToString(Cardinality(DOMAIN made) + 1)
Index(st, t, k) == Give(st, IF t \in DOMAIN st.heap THEN TGet(st.heap[t], k) ELSE "error")
PutIn(st, t, k, v) ==
  IF t \in DOMAIN st.heap /\ k # "nil" THEN [st EXCEPT !.heap[t] = TSet(@, k, v)] ELSE End(st, "error")
MakeFunction(st, params, body) ==
  Give([st EXCEPT !.clos = (Fresh("c", @) :> [params |-> params, body |-> body, env |-> st.env]) @@ @],
       Fresh("c", st.clos))

HasDots(params) == params # <<>> /\ Last(params) = "..."
Named(params) == IF HasDots(params) THEN Front(params) ELSE params
Enter(fn, args, st) ==
  Bind(Scoped(st, [fn.env EXCEPT !.va =
         IF HasDots(fn.params) THEN SubSeq(args, Len(fn.params), Len(args)) ELSE <<>>]),
       Named(fn.params), args)
Back(st, env) ==
  [st EXCEPT !.env = env, !.vs = IF st.out = "return" THEN st.rv ELSE <<>>,
             !.out = IF @ = "return" THEN "run" ELSE @]
\* The external function: it is asked for an answer, and the call is seen.
Ask(args, st) ==
  IF Len(st.tr) >= Len(st.answers) THEN End(st, "stop")
  ELSE [st EXCEPT !.tr = Append(@, [i \in DOMAIN args |-> Show(args[i], st.heap, st.clos)]),
                  !.vs = st.answers[Len(st.tr) + 1]]
Apply(f, args, st) ==
  CASE ~Running(st) -> [st EXCEPT !.vs = <<>>]
    [] Running(st) /\ f = "f" -> Ask(args, st)
    [] Running(st) /\ f \in DOMAIN st.clos -> Back(Exec(st.clos[f].body, Enter(st.clos[f], args, st)), st.env)
    [] OTHER -> End(st, "error")

\* The key of a field: a name, or an expression.
Key(name, st) == Give(st, Quoted(name))
\* The items of a constructor: the fields, and the list, whose last item may give many.
RECURSIVE PutAll(_, _, _, _)
PutAll(st, t, n, vs) ==
  IF vs = <<>> THEN st ELSE PutAll(PutIn(st, t, ToString(n + 1), Head(vs)), t, n + 1, Tail(vs))
PutItem(t, k, st) == PutIn(st, t, k, First(st))
ItemValue(t, e, st) == PutItem(t, First(st), Ev(e, st))
Item(t, e, st) == ItemValue(t, e[3], IF e[1] = "field" THEN Key(e[2], st) ELSE Ev(e[2], st))
RECURSIVE BuildItems(_, _, _, _)
ListItem(items, n, t, st) ==
  BuildItems(Tail(items), n + 1, t, PutAll(st, t, n, IF Len(items) = 1 THEN st.vs ELSE <<First(st)>>))
BuildItems(items, n, t, st) ==
  CASE items = <<>> -> Give(st, t)
    [] items # <<>> /\ items[1][1] \in {"field", "entry"} -> BuildItems(Tail(items), n, t, Item(t, items[1], st))
    [] OTHER -> ListItem(items, n, t, Ev(items[1], st))
Build(items, st) ==
  BuildItems(items, 0, Fresh("t", st.heap), [st EXCEPT !.heap = (Fresh("t", @) :> Empty) @@ @])

LengthOf(v, heap) ==
  CASE v \in DOMAIN heap -> ToString(Border(heap[v]))
    [] IsString(v) -> ToString(Len(v) - 2)
    [] OTHER -> "error"
Operated(op, a, st) ==
  CASE op = "~=" -> Give(st, Bool(a # First(st)))
    [] op = ">" -> Give(st, Operate("LT", First(st), a))
    [] op = ">=" -> Give(st, Operate("LE", First(st), a))
    [] OTHER -> Give(st, Operate(OpCodeOf[op], a, First(st)))
RightOf(op, e, st) == Operated(op, First(st), Ev(e, st))
Shortcut(op, e, st) == IF Truth(First(st)) = (op = "and") THEN One(Ev(e, st)) ELSE One(st)
Called(f, st) == Apply(f, st.vs, st)
MethodArgs(f, self, st) == Apply(f, <<self>> \o st.vs, st)
MethodCall(es, self, st) == MethodArgs(First(st), self, EvList(es, <<>>, st))
Indexing(t, st) == Index(st, t, First(st))
\* e, once the value of its first operand is known.
Rest(e, st) ==
  CASE e[1] = "()" -> One(st)
    [] e[1] \in {"and", "or"} -> Shortcut(e[1], e[3], st)
    [] e[1] = "not" -> Give(st, Bool(~Truth(First(st))))
    [] e[1] = "-" /\ Len(e) = 2 -> Give(st, Operate("UNM", First(st), First(st)))
    [] e[1] = "#" -> Give(st, LengthOf(First(st), st.heap))
    [] e[1] = "call" -> Called(First(st), EvList(e[3], <<>>, st))
    [] e[1] \in {"callstr", "calltab"} -> Called(First(st), One(Ev(e[3], st)))
    [] e[1] = ":" -> MethodCall(e[4], First(st), Index(st, First(st), Quoted(e[3])))
    [] e[1] = "." -> Index(st, First(st), Quoted(e[3]))
    [] e[1] = "[]" -> Indexing(First(st), Ev(e[3], st))
    [] OTHER -> RightOf(e[1], e[3], st)
Leaf(x, st) ==
  CASE x = "..." -> [st EXCEPT !.vs = st.env.va]
    [] x \in DOMAIN st.env.v -> Give(st, st.cells[st.env.v[x]])
    [] x \in Names \ DOMAIN st.env.v -> Give(st, TGet(st.g, x))
    [] OTHER -> Give(st, x)
Expression(e, st) ==
  CASE Len(e) = 1 -> Leaf(e[1], st)
    [] e[1] = "{}" -> Build(e[2], st)
    [] e[1] = "function" -> MakeFunction(st, e[2], e[3])
    [] OTHER -> Rest(e, Ev(e[2], st))

\* An assignment: the targets, their tables and keys, then the values, which
\* are stored from the last to the first.
Assign(x, v, st) ==
  CASE ~Running(st) -> st
    [] Running(st) /\ x[1] = "[]" -> PutIn(st, x[2], x[3], v)
    [] Running(st) /\ x[1] \in DOMAIN st.env.v -> [st EXCEPT !.cells[st.env.v[x[1]]] = v]
    [] OTHER -> [st EXCEPT !.g = TSet(@, x[1], v)]
RECURSIVE AssignAll(_, _, _)
AssignAll(xs, vs, st) ==
  IF xs = <<>> THEN st ELSE AssignAll(Front(xs), Front(vs), Assign(Last(xs), Last(vs), st))
Assigned(xs, st) == AssignAll(xs, Adjust(st.vs, Len(xs)), st)
RECURSIVE EvTargets(_, _, _, _)
TargetKey(vars, acc, es, t, st) == EvTargets(vars, Append(acc, <<"[]", t, First(st)>>), es, st)
Target(vars, acc, es, e, st) ==
  TargetKey(vars, acc, es, First(st), IF e[1] = "." THEN Key(e[3], st) ELSE Ev(e[3], st))
EvTargets(vars, acc, es, st) ==
  CASE vars = <<>> -> Assigned(acc, EvList(es, <<>>, st))
    [] vars # <<>> /\ Len(vars[1]) = 1 -> EvTargets(Tail(vars), Append(acc, vars[1]), es, st)
    [] OTHER -> Target(Tail(vars), acc, es, vars[1], Ev(vars[1][2], st))

\* Loops.  st is the state after the last part that was evaluated.
Broken(st) == [st EXCEPT !.out = IF @ = "break" THEN "run" ELSE @]
RECURSIVE WhileLoop(_, _)
WhileNext(s, st) == IF Running(st) THEN WhileLoop(s, st) ELSE Broken(st)
WhileTest(s, st) == IF Running(st) /\ Truth(First(st)) THEN WhileNext(s, InScope(s[3], st)) ELSE st
WhileLoop(s, st) == WhileTest(s, Ev(s[2], st))
RECURSIVE RepeatLoop(_, _)
RepeatNext(s, st) == IF Running(st) /\ ~Truth(First(st)) THEN RepeatLoop(s, st) ELSE st
RepeatTest(s, env, st) ==
  IF Running(st) THEN RepeatNext(s, Scoped(Ev(s[2], st), env)) ELSE Broken(Scoped(st, env))
RepeatLoop(s, st) == RepeatTest(s, st.env, Exec(s[3], st))
RECURSIVE NumLoop(_, _, _, _, _)
NumNext(s, i, limit, step, st) == IF Running(st) THEN NumLoop(s, i, limit, step, st) ELSE Broken(st)
NumLoop(s, i, limit, step, st) ==
  IF IF step > 0 THEN i <= limit ELSE i >= limit
  THEN NumNext(s, i + step, limit, step,
               Scoped(Exec(s[4], Bind(st, <<s[2]>>, <<ToString(i)>>)), st.env))
  ELSE st
NumFor(s, ctl, st) ==
  CASE ~Running(st) -> st
    [] Running(st) /\ (\A i \in 1 .. 3 : IsNumber(ctl[i])) ->
         NumLoop(s, NumberOf[ctl[1]], NumberOf[ctl[2]], NumberOf[ctl[3]], st)
    [] OTHER -> End(st, "error")
NumStart(s, st) == NumFor(s, IF Len(s[3]) = 2 THEN Adjust(st.vs, 2) \o <<"1">> ELSE Adjust(st.vs, 3), st)
RECURSIVE IterLoop(_, _, _, _)
IterNext(s, gen, ctl, st) == IF Running(st) THEN IterLoop(s, gen, ctl, st) ELSE Broken(st)
IterBody(s, gen, st) ==
  IF ~Running(st) \/ First(st) = "nil" THEN st
  ELSE IterNext(s, gen, First(st), Scoped(Exec(s[4], Bind(st, s[2], st.vs)), st.env))
IterLoop(s, gen, ctl, st) == IterBody(s, gen, Apply(gen[1], <<gen[2], ctl>>, st))
IterStart(s, vs, st) == IterLoop(s, vs, vs[3], st)
IterFor(s, st) == IterStart(s, Adjust(st.vs, 3), st)

RECURSIVE IfArms(_, _, _)
IfTest(arms, else, st) ==
  CASE ~Running(st) -> st
    [] Running(st) /\ Truth(First(st)) -> InScope(arms[1][2], st)
    [] OTHER -> IfArms(Tail(arms), else, st)
IfArms(arms, else, st) ==
  IF arms = <<>> THEN InScope(else, st) ELSE IfTest(arms, else, Ev(arms[1][1], st))

Returning(st) == IF Running(st) THEN [st EXCEPT !.out = "return", !.rv = st.vs] ELSE st
Locals(names, st) == Bind(st, names, st.vs)
Stored(x, st) == Assign(x, First(st), st)
\* function t.a (...), function t:a (...)
PathTarget(path) == IF Len(path) = 1 THEN <<path[1]>> ELSE <<".", <<path[1]>>, path[3]>>
SelfOf(path) == IF \E i \in DOMAIN path : path[i] = ":" THEN <<"self">> ELSE <<>>

Effect(s, st) ==
  CASE s[1] = "local" -> Locals(s[2], EvList(s[3], <<>>, st))
    [] s[1] = "=" -> EvTargets(s[2], <<>>, s[3], st)
    [] s[1] = "do" -> InScope(s[2], st)
    [] s[1] = "if" -> IfArms(s[2], s[3], st)
    [] s[1] = "while" -> WhileLoop(s, st)
    [] s[1] = "repeat" -> RepeatLoop(s, st)
    [] s[1] = "fornum" -> NumStart(s, EvList(s[3], <<>>, st))
    [] s[1] = "forin" -> IterFor(s, EvList(s[3], <<>>, st))
    [] s[1] = "break" -> End(st, "break")
    [] s[1] = "return" -> Returning(EvList(s[2], <<>>, st))
    [] s[1] = "localfunction" -> Stored(<<s[2]>>, MakeFunction(Bind(st, <<s[2]>>, <<"nil">>), s[3], s[4]))
    [] s[1] = "functionstat" ->
         EvTargets(<<PathTarget(s[2])>>, <<>>, <<<<"function", SelfOf(s[2]) \o s[3], s[4]>>>>, st)
    [] OTHER -> Ev(s, st)
Meant(what, x, st) ==
  CASE what = "exp" -> Expression(x, st)
    [] what = "block" -> IF x = <<>> \/ ~Running(st) THEN st ELSE Exec(Tail(x), Effect(x[1], st))

\* What can be seen of a run: the calls of f, how it ended, and what it returned.
\* A break that no loop encloses is no program.
Seen(st) ==
  [tr |-> st.tr,
   out |-> CASE st.out \in {"run", "return"} -> "done" [] st.out = "break" -> "syntax" [] OTHER -> st.out,
   rv |-> IF st.out = "return" THEN [i \in DOMAIN st.rv |-> Show(st.rv[i], st.heap, st.clos)] ELSE <<>>]
Meaning(block, answers) == Seen(Exec(block, Start(answers)))
=============================================================================
