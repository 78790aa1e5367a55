----------------------------- MODULE LuaExecute -----------------------------
(***************************************************************************)
(* A program is compiled (LuaParser, LuaCode) and run by the virtual       *)
(* machine of Lua 5.1 (luaV_execute in lvm.c, with luaD_precall,           *)
(* adjust_varargs, luaD_poscall and luaF_close), one instruction a step,   *)
(* one action for each opcode.  The program can be seen through the calls  *)
(* it makes of f, a C function that answers anything (`answers' remembers  *)
(* what); it runs the source's way whatever LuaSemantics says of it.       *)
(* Metamethods, hooks and the collector are left out, and what calls and   *)
(* errors do to the C stack is in LuaCall.                                 *)
(***************************************************************************)
EXTENDS LuaSemantics

CONSTANTS Programs,    \* the programs to compile
          Answers,     \* the results that f may give
          MaxCalls,    \* bounds the calls of f: it gives no answer after them
          StackSize,   \* bounds the Lua stack of the model
          MaxSteps     \* bounds a run

VARIABLES program, answers,
          chunk,       \* the compiled program: proto, ok (the assertions), err
          frames,      \* the CallInfos of Lua functions, the current one last
          stack, top,
          heap, closures, upvals, globals,
          trace, phase, steps
vars == <<program, answers, chunk, frames, stack, top, heap, closures, upvals, globals, trace, phase, steps>>
store == <<heap, closures, upvals, globals>>

ci == Last(frames)
RECURSIVE ProtoAt(_, _)
ProtoAt(pt, path) == IF path = <<>> THEN pt ELSE ProtoAt(pt.p[Head(path) + 1], Tail(path))
cl == closures[ci.cl]
p == ProtoAt(chunk.proto, cl.path)
i == At(p, ci.pc)

\* RA, RB, RC and the RK operands; k holds the strings with their quotes.
KValue(n) == p.k[n + 1]
Reg(r) == stack[ci.base + r]
RK(r) == IF IsK(r) THEN KValue(r - BitRK) ELSE Reg(r)
Put(st, r, v) == [st EXCEPT ![ci.base + r] = v]

At0(op) == phase = "run" /\ steps < MaxSteps /\ i.op = op
Goto(pc) == frames' = [frames EXCEPT ![Len(frames)].pc = pc]
Advance(n) == Goto(ci.pc + 1 + n)
Count == steps' = steps + 1
Fixed == UNCHANGED <<program, chunk>>
Same == Fixed /\ UNCHANGED answers
Fail(how) == phase' = how /\ Count /\ Same /\ UNCHANGED <<frames, stack, top, store, trace>>

\* An instruction that only puts v in R(A), or fails.
Set(v) ==
  IF v = "error" THEN Fail("error")
  ELSE /\ stack' = Put(stack, i.a, v) /\ Advance(0) /\ Count /\ Same
       /\ UNCHANGED <<top, store, trace, phase>>

(***************************************************************************)
(* Upvalues: open while reg is not -1.                                     *)
(***************************************************************************)
Open(u) == u.reg >= 0
UpValue(ups, st, n) == IF Open(ups[n]) THEN st[ups[n].reg] ELSE ups[n].v
CloseUpvals(ups, st, level) ==
  [n \in DOMAIN ups |-> IF ups[n].reg >= level THEN [reg |-> -1, v |-> st[ups[n].reg]] ELSE ups[n]]
FindUpval(ups, reg) ==
  IF \E n \in DOMAIN ups : ups[n].reg = reg
  THEN [ups |-> ups, n |-> CHOOSE n \in DOMAIN ups : ups[n].reg = reg]
  ELSE [ups |-> Append(ups, [reg |-> reg, v |-> "nil"]), n |-> Len(ups) + 1]

(***************************************************************************)
(* Calls.                                                                  *)
(***************************************************************************)
\* luaD_poscall: results rs go to func; the top after them.
Results(st, func, rs, nres) ==
  LET n == IF nres = MultRet THEN Len(rs) ELSE nres
  IN  [st |-> [s \in DOMAIN st |-> IF s \in func .. func + n - 1 THEN Adjust(rs, n)[s - func + 1] ELSE st[s]],
       top |-> func + n]

\* adjust_varargs: the value of `arg'.
ArgTable(extra) == [k \in {ToString(j) : j \in DOMAIN extra} |-> extra[NumberOf[k]]] @@ "'n'" :> ToString(Len(extra))
\* The frame of a Lua function called with the arguments up to tp: the
\* parameters of a vararg function are copied above its arguments, and an
\* `arg' table made if it asks for one; the registers are cleared.
NewFrame(c, pt, st, func, tp, nres) ==
  LET actual == tp - func - 1
      vararg == IsVararg \in pt.is_vararg
      padded == IF actual < pt.numparams THEN func + 1 + pt.numparams ELSE tp
      base == IF vararg THEN padded ELSE func + 1
      arg(s) == IF s < tp THEN st[s] ELSE "nil"
      extra == [j \in 1 .. (IF actual > pt.numparams THEN actual - pt.numparams ELSE 0)
                  |-> st[func + pt.numparams + j]]
      t == "t" \o ToString(Cardinality(DOMAIN heap) + 1)
      needs == NeedsArg \in pt.is_vararg
      value(s) == CASE s < base -> IF vararg /\ s \in func + 1 .. func + pt.numparams THEN "nil" ELSE arg(s)
                    [] s < base + pt.numparams -> arg(func + 1 + s - base)
                    [] OTHER -> IF s = base + pt.numparams /\ needs THEN t ELSE "nil"
  IN  [frame |-> [cl |-> c, pc |-> 0, func |-> func, base |-> base, nres |-> nres,
                  top |-> base + pt.maxstacksize, nvarargs |-> Len(extra)],
       st |-> [s \in DOMAIN st |-> IF s \in func + 1 .. base + pt.maxstacksize - 1 THEN value(s) ELSE st[s]],
       heap |-> IF needs THEN (t :> ArgTable(extra)) @@ heap ELSE heap]

\* luaD_precall of the external C function: it takes its arguments and answers.
CallC(func, tp, nres) ==
  IF Len(trace) >= MaxCalls THEN Fail("stop")
  ELSE \E rs \in Answers :
       LET r == Results(stack, func, rs, nres)
       IN  /\ answers' = Append(answers, rs)
           /\ trace' = Append(trace, [j \in 1 .. tp - func - 1 |-> Show(stack[func + j], heap, closures)])
           /\ stack' = r.st
           /\ top' = IF nres >= 0 THEN ci.top ELSE r.top
           /\ Advance(0) /\ Count /\ Fixed /\ UNCHANGED <<store, phase>>

Call ==
  /\ At0("CALL")
  /\ LET func == ci.base + i.a
         tp == IF i.b # 0 THEN func + i.b ELSE top
         f == stack[func]
         pt == ProtoAt(chunk.proto, closures[f].path)
         n == NewFrame(f, pt, stack, func, tp, i.c - 1)
     IN  CASE f = "f" -> CallC(func, tp, i.c - 1)
           [] f \in DOMAIN closures ->
                /\ frames' = Append([frames EXCEPT ![Len(frames)].pc = ci.pc + 1], n.frame)
                /\ stack' = n.st /\ top' = n.frame.top /\ heap' = n.heap
                /\ Count /\ Same /\ UNCHANGED <<closures, upvals, globals, trace, phase>>
           [] OTHER -> Fail("error")

\* OP_TAILCALL: the new frame is moved down over the one that ends.
TailCall ==
  /\ At0("TAILCALL")
  /\ LET func == ci.base + i.a
         tp == IF i.b # 0 THEN func + i.b ELSE top
         f == stack[func]
         pt == ProtoAt(chunk.proto, closures[f].path)
         n == NewFrame(f, pt, stack, func, tp, MultRet)
         down == func - ci.func
         ups == CloseUpvals(upvals, stack, ci.base)
     IN  CASE f = "f" -> CallC(func, tp, MultRet)
           [] f \in DOMAIN closures ->
                /\ frames' = [frames EXCEPT ![Len(frames)] =
                     [n.frame EXCEPT !.func = ci.func, !.base = @ - down, !.top = @ - down, !.nres = ci.nres]]
                /\ stack' = [s \in DOMAIN stack |-> IF s \in ci.func .. n.frame.top - down - 1
                                                    THEN n.st[s + down] ELSE n.st[s]]
                /\ upvals' = ups /\ heap' = n.heap /\ top' = n.frame.top - down
                /\ Count /\ Same /\ UNCHANGED <<closures, globals, trace, phase>>
           [] OTHER -> Fail("error")

Return ==
  /\ At0("RETURN")
  /\ LET first == ci.base + i.a
         tp == IF i.b # 0 THEN first + i.b - 1 ELSE top
         rs == [j \in 1 .. tp - first |-> stack[first + j - 1]]
         r == Results(stack, ci.func, rs, ci.nres)
         last == Len(frames) = 1
     IN  /\ frames' = Front(frames)
         /\ stack' = r.st
         /\ top' = IF ~last /\ ci.nres >= 0 THEN frames[Len(frames) - 1].top ELSE r.top
         /\ upvals' = CloseUpvals(upvals, stack, ci.base)
         /\ phase' = IF last THEN "done" ELSE "run"
         /\ Count /\ Same /\ UNCHANGED <<heap, closures, globals, trace>>

(***************************************************************************)
(* The other instructions.                                                 *)
(***************************************************************************)
Move == At0("MOVE") /\ Set(Reg(i.b))
LoadK == At0("LOADK") /\ Set(KValue(i.b))
LoadBool ==
  /\ At0("LOADBOOL") /\ stack' = Put(stack, i.a, Bool(i.b = 1)) /\ Advance(IF i.c = 0 THEN 0 ELSE 1)
  /\ Count /\ Same /\ UNCHANGED <<top, store, trace, phase>>
LoadNil ==
  /\ At0("LOADNIL")
  /\ stack' = [s \in DOMAIN stack |-> IF s \in ci.base + i.a .. ci.base + i.b THEN "nil" ELSE stack[s]]
  /\ Advance(0) /\ Count /\ Same /\ UNCHANGED <<top, store, trace, phase>>
GetUpval == At0("GETUPVAL") /\ Set(UpValue(upvals, stack, cl.ups[i.b + 1]))
GetGlobal == At0("GETGLOBAL") /\ Set(TGet(globals, KValue(i.b)))
GetTable == At0("GETTABLE") /\ Set(IF Reg(i.b) \in DOMAIN heap THEN TGet(heap[Reg(i.b)], RK(i.c)) ELSE "error")
SetGlobal ==
  /\ At0("SETGLOBAL") /\ globals' = TSet(globals, KValue(i.b), Reg(i.a)) /\ Advance(0)
  /\ Count /\ Same /\ UNCHANGED <<stack, top, heap, closures, upvals, trace, phase>>
SetUpval ==
  LET n == cl.ups[i.b + 1] IN
  /\ At0("SETUPVAL")
  /\ IF Open(upvals[n]) THEN stack' = [stack EXCEPT ![upvals[n].reg] = Reg(i.a)] /\ upvals' = upvals
     ELSE upvals' = [upvals EXCEPT ![n].v = Reg(i.a)] /\ stack' = stack
  /\ Advance(0) /\ Count /\ Same /\ UNCHANGED <<top, heap, closures, globals, trace, phase>>
SetTable ==
  /\ At0("SETTABLE")
  /\ IF Reg(i.a) \in DOMAIN heap /\ RK(i.b) # "nil"
     THEN /\ heap' = [heap EXCEPT ![Reg(i.a)] = TSet(@, RK(i.b), RK(i.c))] /\ Advance(0)
          /\ Count /\ Same /\ UNCHANGED <<stack, top, closures, upvals, globals, trace, phase>>
     ELSE Fail("error")
NewTable ==
  LET t == "t" \o ToString(Cardinality(DOMAIN heap) + 1) IN
  /\ At0("NEWTABLE") /\ heap' = (t :> Empty) @@ heap /\ stack' = Put(stack, i.a, t) /\ Advance(0)
  /\ Count /\ Same /\ UNCHANGED <<top, closures, upvals, globals, trace, phase>>
SelfOp ==
  LET t == Reg(i.b) IN
  /\ At0("SELF")
  /\ IF t \in DOMAIN heap
     THEN /\ stack' = Put(Put(stack, i.a + 1, t), i.a, TGet(heap[t], RK(i.c))) /\ Advance(0)
          /\ Count /\ Same /\ UNCHANGED <<top, store, trace, phase>>
     ELSE Fail("error")
Binary == (\E op \in {"ADD", "SUB", "MUL", "DIV", "MOD"} : At0(op)) /\ Set(Operate(i.op, RK(i.b), RK(i.c)))
Unm == At0("UNM") /\ Set(Operate("UNM", Reg(i.b), Reg(i.b)))
Not == At0("NOT") /\ Set(Bool(~Truth(Reg(i.b))))
Length == At0("LEN") /\ Set(IF Reg(i.b) \in DOMAIN heap THEN ToString(Border(heap[Reg(i.b)]))
                            ELSE IF IsString(Reg(i.b)) THEN ToString(Len(Reg(i.b)) - 2) ELSE "error")
\* luaV_concat works from the right, through the registers of its operands.
RECURSIVE ConcatRegs(_, _)
ConcatRegs(b, c) ==
  LET rest == ConcatRegs(b + 1, c)
  IN  IF b = c THEN Reg(c) ELSE IF rest = "error" THEN rest ELSE Operate("CONCAT", Reg(b), rest)
Concat == At0("CONCAT") /\ Set(ConcatRegs(i.b, i.c))

\* A test takes the jump that follows it, or skips it.
Branch(c, st) ==
  /\ Advance(IF c THEN 1 + At(p, ci.pc + 1).b ELSE 1) /\ stack' = st
  /\ Count /\ Same /\ UNCHANGED <<top, store, trace, phase>>
Jmp ==
  /\ At0("JMP") /\ Advance(i.b) /\ Count /\ Same /\ UNCHANGED <<stack, top, store, trace, phase>>
Compare ==
  /\ \E op \in {"EQ", "LT", "LE"} : At0(op)
  /\ LET v == Operate(i.op, RK(i.b), RK(i.c))
     IN  IF v = "error" THEN Fail("error") ELSE Branch(v = Bool(i.a = 1), stack)
Test == At0("TEST") /\ Branch(Truth(Reg(i.a)) = (i.c = 1), stack)
TestSet ==
  LET c == Truth(Reg(i.b)) = (i.c = 1) IN
  At0("TESTSET") /\ Branch(c, IF c THEN Put(stack, i.a, Reg(i.b)) ELSE stack)

ForPrep ==
  /\ At0("FORPREP")
  /\ IF \A r \in 0 .. 2 : IsNumber(Reg(i.a + r))
     THEN /\ stack' = Put(stack, i.a, Operate("SUB", Reg(i.a), Reg(i.a + 2))) /\ Advance(i.b)
          /\ Count /\ Same /\ UNCHANGED <<top, store, trace, phase>>
     ELSE Fail("error")
ForLoop ==
  LET step == NumberOf[Reg(i.a + 2)]
      idx == NumberOf[Reg(i.a)] + step
      limit == NumberOf[Reg(i.a + 1)]
      go == IF 0 < step THEN idx <= limit ELSE limit <= idx
  IN  /\ At0("FORLOOP")
      /\ stack' = IF go THEN Put(Put(stack, i.a, ToString(idx)), i.a + 3, ToString(idx)) ELSE stack
      /\ Advance(IF go THEN i.b ELSE 0) /\ Count /\ Same /\ UNCHANGED <<top, store, trace, phase>>
\* OP_TFORLOOP: the generator is a C function, as next and the others of the library are.
TForLoop ==
  /\ At0("TFORLOOP")
  /\ IF Reg(i.a) # "f" THEN Fail("error")
     ELSE IF Len(trace) >= MaxCalls THEN Fail("stop")
     ELSE \E rs \in Answers :
          LET cb == ci.base + i.a + 3
              r == Results(stack, cb, rs, i.c)
              go == r.st[cb] # "nil"
          IN  /\ answers' = Append(answers, rs)
              /\ trace' = Append(trace, [j \in 1 .. 2 |-> Show(Reg(i.a + j), heap, closures)])
              /\ stack' = IF go THEN [r.st EXCEPT ![cb - 1] = r.st[cb]] ELSE r.st
              /\ top' = ci.top
              /\ Advance(IF go THEN 1 + At(p, ci.pc + 1).b ELSE 1)
              /\ Count /\ Fixed /\ UNCHANGED <<store, phase>>

SetListOp ==
  LET n == IF i.b = 0 THEN top - (ci.base + i.a) - 1 ELSE i.b
      t == Reg(i.a)
      first == (i.c - 1) * FieldsPerFlush
      RECURSIVE Store(_, _)
      Store(h, j) == IF j > n THEN h ELSE Store(TSet(h, ToString(first + j), Reg(i.a + j)), j + 1)
  IN  /\ At0("SETLIST") /\ heap' = [heap EXCEPT ![t] = Store(@, 1)]
      /\ top' = IF i.b = 0 THEN ci.top ELSE top
      /\ Advance(0) /\ Count /\ Same /\ UNCHANGED <<stack, closures, upvals, globals, trace, phase>>
Close ==
  /\ At0("CLOSE") /\ upvals' = CloseUpvals(upvals, stack, ci.base + i.a) /\ Advance(0)
  /\ Count /\ Same /\ UNCHANGED <<stack, top, heap, closures, globals, trace, phase>>

\* OP_CLOSURE is followed by one pseudo instruction for each upvalue.
Closure ==
  /\ At0("CLOSURE")
  /\ LET path == Append(cl.path, i.b)
         n == Len(ProtoAt(chunk.proto, path).ups)
         c == "c" \o ToString(Cardinality(DOMAIN closures) + 1)
         RECURSIVE Capture(_, _, _)
         Capture(j, ups, found) ==
           LET pseudo == At(p, ci.pc + j)
               u == FindUpval(ups, ci.base + pseudo.b)
           IN  IF j > n THEN [ups |-> ups, found |-> found]
               ELSE IF pseudo.op = "GETUPVAL" THEN Capture(j + 1, ups, Append(found, cl.ups[pseudo.b + 1]))
               ELSE Capture(j + 1, u.ups, Append(found, u.n))
         r == Capture(1, upvals, <<>>)
     IN  /\ closures' = (c :> [path |-> path, ups |-> r.found]) @@ closures
         /\ upvals' = r.ups /\ stack' = Put(stack, i.a, c) /\ Advance(n)
         /\ Count /\ Same /\ UNCHANGED <<top, heap, globals, trace, phase>>
Vararg ==
  LET n == ci.nvarargs
      b == IF i.b = 0 THEN n ELSE i.b - 1
      value(j) == IF j < n THEN stack[ci.base - n + j] ELSE "nil"
      ra == ci.base + i.a
  IN  /\ At0("VARARG")
      /\ stack' = [s \in DOMAIN stack |-> IF s \in ra .. ra + b - 1 THEN value(s - ra) ELSE stack[s]]
      /\ top' = IF i.b = 0 THEN ra + n ELSE top
      /\ Advance(0) /\ Count /\ Same /\ UNCHANGED <<store, trace, phase>>

Init ==
  /\ program \in Programs /\ answers = <<>>
  /\ chunk = [proto |-> <<>>, ok |-> TRUE, err |-> FALSE]
  /\ frames = <<>> /\ stack = [s \in 0 .. StackSize - 1 |-> "junk"] /\ top = 0
  /\ heap = Empty /\ closures = Empty /\ upvals = <<>> /\ globals = "f" :> "f"
  /\ trace = <<>> /\ phase = "load" /\ steps = 0

\* luaD_protectedparser, then the call of the main function.
Started(c, n) ==
  /\ chunk' = c
  /\ IF c.err THEN phase' = "syntax" /\ UNCHANGED <<frames, stack, top, closures>>
     ELSE /\ phase' = "run" /\ frames' = <<n.frame>> /\ stack' = n.st /\ top' = n.frame.top
          /\ closures' = "c0" :> [path |-> <<>>, ups |-> <<>>]
Compiled(c) == Started(c, NewFrame("c0", c.proto, [stack EXCEPT ![0] = "c0"], 0, 1, MultRet))
Load ==
  /\ phase = "load"
  /\ Compiled(LuaYParser(BlockText(program)))
  /\ UNCHANGED <<program, answers, heap, upvals, globals, trace, steps>>

Execute ==
  \/ Move \/ LoadK \/ LoadBool \/ LoadNil \/ GetUpval \/ GetGlobal \/ GetTable \/ SetGlobal
  \/ SetUpval \/ SetTable \/ NewTable \/ SelfOp \/ Binary \/ Unm \/ Not \/ Length \/ Concat
  \/ Jmp \/ Compare \/ Test \/ TestSet \/ Call \/ TailCall \/ Return \/ ForPrep \/ ForLoop
  \/ TForLoop \/ SetListOp \/ Close \/ Closure \/ Vararg

(***************************************************************************)
(* Properties.                                                             *)
(***************************************************************************)
Results0 == [j \in 1 .. top |-> Show(stack[j - 1], heap, closures)]

\* The frames follow each other on the stack and each pc is in its code.
FramesInOrder ==
  /\ \A n \in DOMAIN frames :
       /\ frames[n].pc \in 0 .. Len(ProtoAt(chunk.proto, closures[frames[n].cl].path).code) - 1
       /\ frames[n].func < frames[n].base /\ frames[n].base <= frames[n].top
       /\ frames[n].top <= StackSize
       /\ n > 1 => frames[n].func >= frames[n - 1].base
  /\ \A n \in DOMAIN upvals : upvals[n].reg \in -1 .. StackSize - 1

\* The assertions of the parser and of the code generator hold: registers
\* are freed in order, lists are closed, a statement leaves only its locals.
\* So does that of luaV_execute: the top of the stack is that of the frame
\* except before an instruction that takes an open list of values.
AssertionsHold ==
  /\ chunk.ok
  /\ FramesInOrder
  /\ phase = "run" => top = ci.top \/ CheckOpenOp(i)

\* Every function compiled passes luaG_checkcode, as close_func asserts.
RECURSIVE AllChecked(_)
AllChecked(pt) == CheckCode(pt) /\ \A n \in DOMAIN pt.p : AllChecked(pt.p[n])
CodeChecked == steps = 0 /\ phase = "run" => AllChecked(chunk.proto)

\* A run makes the calls, and ends and returns, as the program means; it does end.
RunsAsMeant ==
  /\ phase = "run" => steps < MaxSteps
  /\ phase \notin {"load", "run"} =>
       Meaning(program, answers) = [tr |-> trace, out |-> phase, rv |-> IF phase = "done" THEN Results0 ELSE <<>>]

\* An open upvalue belongs to a variable that is active where its function
\* is (or about to be closed): no closure refers to a register that
\* another variable or a temporary has taken over.
ActiveAt(pt, pc) == {n \in DOMAIN pt.locvars : pt.locvars[n].startpc <= pc /\ pc < pt.locvars[n].endpc}
OpenUpvaluesActive ==
  \A u \in DOMAIN upvals : Open(upvals[u]) /\ phase = "run" =>
    \E n \in DOMAIN frames :
      LET fr == frames[n]
          pt == ProtoAt(chunk.proto, closures[fr.cl].path)
          r == upvals[u].reg - fr.base
          inst == At(pt, fr.pc)
      IN  /\ r >= 0 /\ upvals[u].reg < fr.top
          /\ \/ r < Cardinality(ActiveAt(pt, fr.pc))
             \/ inst.op = "RETURN" \/ (inst.op = "CLOSE" /\ inst.a <= r)

Next == Load \/ Execute
Spec == Init /\ [][Next]_vars
=============================================================================
