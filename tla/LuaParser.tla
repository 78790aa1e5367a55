------------------------------ MODULE LuaParser ------------------------------
(***************************************************************************)
(* The parser of Lua 5.1 (lparser.c): one pass of recursive descent over   *)
(* the tokens that emits code as it reads.  A parser state p is the        *)
(* FuncState of the function being compiled together with the tokens left, *)
(* the FuncStates around it, the expdesc at hand (e) and the number of     *)
(* expressions in the list just read (n).  Every operator returns the      *)
(* state after it.  Line numbers and the limits on names, levels and sizes *)
(* are left out; a syntax error sets `err'.                                *)
(***************************************************************************)
EXTENDS LuaCode

CONSTANT Names   \* the identifiers

Tok(p) == IF p.ts = <<>> THEN "<eof>" ELSE Head(p.ts)
Skip(p) == [p EXCEPT !.ts = IF @ = <<>> THEN @ ELSE Tail(@)]
CheckNext(p, t) == Skip([p EXCEPT !.err = @ \/ Tok(p) # t])
SkipName(p) == Skip([p EXCEPT !.err = @ \/ Tok(p) \notin Names])

\* The rules of the grammar that read each other.
RECURSIVE Parse(_, _, _)
SubExpr(p, limit) == Parse("subexpr", p, limit)
Expr(p) == SubExpr(p, 0)
PrimaryExp(p) == Parse("primaryexp", p, 0)
Constructor(p) == Parse("constructor", p, 0)
Body(p, needself) == Parse("body", p, needself)
Block(p) == Parse("block", p, 0)
Chunk(p) == Parse("chunk", p, 0)

RECURSIVE ExpListRest(_, _)
ExpListRest(p, n) ==
  IF Tok(p) = "," THEN ExpListRest(Expr(Skip(Exp2NextReg(p))), n + 1) ELSE [p EXCEPT !.n = n]
ExpList1(p) == ExpListRest(Expr(p), 1)

(***************************************************************************)
(* Variables, upvalues and blocks.                                         *)
(***************************************************************************)
NewLocalVar(fs, name) ==
  [fs EXCEPT !.locvars = Append(@, [name |-> name, startpc |-> 0, endpc |-> 0]),
             !.actvar = Append(@, Len(fs.locvars) + 1)]
RECURSIVE NewLocalVars(_, _)
NewLocalVars(fs, names) ==
  IF names = <<>> THEN fs ELSE NewLocalVars(NewLocalVar(fs, Head(names)), Tail(names))

AdjustLocalVars(fs, n) ==
  [fs EXCEPT !.nactvar = @ + n,
     !.locvars = <<>> \o [i \in DOMAIN @ |->
        IF \E j \in fs.nactvar + 1 .. fs.nactvar + n : fs.actvar[j] = i
        THEN [@[i] EXCEPT !.startpc = PC(fs)] ELSE @[i]]]

RemoveVars(fs, level) ==
  [fs EXCEPT !.nactvar = level, !.actvar = SubSeq(@, 1, level),
     !.locvars = <<>> \o [i \in DOMAIN @ |->
        IF \E j \in level + 1 .. fs.nactvar : fs.actvar[j] = i
        THEN [@[i] EXCEPT !.endpc = PC(fs)] ELSE @[i]]]

IndexUpvalue(fs, k, info) ==
  LET u == [k |-> k, info |-> info]
  IN  IF \E i \in DOMAIN fs.ups : fs.ups[i] = u
      THEN [fs |-> fs, i |-> (CHOOSE i \in DOMAIN fs.ups : fs.ups[i] = u) - 1]
      ELSE [fs |-> [fs EXCEPT !.ups = Append(@, u)], i |-> Len(fs.ups)]

\* searchvar: the innermost active variable of that name, or -1.
SearchVar(fs, n) ==
  LET found == {i \in 1 .. fs.nactvar : fs.locvars[fs.actvar[i]].name = n}
  IN  IF found = {} THEN -1 ELSE (CHOOSE i \in found : \A j \in found : j <= i) - 1

MarkUpval(fs, level) ==
  LET bls == {i \in DOMAIN fs.bl : fs.bl[i].nactvar <= level}
  IN  IF bls = {} THEN fs
      ELSE [fs EXCEPT !.bl[CHOOSE i \in bls : \A j \in bls : j <= i].upval = TRUE]

\* levels: the FuncStates from the main chunk to the one that names n.
RECURSIVE SingleVarAux(_, _, _)
SingleVarAux(levels, n, base) ==
  IF levels = <<>> THEN [levels |-> levels, k |-> "VGLOBAL", info |-> NoReg]
  ELSE LET fs == Last(levels)
           v == SearchVar(fs, n)
           up == SingleVarAux(Front(levels), n, FALSE)
           i == IndexUpvalue(fs, up.k, up.info)
       IN  IF v >= 0
           THEN [levels |-> Append(Front(levels), IF base THEN fs ELSE MarkUpval(fs, v)),
                 k |-> "VLOCAL", info |-> v]
           ELSE IF up.k = "VGLOBAL" THEN [levels |-> levels, k |-> "VGLOBAL", info |-> NoReg]
           ELSE [levels |-> Append(up.levels, i.fs), k |-> "VUPVAL", info |-> i.i]

GlobalVar(p, n) == WithExp(p, Exp("VGLOBAL", KIndex(p, n)))
FoundVar(r, n) ==
  LET p == [Last(r.levels) EXCEPT !.outer = Front(r.levels)]
  IN  IF r.k = "VGLOBAL" THEN GlobalVar(AddK(p, n), n) ELSE WithExp(p, Exp(r.k, r.info))
SingleVar(p) == SkipName(FoundVar(SingleVarAux(Append(p.outer, p), Tok(p), TRUE), Tok(p)))

PadNil(p, n) == LuaKNil(ReserveRegs(p, n), p.freereg, n)
ReserveMore(p, n) == IF n > 1 THEN ReserveRegs(p, n - 1) ELSE p
AdjustAssign(p, nvars, nexps) ==
  LET extra == IF nvars < nexps THEN 0 ELSE nvars - nexps + 1
      closed == IF p.e.k # "VVOID" THEN Exp2NextReg(p) ELSE p
  IN  CASE HasMultRet(p.e.k) -> ReserveMore(SetReturns(p, extra), extra)
        [] ~HasMultRet(p.e.k) /\ nvars > nexps -> PadNil(closed, nvars - nexps)
        [] OTHER -> closed

EnterBlock(p, isbreakable) ==
  [Check(p, p.freereg = p.nactvar) EXCEPT !.bl = Append(@,
     [breaklist |-> NoJump, isbreakable |-> isbreakable, nactvar |-> p.nactvar, upval |-> FALSE])]

CloseUpvalues(p, bl) ==
  IF bl.upval THEN Code(Check(p, ~bl.isbreakable), "CLOSE", bl.nactvar, 0, 0) ELSE p
LeftBlock(p, bl) ==
  PatchToHere([CloseUpvalues(p, bl) EXCEPT !.freereg = bl.nactvar], bl.breaklist)
LeaveBlock(p) ==
  LeftBlock(RemoveVars([p EXCEPT !.bl = Front(@)], Last(p.bl).nactvar), Last(p.bl))

(***************************************************************************)
(* Functions.                                                              *)
(***************************************************************************)
\* open_func: the FuncState around it goes to outer.
OpenFunc(p) ==
  [code |-> <<>>, jpc |-> NoJump, lasttarget |-> -1, freereg |-> 0, nactvar |-> 0,
   actvar |-> <<>>, locvars |-> <<>>, k |-> <<>>, p |-> <<>>, bl |-> <<>>, ups |-> <<>>,
   numparams |-> 0, is_vararg |-> {}, maxstacksize |-> 2, ok |-> TRUE,
   e |-> Exp("VVOID", 0), n |-> 0, ts |-> p.ts, err |-> p.err, outer |-> Append(p.outer, p)]

\* What close_func leaves of the FuncState.
Proto(func) ==
  [code |-> func.code, k |-> func.k, p |-> func.p, ups |-> func.ups, locvars |-> func.locvars,
   numparams |-> func.numparams, is_vararg |-> func.is_vararg, maxstacksize |-> func.maxstacksize]

CloseFunc(p) == Check(Ret(RemoveVars(p, 0), 0, 0), p.bl = <<>>)

RECURSIVE CaptureUpvals(_, _)
CaptureUpvals(p, ups) ==
  IF ups = <<>> THEN p
  ELSE CaptureUpvals(Code(p, IF Head(ups).k = "VLOCAL" THEN "MOVE" ELSE "GETUPVAL",
                          0, Head(ups).info, 0), Tail(ups))
ClosureCode(p, func) ==
  Code([Check(p, func.ok) EXCEPT !.p = Append(@, Proto(func))], "CLOSURE", 0, Len(p.p), 0)
PushClosure(p, func) ==
  WithExp(CaptureUpvals(ClosureCode(p, func), func.ups), Exp("VRELOCABLE", PC(p)))

RECURSIVE ParList(_)
ParListRest(p) == IF Tok(p) = "," THEN ParList(Skip(p)) ELSE p
ParList(p) ==
  CASE Tok(p) = "..." ->
         Skip([NewLocalVar(p, "arg") EXCEPT !.is_vararg = {IsVararg, HasArg, NeedsArg}])
    [] Tok(p) = ")" -> p
    [] OTHER -> ParListRest(SkipName(NewLocalVar(p, Tok(p))))

ParamsActive(p) ==
  LET hasarg == IF HasArg \in p.is_vararg THEN 1 ELSE 0
  IN  ReserveRegs([p EXCEPT !.numparams = p.nactvar - hasarg], p.nactvar)
AllActive(p) == AdjustLocalVars(p, Len(p.actvar) - p.nactvar)
SelfParam(p, needself) == IF needself THEN AdjustLocalVars(NewLocalVar(p, "self"), 1) ELSE p
Parameters(p, needself) ==
  CheckNext(ParamsActive(AllActive(ParList(SelfParam(CheckNext(p, "("), needself)))), ")")

\* body: the function is compiled in a FuncState of its own.
EndBody(func) ==
  PushClosure([Last(func.outer) EXCEPT !.outer = Front(func.outer), !.ts = func.ts, !.err = func.err], func)
BodyRule(p, needself) ==
  EndBody(CloseFunc(CheckNext(Chunk(Parameters(OpenFunc(p), needself)), "end")))

(***************************************************************************)
(* Expressions.                                                            *)
(***************************************************************************)
StringK(p, v) == WithExp(p, Exp("VK", KIndex(p, v)))
CodeString(p, v) == StringK(AddK(p, v), v)
CheckName(p) == SkipName(CodeString(p, "'" \o Tok(p) \o "'"))

FieldName(p) == Indexed(CheckName(Skip(p)), p.e)
Field(p) == FieldName(Exp2AnyReg(p))
YIndex(p) == CheckNext(Exp2Val(Expr(Skip(p))), "]")

RecStore(p, treg, rk, reg) == [Code(p, "SETTABLE", treg, rk, RKOf(p.e)) EXCEPT !.freereg = reg]
RecValue(p, treg, reg) == RecStore(Exp2RK(Expr(p)), treg, RKOf(p.e), reg)
RecField(p, treg) ==
  RecValue(Exp2RK(CheckNext(IF Tok(p) = "[" THEN YIndex(p) ELSE CheckName(p), "=")), treg, p.freereg)

\* ConsControl: the table is in register t, made by the instruction at pc.
FlushList(p, cc) == IF cc.tostore = FieldsPerFlush THEN SetList(p, cc.t, cc.na, cc.tostore) ELSE p
CloseListField(p, cc) ==
  IF cc.v.k = "VVOID" THEN p ELSE FlushList(Exp2NextReg(WithExp(p, cc.v)), cc)
FieldClosed(cc) ==
  [cc EXCEPT !.v.k = "VVOID",
             !.tostore = IF cc.v.k # "VVOID" /\ @ = FieldsPerFlush THEN 0 ELSE @]
LastListField(p, cc) ==
  CASE cc.tostore = 0 -> p
    [] cc.tostore # 0 /\ HasMultRet(cc.v.k) ->
         SetList(SetMultRet(WithExp(p, cc.v)), cc.t, cc.na, MultRet)
    [] OTHER -> SetList(IF cc.v.k = "VVOID" THEN p ELSE Exp2NextReg(WithExp(p, cc.v)),
                        cc.t, cc.na, cc.tostore)

\* The sizes of a new table are hints, and exact below 16 in luaO_int2fb.
TableSizes(p, cc) ==
  LET open == IF cc.tostore # 0 /\ HasMultRet(cc.v.k) THEN 1 ELSE 0
  IN  WithExp(SetC(SetB(p, cc.pc, cc.na - open), cc.pc, cc.nh), Exp("VNONRELOC", cc.t))
EndTable(p, cc) == TableSizes(LastListField(CheckNext(p, "}"), cc), cc)

RECURSIVE Fields(_, _)
MoreFields(p, cc) == IF Tok(p) \in {",", ";"} THEN Fields(Skip(p), cc) ELSE EndTable(p, cc)
ListField(p, cc) == MoreFields(p, [cc EXCEPT !.v = p.e, !.na = @ + 1, !.tostore = @ + 1])
Fields(p, cc) ==
  CASE Tok(p) = "}" -> EndTable(p, cc)
    [] Tok(p) = "[" \/ (Tok(p) \in Names /\ Tok(Skip(p)) = "=") ->
         MoreFields(RecField(CloseListField(p, cc), cc.t), [FieldClosed(cc) EXCEPT !.nh = @ + 1])
    [] OTHER -> ListField(Expr(CloseListField(p, cc)), FieldClosed(cc))
OpenTable(p, pc) ==
  Fields(p, [v |-> Exp("VVOID", 0), na |-> 0, nh |-> 0, tostore |-> 0, t |-> p.e.info, pc |-> pc])
ConstructorRule(p) ==
  OpenTable(CheckNext(Exp2NextReg(WithExp(Code(p, "NEWTABLE", 0, 0, 0), Exp("VRELOCABLE", PC(p)))), "{"), PC(p))

\* The last argument stays open if it may have many values.
Args(p) ==
  CASE Tok(p) = "{" -> Constructor(p)
    [] Tok(p) \in StringValues -> Skip(CodeString(p, Tok(p)))
    [] Tok(Skip(p)) = ")" -> WithExp(Skip(Skip(p)), Exp("VVOID", 0))
    [] OTHER -> CheckNext(SetMultRet(ExpList1(Skip(p))), ")")
LastArg(p) == IF p.e.k = "VVOID" \/ HasMultRet(p.e.k) THEN p ELSE Exp2NextReg(p)
\* (an open last argument is not seen)
CallCodeFixed(p, base) ==
  [WithExp(Code(p, "CALL", base, p.freereg - base, 2), Exp("VCALL", PC(p))) EXCEPT !.freereg = base + 1]
CallCode(p, base) ==
  [WithExp(Code(p, "CALL", base, IF HasMultRet(p.e.k) THEN 0 ELSE p.freereg - base, 2), Exp("VCALL", PC(p)))
     EXCEPT !.freereg = base + 1]
FuncArgs(p) == CallCode(LastArg(Args(Check(p, p.e.k = "VNONRELOC"))), p.e.info)

Subscript(p) == Indexed(YIndex(p), p.e)
Method(p, v) == Self(WithExp(p, v), p.e)
Suffix(p) ==
  CASE Tok(p) = "." -> Field(p)
    [] Tok(p) = "[" -> Subscript(Exp2AnyReg(p))
    [] OTHER -> FuncArgs(IF Tok(p) = ":" THEN Method(CheckName(Skip(p)), p.e) ELSE Exp2NextReg(p))
RECURSIVE PrimaryRest(_)
PrimaryRest(p) ==
  IF Tok(p) \in {".", "[", ":", "(", "{"} \union StringValues THEN PrimaryRest(Suffix(p)) ELSE p
PrimaryExpRule(p) ==
  PrimaryRest(IF Tok(p) = "(" THEN DischargeVars(CheckNext(Expr(Skip(p)), ")")) ELSE SingleVar(p))

VarargExp(p) ==
  [WithExp(Code(p, "VARARG", 0, 1, 0), Exp("VVARARG", PC(p)))
     EXCEPT !.is_vararg = @ \ {NeedsArg}, !.err = @ \/ p.is_vararg = {}]
SimpleExp(p) ==
  CASE IsNumber(Tok(p)) -> WithExp(Skip(p), Exp("VKNUM", NumberOf[Tok(p)]))
    [] Tok(p) \in StringValues -> Skip(CodeString(p, Tok(p)))
    [] Tok(p) = "nil" -> WithExp(Skip(p), Exp("VNIL", 0))
    [] Tok(p) = "true" -> WithExp(Skip(p), Exp("VTRUE", 0))
    [] Tok(p) = "false" -> WithExp(Skip(p), Exp("VFALSE", 0))
    [] Tok(p) = "..." -> VarargExp(Skip(p))
    [] Tok(p) = "{" -> Constructor(p)
    [] Tok(p) = "function" -> Body(Skip(p), FALSE)
    [] OTHER -> PrimaryExp(p)

UnaryOps == {"not", "-", "#"}
UnaryPriority == 8
LeftPriority ==
  [o \in {"+", "-", "*", "/", "%", "..", "==", "~=", "<", "<=", ">", ">=", "and", "or"} |->
     CASE o \in {"+", "-"} -> 6 [] o \in {"*", "/", "%"} -> 7 [] o = ".." -> 5
       [] o = "and" -> 2 [] o = "or" -> 1 [] OTHER -> 3]
RightPriority == [LeftPriority EXCEPT ![".."] = 4]

Operand(p, op) == Posfix(SubExpr(p, RightPriority[op]), op, p.e)
RECURSIVE BinaryOps(_, _)
BinaryOps(p, limit) ==
  IF Tok(p) \in DOMAIN LeftPriority /\ LeftPriority[Tok(p)] > limit
  THEN BinaryOps(Operand(Infix(Skip(p), Tok(p)), Tok(p)), limit) ELSE p
SubExprRule(p, limit) ==
  BinaryOps(IF Tok(p) \in UnaryOps THEN Prefix(SubExpr(Skip(p), UnaryPriority), Tok(p))
            ELSE SimpleExp(p), limit)

(***************************************************************************)
(* Statements.                                                             *)
(***************************************************************************)
BlockFollow == {"else", "elseif", "end", "until", "<eof>"}

NoBreaks(p) == Check(p, Last(p.bl).breaklist = NoJump)
BlockRule(p) == LeaveBlock(NoBreaks(Chunk(EnterBlock(p, FALSE))))

\* check_conflict: an assignment to a local that an earlier target uses to
\* index: that target gets a copy of the local.
Uses(x, v) == x.k = "VINDEXED" /\ (x.info = v.info \/ x.aux = v.info)
CheckConflict(p, lhs, v) ==
  IF \E i \in DOMAIN lhs : Uses(lhs[i], v)
  THEN ReserveRegs(Code(p, "MOVE", p.freereg, v.info, 0), 1) ELSE p
\* (the copy is made and not used)
SafeTargetsNone(lhs, v, reg) == lhs
SafeTargets(lhs, v, reg) ==
  [i \in DOMAIN lhs |->
     IF ~Uses(lhs[i], v) THEN lhs[i]
     ELSE [lhs[i] EXCEPT !.info = IF @ = v.info THEN reg ELSE @, !.aux = IF @ = v.info THEN reg ELSE @]]

\* The targets take the values from the last register down.
RECURSIVE StoreAll(_, _)
StoreAll(p, lhs) ==
  IF lhs = <<>> THEN p
  ELSE StoreAll(StoreVar(WithExp(p, Exp("VNONRELOC", p.freereg - 1)), Last(lhs)), Front(lhs))
DropExtra(p, n) == [p EXCEPT !.freereg = IF n > 0 THEN @ - n ELSE @]
AssignTo(p, lhs) ==
  LET exact == p.n = Len(lhs)
  IN  StoreAll(IF exact THEN StoreVar(SetOneRet(p), Last(lhs))
               ELSE DropExtra(AdjustAssign(p, Len(lhs), p.n), p.n - Len(lhs)),
               IF exact THEN Front(lhs) ELSE lhs)

\* assignment
RECURSIVE LhsAndAssign(_, _)
NextTarget(p, lhs) ==
  IF p.e.k = "VLOCAL"
  THEN LhsAndAssign(CheckConflict(p, lhs, p.e), Append(SafeTargets(lhs, p.e, p.freereg), p.e))
  ELSE LhsAndAssign(p, Append(lhs, p.e))
LhsAndAssign(p, lhs) ==
  CASE Last(lhs).k \notin {"VLOCAL", "VUPVAL", "VGLOBAL", "VINDEXED"} -> [p EXCEPT !.err = TRUE]
    [] Tok(p) = "," -> NextTarget(PrimaryExp(Skip(p)), lhs)
    [] OTHER -> AssignTo(ExpList1(CheckNext(p, "=")), lhs)

CallOrAssign(p) ==
  IF p.e.k = "VCALL" THEN SetC(p, p.e.info, 1) ELSE LhsAndAssign(p, <<p.e>>)
ExprStat(p) == CallOrAssign(PrimaryExp(p))

\* cond: e.f is then the list of the jumps taken when the condition is false.
NilIsFalse(p) == IF p.e.k = "VNIL" THEN [p EXCEPT !.e.k = "VFALSE"] ELSE p
Cond(p) == GoIfTrue(NilIsFalse(Expr(p)))

BreakJump(p, b) ==
  [LuaKConcat(p, p.bl[b].breaklist, LastPC(p)) EXCEPT !.bl[b].breaklist = ListHead(@, LastPC(p))]
\* (the variables of the blocks it leaves are not closed)
BreakToOpen(p, b) == BreakJump(Jump(p), b)
BreakTo(p, b) ==
  BreakJump(Jump(IF \E j \in DOMAIN p.bl : j > b /\ p.bl[j].upval
                 THEN Code(p, "CLOSE", p.bl[b].nactvar, 0, 0) ELSE p), b)
Breakable(p) == {i \in DOMAIN p.bl : p.bl[i].isbreakable}
BreakStat(p) ==
  IF Breakable(p) = {} THEN [p EXCEPT !.err = TRUE]
  ELSE BreakTo(p, CHOOSE i \in Breakable(p) : \A j \in Breakable(p) : j <= i)

PatchLast(p, target) == PatchList(p, LastPC(p), target)
JumpBack(p, target) == PatchLast(Jump(p), target)

WhileEnd(p, init, exit) ==
  PatchToHere(LeaveBlock(CheckNext(JumpBack(p, init), "end")), exit)
WhileBody(p, init) == WhileEnd(Block(CheckNext(EnterBlock(p, TRUE), "do")), init, p.e.f)
WhileStat(p) == WhileBody(Cond(GetLabel(p)), PC(p))

Until(p, init) ==
  LeaveBlock(IF Last(p.bl).upval
             THEN JumpBack(LeaveBlock(PatchToHere(BreakStat(p), p.e.f)), init)
             ELSE PatchList(LeaveBlock(p), p.e.f, init))
RepeatStat(p) ==
  Until(Cond(CheckNext(Chunk(EnterBlock(EnterBlock(GetLabel(p), TRUE), FALSE)), "until")), PC(p))

Exp1(p) == Exp2NextReg(Expr(p))

OpenVars(p, n) == ReserveRegs(AdjustLocalVars(p, n), n)
ForPrepCode(p, base, isnum) == IF isnum THEN Code(p, "FORPREP", base, NoJump, 0) ELSE Jump(p)
ForLoopCode(p, base, nvars, isnum) ==
  IF isnum THEN Code(p, "FORLOOP", base, NoJump, 0) ELSE Jump(Code(p, "TFORLOOP", base, 0, nvars))
ForEnd(p, prep, base, nvars, isnum) ==
  PatchLast(ForLoopCode(PatchToHere(LeaveBlock(p), prep), base, nvars, isnum), prep + 1)
ForRest(p, base, nvars, isnum) ==
  ForEnd(Block(OpenVars(EnterBlock(ForPrepCode(p, base, isnum), FALSE), nvars)), PC(p), base, nvars, isnum)
ForBody(p, base, nvars, isnum) == ForRest(CheckNext(AdjustLocalVars(p, 3), "do"), base, nvars, isnum)

LoadNextReg(p, v) == ReserveRegs(LoadNumber(p, p.freereg, v), 1)
ForStep(p) == IF Tok(p) = "," THEN Exp1(Skip(p)) ELSE LoadNextReg(AddK(p, "1"), "1")
ForNum(p, name) ==
  ForBody(ForStep(Exp1(CheckNext(Exp1(CheckNext(
            NewLocalVars(p, <<"(for index)", "(for limit)", "(for step)", name>>), "=")), ","))),
          p.freereg, 1, TRUE)

RECURSIVE NameList(_)
NameListRest(p) == IF Tok(p) = "," THEN NameList(Skip(p)) ELSE p
NameList(p) == NameListRest(SkipName(NewLocalVar(p, Tok(p))))

NewVars(p) == Len(p.actvar) - p.nactvar
ForIn(p, base) == ForBody(CheckStack(AdjustAssign(p, 3, p.n), 3), base, NewVars(p) - 3, FALSE)
ForList(p, name) ==
  ForIn(ExpList1(CheckNext(NameListRest(
          NewLocalVars(p, <<"(for generator)", "(for state)", "(for control)", name>>)), "in")), p.freereg)

ForRule(p, name) == IF Tok(p) = "=" THEN ForNum(p, name) ELSE ForList(p, name)
ForStat(p) == LeaveBlock(CheckNext(ForRule(SkipName(EnterBlock(p, TRUE)), Tok(p)), "end"))

\* flist: the jumps of the last condition; escape: those out of the blocks before.
RECURSIVE IfRest(_, _, _)
ThenBlock(p, escape) == IfRest(Block(CheckNext(p, "then")), p.e.f, escape)
TestThen(p, escape) == ThenBlock(Cond(p), escape)
OutOfBlock(p, flist, escape) == PatchToHere(LuaKConcat(Jump(p), escape, PC(p)), flist)
EndIf(p, escape) == CheckNext(PatchToHere(p, escape), "end")
IfRest(p, flist, escape) ==
  CASE Tok(p) = "elseif" -> TestThen(Skip(OutOfBlock(p, flist, escape)), ListHead(escape, PC(p)))
    [] Tok(p) = "else" -> EndIf(Block(Skip(OutOfBlock(p, flist, escape))), ListHead(escape, PC(p)))
    [] OTHER -> EndIf(LuaKConcat(p, escape, flist), ListHead(escape, flist))
IfStat(p) == TestThen(p, NoJump)

VarStarts(p) == [p EXCEPT !.locvars[p.actvar[p.nactvar]].startpc = PC(p)]
LocalFunc(p) ==
  VarStarts(StoreVar(Body(SkipName(OpenVars(NewLocalVar(p, Tok(p)), 1)), FALSE), Exp("VLOCAL", p.freereg)))

Declare(p) == AdjustLocalVars(AdjustAssign(p, NewVars(p), p.n), NewVars(p))
LocalValues(p) ==
  Declare(IF Tok(p) = "=" THEN ExpList1(Skip(p)) ELSE [WithExp(p, Exp("VVOID", 0)) EXCEPT !.n = 0])
LocalStat(p) == LocalValues(NameList(p))

RECURSIVE FuncName(_)
FuncName(p) == IF Tok(p) = "." THEN FuncName(Field(p)) ELSE p
NamedFunc(p, needself) == StoreVar(Body(p, needself), p.e)
MethodName(p) == NamedFunc(IF Tok(p) = ":" THEN Field(p) ELSE p, Tok(p) = ":")
FuncStat(p) == MethodName(FuncName(SingleVar(p)))

TailCode(p) ==
  IF p.e.k = "VCALL" /\ p.n = 1
  THEN [Check(p, At(p, p.e.info).a = p.nactvar) EXCEPT !.code[p.e.info + 1].op = "TAILCALL"] ELSE p
RetOne(p) == Ret(p, p.e.info, 1)
RetList(p) == Ret(Check(p, p.n = p.freereg - p.nactvar), p.nactvar, p.n)
RetValues(p) ==
  CASE HasMultRet(p.e.k) -> Ret(TailCode(SetMultRet(p)), p.nactvar, MultRet)
    [] ~HasMultRet(p.e.k) /\ p.n = 1 -> RetOne(Exp2AnyReg(p))
    [] OTHER -> RetList(Exp2NextReg(p))
RetStat(p) ==
  IF Tok(p) \in BlockFollow \union {";"} THEN Ret(p, 0, 0) ELSE RetValues(ExpList1(p))

Statement(p) ==
  CASE Tok(p) = "if" -> IfStat(Skip(p))
    [] Tok(p) = "while" -> WhileStat(Skip(p))
    [] Tok(p) = "do" -> CheckNext(Block(Skip(p)), "end")
    [] Tok(p) = "for" -> ForStat(Skip(p))
    [] Tok(p) = "repeat" -> RepeatStat(Skip(p))
    [] Tok(p) = "function" -> FuncStat(Skip(p))
    [] Tok(p) = "local" -> IF Tok(Skip(p)) = "function" THEN LocalFunc(Skip(Skip(p))) ELSE LocalStat(Skip(p))
    [] Tok(p) = "return" -> RetStat(Skip(p))
    [] Tok(p) = "break" -> BreakStat(Skip(p))
    [] OTHER -> ExprStat(p)

\* After a statement only the local variables have registers.
EndStat(p) ==
  [Check(IF Tok(p) = ";" THEN Skip(p) ELSE p, p.maxstacksize >= p.freereg /\ p.freereg >= p.nactvar)
     EXCEPT !.freereg = p.nactvar]
NextStat(p, islast) == IF islast THEN p ELSE Chunk(p)
ChunkRule(p) ==
  IF Tok(p) \in BlockFollow \/ p.err THEN p
  ELSE NextStat(EndStat(Statement(p)), Tok(p) \in {"return", "break"})

Parse(rule, p, a) ==
  CASE rule = "subexpr" -> SubExprRule(p, a)
    [] rule = "primaryexp" -> PrimaryExpRule(p)
    [] rule = "constructor" -> ConstructorRule(p)
    [] rule = "body" -> BodyRule(p, a)
    [] rule = "block" -> BlockRule(p)
    [] rule = "chunk" -> ChunkRule(p)

\* luaY_parser: the main function of a chunk is always vararg.
MainFunc(tokens) ==
  [OpenFunc([ts |-> tokens, err |-> FALSE, outer |-> <<>>]) EXCEPT !.is_vararg = {IsVararg}, !.outer = <<>>]
Parsed(func) == [proto |-> Proto(func), ok |-> func.ok, err |-> func.err]
LuaYParser(tokens) == Parsed(CloseFunc(CheckNext(Chunk(MainFunc(tokens)), "<eof>")))
=============================================================================
