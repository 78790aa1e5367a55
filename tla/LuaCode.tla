------------------------------- MODULE LuaCode -------------------------------
(***************************************************************************)
(* The code generator of Lua 5.1 (lcode.c) with the tables of lopcodes.c   *)
(* and the code checker of ldebug.c.  A FuncState is a record, the code a  *)
(* sequence of [op, a, b, c] whose program counters start at 0; Bx and sBx *)
(* are kept in b, and a jump list is threaded through the sBx of its JMPs, *)
(* as in the source.  `ok' turns FALSE where a lua_assert would fail.      *)
(* Numbers, strings and the other values are strings ("1", "'a'", "nil"):  *)
(* NumberOf gives the numbers their meaning.                               *)
(***************************************************************************)
EXTENDS Integers, SequencesExt

CONSTANTS MaxIndexRK,      \* MAXINDEXRK: the last constant an operand can name
          FieldsPerFlush   \* LFIELDS_PER_FLUSH

ASSUME LuaCodeAssumption == MaxIndexRK \in 0..255 /\ FieldsPerFlush \in Nat \ {0}

NumberOf == [v \in {ToString(n) : n \in -40..60} |->
               CHOOSE n \in -40..60 : ToString(n) = v]
IsNumber(v) == v \in DOMAIN NumberOf
StringValues == {"'a'", "'b'", "'n'"}

NoJump == -1
NoReg == 255
MultRet == -1
BitRK == 256
IsK(r) == r >= BitRK

Inst(op, a, b, c) == [op |-> op, a |-> a, b |-> b, c |-> c]

\* expdesc: u.s.info and u.nval share their place, as in the union.
Exp(k, i) == [k |-> k, info |-> i, aux |-> 0, t |-> NoJump, f |-> NoJump]
HasMultRet(k) == k \in {"VCALL", "VVARARG"}
HasJumps(e) == e.t # e.f
IsNumeral(e) == e.k = "VKNUM" /\ e.t = NoJump /\ e.f = NoJump

\* luaP_opmodes: the test and A bits, and the kinds of B and C.
TMode == {"EQ", "LT", "LE", "TEST", "TESTSET", "TFORLOOP"}
ModeB == [R |-> {"MOVE", "LOADNIL", "GETTABLE", "SELF", "UNM", "NOT", "LEN", "CONCAT", "TEST", "TESTSET"},
          K |-> {"SETTABLE", "ADD", "SUB", "MUL", "DIV", "MOD", "EQ", "LT", "LE"},
          N |-> {"TFORLOOP", "CLOSE"}]
ModeC == [R |-> {"CONCAT"},
          K |-> {"GETTABLE", "SETTABLE", "SELF", "ADD", "SUB", "MUL", "DIV", "MOD", "EQ", "LT", "LE"},
          N |-> {"MOVE", "LOADNIL", "GETUPVAL", "SETUPVAL", "UNM", "NOT", "LEN", "RETURN", "CLOSE", "VARARG"}]

(***************************************************************************)
(* Instructions and jump lists.                                            *)
(***************************************************************************)
PC(fs) == Len(fs.code)
At(fs, pc) == fs.code[pc + 1]
SetA(fs, pc, a) == [fs EXCEPT !.code[pc + 1].a = a]
SetB(fs, pc, b) == [fs EXCEPT !.code[pc + 1].b = b]
SetC(fs, pc, c) == [fs EXCEPT !.code[pc + 1].c = c]
Check(fs, c) == [fs EXCEPT !.ok = @ /\ c]

GetJump(fs, pc) == IF At(fs, pc).b = NoJump THEN NoJump ELSE pc + 1 + At(fs, pc).b
RECURSIVE Jumps(_, _)
Jumps(fs, l) == IF l = NoJump THEN {} ELSE {l} \union Jumps(fs, GetJump(fs, l))

GetJumpControl(fs, pc) == IF pc >= 1 /\ At(fs, pc - 1).op \in TMode THEN pc - 1 ELSE pc
TestsValue(fs, j) == At(fs, GetJumpControl(fs, j)).op = "TESTSET"
NeedValue(fs, l) == \E j \in Jumps(fs, l) : ~TestsValue(fs, j)

PatchTestReg(i, reg) ==
  IF reg # NoReg /\ reg # i.b THEN [i EXCEPT !.a = reg] ELSE Inst("TEST", i.b, 0, i.c)

PatchTests(fs, js, reg) ==
  [fs EXCEPT !.code = <<>> \o [i \in DOMAIN @ |->
     IF i \in js /\ @[i].op = "TESTSET" THEN PatchTestReg(@[i], reg) ELSE @[i]]]
RemoveValues(fs, l) == PatchTests(fs, Jumps(fs, l), NoReg)

\* The jumps that carry a value go to vtarget with it in reg, the others to dtarget.
PatchJumps(fs, js, vtarget, reg, dtarget) ==
  LET dest(j) == IF TestsValue(fs, j) THEN vtarget ELSE dtarget
  IN  PatchTests([Check(fs, \A j \in js : dest(j) # NoJump) EXCEPT !.code =
        [i \in DOMAIN @ |-> IF i - 1 \in js THEN [@[i] EXCEPT !.b = dest(i - 1) - i] ELSE @[i]]],
        js, reg)
PatchListAux(fs, l, vtarget, reg, dtarget) == PatchJumps(fs, Jumps(fs, l), vtarget, reg, dtarget)

\* luaK_concat: the code with the list l2 after l1, and where the list begins.
LuaKConcat(fs, l1, l2) ==
  IF l1 = NoJump \/ l2 = NoJump THEN fs
  ELSE LET last == CHOOSE j \in Jumps(fs, l1) : GetJump(fs, j) = NoJump
       IN  SetB(fs, last, l2 - (last + 1))
ListHead(l1, l2) == IF l1 = NoJump THEN l2 ELSE l1

GetLabel(fs) == [fs EXCEPT !.lasttarget = PC(fs)]
PatchToHere(fs, l) == [LuaKConcat(GetLabel(fs), fs.jpc, l) EXCEPT !.jpc = ListHead(@, l)]
PatchList(fs, l, target) ==
  IF target = PC(fs) THEN PatchToHere(fs, l)
  ELSE PatchListAux(Check(fs, target < PC(fs)), l, target, NoReg, target)

DischargeJpc(fs) == [PatchListAux(fs, fs.jpc, PC(fs), NoReg, PC(fs)) EXCEPT !.jpc = NoJump]
LuaKCode(fs, i) == [DischargeJpc(fs) EXCEPT !.code = Append(@, i)]
Code(fs, op, a, b, c) == LuaKCode(fs, Inst(op, a, b, c))
LastPC(fs) == PC(fs) - 1

\* luaK_jump: the jumps to here go where the new jump, the last instruction, goes.
Jump(fs) ==
  LuaKConcat(Code([fs EXCEPT !.jpc = NoJump], "JMP", 0, NoJump, 0), PC(fs), fs.jpc)
CondJump(fs, op, a, b, c) == Jump(Code(fs, op, a, b, c))
Ret(fs, first, nret) == Code(fs, "RETURN", first, nret + 1, 0)

\* luaK_nil joins two LOADNILs, unless a jump may come between them.
LuaKNil(fs, from, n) ==
  LET joins == At(fs, LastPC(fs)).op = "LOADNIL" /\ At(fs, LastPC(fs)).a <= from
               /\ from <= At(fs, LastPC(fs)).b + 1
  IN  CASE PC(fs) > fs.lasttarget /\ PC(fs) = 0 -> fs
        [] PC(fs) > fs.lasttarget /\ PC(fs) > 0 /\ joins ->
             IF from + n - 1 > At(fs, LastPC(fs)).b THEN SetB(fs, LastPC(fs), from + n - 1) ELSE fs
        [] OTHER -> Code(fs, "LOADNIL", from, from + n - 1, 0)

(***************************************************************************)
(* Registers and constants.                                                *)
(***************************************************************************)
CheckStack(fs, n) ==
  [fs EXCEPT !.maxstacksize = IF fs.freereg + n > @ THEN fs.freereg + n ELSE @]
ReserveRegs(fs, n) == [CheckStack(fs, n) EXCEPT !.freereg = @ + n]
FreeReg(fs, r) ==
  IF ~IsK(r) /\ r >= fs.nactvar
  THEN Check([fs EXCEPT !.freereg = @ - 1], r = fs.freereg - 1) ELSE fs
FreeExp(fs, e) == IF e.k = "VNONRELOC" THEN FreeReg(fs, e.info) ELSE fs
Free(fs) == FreeExp(fs, fs.e)

AddK(fs, v) == IF \E i \in DOMAIN fs.k : fs.k[i] = v THEN fs ELSE [fs EXCEPT !.k = Append(@, v)]
KIndex(fs, v) == (CHOOSE i \in DOMAIN fs.k : fs.k[i] = v) - 1

(***************************************************************************)
(* Expressions.  fs.e is the expdesc at hand.                              *)
(***************************************************************************)
WithExp(fs, e) == [fs EXCEPT !.e = e]
InReg(fs, reg) == [fs EXCEPT !.e.k = "VNONRELOC", !.e.info = reg]

SetReturns(fs, n) ==
  CASE fs.e.k = "VCALL" -> SetC(fs, fs.e.info, n + 1)
    [] fs.e.k = "VVARARG" -> ReserveRegs(SetA(SetB(fs, fs.e.info, n + 1), fs.e.info, fs.freereg), 1)
    [] OTHER -> fs
SetMultRet(fs) == SetReturns(fs, MultRet)
SetOneRet(fs) ==
  CASE fs.e.k = "VCALL" -> InReg(fs, At(fs, fs.e.info).a)
    [] fs.e.k = "VVARARG" -> [SetB(fs, fs.e.info, 2) EXCEPT !.e.k = "VRELOCABLE"]
    [] OTHER -> fs

Relocable(fs, op, b, c) ==
  [Code(fs, op, 0, b, c) EXCEPT !.e.k = "VRELOCABLE", !.e.info = PC(fs)]

DischargeVars(fs) ==
  CASE fs.e.k = "VLOCAL" -> InReg(fs, fs.e.info)
    [] fs.e.k = "VUPVAL" -> Relocable(fs, "GETUPVAL", fs.e.info, 0)
    [] fs.e.k = "VGLOBAL" -> Relocable(fs, "GETGLOBAL", fs.e.info, 0)
    [] fs.e.k = "VINDEXED" ->
         Relocable(FreeReg(FreeReg(fs, fs.e.aux), fs.e.info), "GETTABLE", fs.e.info, fs.e.aux)
    [] OTHER -> SetOneRet(fs)

LoadNumber(fs, reg, v) == Code(fs, "LOADK", reg, KIndex(fs, v), 0)
ValueToReg(fs, reg) ==
  CASE fs.e.k = "VNIL" -> LuaKNil(fs, reg, 1)
    [] fs.e.k \in {"VFALSE", "VTRUE"} ->
         Code(fs, "LOADBOOL", reg, IF fs.e.k = "VTRUE" THEN 1 ELSE 0, 0)
    [] fs.e.k = "VK" -> Code(fs, "LOADK", reg, fs.e.info, 0)
    [] fs.e.k = "VKNUM" -> LoadNumber(AddK(fs, ToString(fs.e.info)), reg, ToString(fs.e.info))
    [] fs.e.k = "VRELOCABLE" -> SetA(fs, fs.e.info, reg)
    [] fs.e.k = "VNONRELOC" -> IF reg # fs.e.info THEN Code(fs, "MOVE", reg, fs.e.info, 0) ELSE fs
Discharged2Reg(fs, reg) ==
  IF fs.e.k \in {"VVOID", "VJMP"} THEN fs ELSE InReg(ValueToReg(fs, reg), reg)
Discharge2Reg(fs, reg) == Discharged2Reg(DischargeVars(fs), reg)
Discharge2AnyReg(fs) ==
  IF fs.e.k = "VNONRELOC" THEN fs ELSE Discharge2Reg(ReserveRegs(fs, 1), fs.freereg)

\* code_label: an instruction that may be a jump target.
CodeLabel(fs, a, b, jump) == Code(GetLabel(fs), "LOADBOOL", a, b, jump)

\* exp2reg: the jumps of both lists meet after the expression, through a
\* LOADBOOL for those that carry no value.
OwnJump(fs) ==
  IF fs.e.k # "VJMP" THEN fs
  ELSE [LuaKConcat(fs, fs.e.t, fs.e.info) EXCEPT !.e.t = ListHead(@, fs.e.info)]
BothValues(fs, reg) == CodeLabel(CodeLabel(fs, reg, 0, 1), reg, 1, 0)
PatchExits(fs, reg, pf, pt) ==
  PatchListAux(PatchListAux(fs, fs.e.f, PC(fs), reg, pf), fs.e.t, PC(fs), reg, pt)
PatchValues(fs, reg) == PatchExits(fs, reg, PC(fs) - 2, PC(fs) - 1)
CloseJumps(fs, reg) ==
  CASE ~HasJumps(fs.e) -> fs
    [] HasJumps(fs.e) /\ ~NeedValue(fs, fs.e.t) /\ ~NeedValue(fs, fs.e.f) ->
         PatchExits(GetLabel(fs), reg, NoJump, NoJump)
    [] OTHER -> PatchValues(GetLabel(IF fs.e.k = "VJMP" THEN BothValues(fs, reg)
                                     ELSE PatchToHere(BothValues(Jump(fs), reg), PC(fs))), reg)
Exp2Reg(fs, reg) ==
  WithExp(CloseJumps(OwnJump(Discharge2Reg(fs, reg)), reg), Exp("VNONRELOC", reg))

ToNextReg(fs) == Exp2Reg(ReserveRegs(fs, 1), fs.freereg)
Exp2NextReg(fs) == ToNextReg(Free(DischargeVars(fs)))

ToAnyReg(fs) ==
  CASE fs.e.k = "VNONRELOC" /\ ~HasJumps(fs.e) -> fs
    [] fs.e.k = "VNONRELOC" /\ HasJumps(fs.e) /\ fs.e.info >= fs.nactvar -> Exp2Reg(fs, fs.e.info)
    [] OTHER -> Exp2NextReg(fs)
Exp2AnyReg(fs) == ToAnyReg(DischargeVars(fs))
Exp2Val(fs) == IF HasJumps(fs.e) THEN Exp2AnyReg(fs) ELSE DischargeVars(fs)

\* luaK_exp2RK leaves a constant, or a register: RKOf names it in an operand.
RKOf(e) == IF e.k = "VK" THEN BitRK + e.info ELSE e.info
ConstantOf(e) ==
  CASE e.k = "VKNUM" -> ToString(e.info) [] e.k = "VTRUE" -> "true"
    [] e.k = "VFALSE" -> "false" [] e.k = "VNIL" -> "nil"
AsConstant(fs, v) == [fs EXCEPT !.e.k = "VK", !.e.info = KIndex(fs, v)]
ToRK(fs) ==
  CASE fs.e.k \in {"VKNUM", "VTRUE", "VFALSE", "VNIL"} /\ Len(fs.k) <= MaxIndexRK ->
         AsConstant(AddK(fs, ConstantOf(fs.e)), ConstantOf(fs.e))
    [] fs.e.k = "VK" /\ fs.e.info <= MaxIndexRK -> fs
    [] OTHER -> Exp2AnyReg(fs)
Exp2RK(fs) == ToRK(Exp2Val(fs))

StoreReg(fs, op, n) == Free(Code(fs, op, fs.e.info, n, 0))
StoreIndexed(fs, var) == Free(Code(fs, "SETTABLE", var.info, var.aux, RKOf(fs.e)))
StoreVar(fs, var) ==
  CASE var.k = "VLOCAL" -> Exp2Reg(Free(fs), var.info)
    [] var.k = "VINDEXED" -> StoreIndexed(Exp2RK(fs), var)
    [] OTHER -> StoreReg(Exp2AnyReg(fs), IF var.k = "VUPVAL" THEN "SETUPVAL" ELSE "SETGLOBAL", var.info)

\* luaK_self: the method key of the object fs.e, and the object after it.
SelfCode(fs, func, e) ==
  InReg(Free(Code(fs, "SELF", func, e.info, RKOf(fs.e))), func)
SelfKey(fs, key) == SelfCode(Exp2RK(WithExp(ReserveRegs(fs, 2), key)), fs.freereg, fs.e)
Self(fs, key) == SelfKey(Free(Exp2AnyReg(fs)), key)

InvertJump(fs) ==
  LET pc == GetJumpControl(fs, fs.e.info)
  IN  SetA(Check(fs, At(fs, pc).op \in TMode \ {"TESTSET", "TEST"}), pc, 1 - At(fs, pc).a)

\* jumponcond: a NOT before the test is taken back and the test inverted.
TestJump(fs, cond) == CondJump(Free(fs), "TESTSET", NoReg, fs.e.info, cond)
JumpOnCond(fs, cond) ==
  IF fs.e.k = "VRELOCABLE" /\ At(fs, fs.e.info).op = "NOT"
  THEN CondJump([fs EXCEPT !.code = Front(@)], "TEST", At(fs, fs.e.info).b, 0, 1 - cond)
  ELSE TestJump(Discharge2AnyReg(fs), cond)

\* The jump that leaves the expression, if there is one.
ExitJump(fs, never) ==
  CASE fs.e.k \in never -> NoJump [] fs.e.k = "VJMP" -> fs.e.info [] OTHER -> LastPC(fs)

AlwaysTrue == {"VK", "VKNUM", "VTRUE"}
FalseExit(fs, j) == [PatchToHere(LuaKConcat(fs, fs.e.f, j), fs.e.t) EXCEPT
                       !.e.f = ListHead(@, j), !.e.t = NoJump]
LeaveIfFalse(fs) == FalseExit(fs, ExitJump(fs, AlwaysTrue))
GoOnIfTrue(fs) ==
  LeaveIfFalse(CASE fs.e.k \in AlwaysTrue -> fs [] fs.e.k = "VFALSE" -> Jump(fs)
                 [] fs.e.k = "VJMP" -> InvertJump(fs) [] OTHER -> JumpOnCond(fs, 0))
GoIfTrue(fs) == GoOnIfTrue(DischargeVars(fs))

AlwaysFalse == {"VNIL", "VFALSE"}
TrueExit(fs, j) == [PatchToHere(LuaKConcat(fs, fs.e.t, j), fs.e.f) EXCEPT
                      !.e.t = ListHead(@, j), !.e.f = NoJump]
LeaveIfTrue(fs) == TrueExit(fs, ExitJump(fs, AlwaysFalse))
GoOnIfFalse(fs) ==
  LeaveIfTrue(CASE fs.e.k \in AlwaysFalse \union {"VJMP"} -> fs [] fs.e.k = "VTRUE" -> Jump(fs)
                [] OTHER -> JumpOnCond(fs, 1))
GoIfFalse(fs) == GoOnIfFalse(DischargeVars(fs))

NotInReg(fs) == Relocable(Free(fs), "NOT", fs.e.info, 0)
SwapLists(fs) ==
  [RemoveValues(RemoveValues(fs, fs.e.t), fs.e.f) EXCEPT !.e.t = fs.e.f, !.e.f = fs.e.t]
Negated(fs) ==
  SwapLists(CASE fs.e.k \in AlwaysFalse -> [fs EXCEPT !.e.k = "VTRUE"]
              [] fs.e.k \in AlwaysTrue -> [fs EXCEPT !.e.k = "VFALSE"]
              [] fs.e.k = "VJMP" -> InvertJump(fs)
              [] OTHER -> NotInReg(Discharge2AnyReg(fs)))
CodeNot(fs) == Negated(DischargeVars(fs))

IndexedBy(fs, t) == WithExp(fs, [t EXCEPT !.k = "VINDEXED", !.aux = RKOf(fs.e)])
Indexed(fs, t) == IndexedBy(Exp2RK(fs), t)

(***************************************************************************)
(* Operators: e1 is the left operand and fs.e the right one.  The numbers  *)
(* of the model are integers and its divisions exact, except by zero.      *)
(***************************************************************************)
Mod(a, b) == IF b > 0 THEN a % b ELSE -((-a) % (-b))
Arith(op, a, b) ==
  CASE op = "ADD" -> a + b [] op = "SUB" -> a - b [] op = "MUL" -> a * b
    [] op = "DIV" -> a \div b [] op = "MOD" -> Mod(a, b) [] op = "UNM" -> -a

ConstFolding(op, e1, e2) ==
  /\ IsNumeral(e1) /\ IsNumeral(e2)
  /\ op \in {"ADD", "SUB", "MUL", "UNM"} \/ (op \in {"DIV", "MOD"} /\ e2.info # 0)

Unary == {"UNM", "LEN"}
\* (with the registers freed in the wrong order)
ArithCodeSwapped(fs, op, e1) ==
  Relocable(WithExp(Free(FreeExp(fs, e1)), e1), op, RKOf(e1), IF op \in Unary THEN 0 ELSE RKOf(fs.e))
ArithCode(fs, op, e1) ==
  Relocable(WithExp(FreeExp(Free(fs), e1), e1), op, RKOf(e1), IF op \in Unary THEN 0 ELSE RKOf(fs.e))
ArithRight(fs, op, e2) ==
  ArithCode(IF op \in Unary THEN WithExp(fs, e2) ELSE Exp2RK(WithExp(fs, e2)), op, fs.e)
CodeArith(fs, op, e1) ==
  IF ConstFolding(op, e1, fs.e)
  THEN WithExp(fs, [e1 EXCEPT !.info = Arith(op, e1.info, fs.e.info)])
  ELSE ArithRight(Exp2RK(WithExp(fs, e1)), op, fs.e)

\* codecomp: > and >= exchange their operands.
CompJump(fs, op, cond, o1, o2) ==
  IF cond = 0 /\ op # "EQ" THEN CondJump(fs, op, 1, o2, o1) ELSE CondJump(fs, op, cond, o1, o2)
CompResult(fs, e1) == WithExp(fs, [e1 EXCEPT !.k = "VJMP", !.info = LastPC(fs)])
CompCode(fs, op, cond, e1) ==
  CompResult(CompJump(FreeExp(Free(fs), e1), op, cond, RKOf(e1), RKOf(fs.e)), e1)
CompRight(fs, op, cond, e2) == CompCode(Exp2RK(WithExp(fs, e2)), op, cond, fs.e)
CodeComp(fs, op, cond, e1) == CompRight(Exp2RK(WithExp(fs, e1)), op, cond, fs.e)

UnaryArith(fs, op) == CodeArith(WithExp(fs, Exp("VKNUM", 0)), op, fs.e)
Prefix(fs, op) ==
  IF op = "not" THEN CodeNot(fs)
  ELSE UnaryArith(IF op = "#" \/ fs.e.k = "VK" THEN Exp2AnyReg(fs) ELSE fs,
                  IF op = "#" THEN "LEN" ELSE "UNM")

Infix(fs, op) ==
  CASE op = "and" -> GoIfTrue(fs) [] op = "or" -> GoIfFalse(fs) [] op = ".." -> Exp2NextReg(fs)
    [] OTHER -> IF IsNumeral(fs.e) THEN fs ELSE Exp2RK(fs)

OpCodeOf == "+" :> "ADD" @@ "-" :> "SUB" @@ "*" :> "MUL" @@ "/" :> "DIV" @@ "%" :> "MOD" @@ ".." :> "CONCAT"
            @@ "==" :> "EQ" @@ "~=" :> "EQ" @@ "<" :> "LT" @@ "<=" :> "LE" @@ ">" :> "LT" @@ ">=" :> "LE"

AndResult(fs, e1) == [LuaKConcat(fs, e1.f, fs.e.f) EXCEPT !.e.f = ListHead(e1.f, @)]
OrResult(fs, e1) == [LuaKConcat(fs, e1.t, fs.e.t) EXCEPT !.e.t = ListHead(e1.t, @)]
ConcatMore(fs) == fs.e.k = "VRELOCABLE" /\ At(fs, fs.e.info).op = "CONCAT"
ConcatCode(fs, e1) ==
  IF ConcatMore(fs)
  THEN WithExp(SetB(FreeExp(Check(fs, e1.info = At(fs, fs.e.info).b - 1), e1), fs.e.info, e1.info),
               [e1 EXCEPT !.k = "VRELOCABLE", !.info = fs.e.info])
  ELSE CodeArith(Exp2NextReg(fs), "CONCAT", e1)
Posfix(fs, op, e1) ==
  CASE op = "and" -> AndResult(DischargeVars(Check(fs, e1.t = NoJump)), e1)
    [] op = "or" -> OrResult(DischargeVars(Check(fs, e1.f = NoJump)), e1)
    [] op = ".." -> ConcatCode(Exp2Val(fs), e1)
    [] op \in {"==", "~=", "<", "<=", ">", ">="} ->
         CodeComp(fs, OpCodeOf[op], IF op \in {"~=", ">", ">="} THEN 0 ELSE 1, e1)
    [] OTHER -> CodeArith(fs, OpCodeOf[op], e1)

SetList(fs, base, nelems, tostore) ==
  [Code(Check(fs, tostore # 0), "SETLIST", base, IF tostore = MultRet THEN 0 ELSE tostore,
        (nelems - 1) \div FieldsPerFlush + 1) EXCEPT !.freereg = base + 1]

(***************************************************************************)
(* luaG_checkcode: the checks of symbexec with reg = NO_REG.               *)
(***************************************************************************)
IsVararg == "ISVARARG"
NeedsArg == "NEEDSARG"
HasArg == "HASARG"

CheckOpenOp(i) == i.op \in {"CALL", "TAILCALL", "RETURN", "SETLIST"} /\ i.b = 0

CheckArgMode(pt, r, op, mode) ==
  /\ op \in mode.N => r = 0
  /\ op \in mode.R => r < pt.maxstacksize
  /\ op \in mode.K => IF IsK(r) THEN r - BitRK < Len(pt.k) ELSE r < pt.maxstacksize

CheckInst(pt, pc) ==
  LET i == At(pt, pc)
      op == i.op
      size == Len(pt.code)
      reg(r) == r < pt.maxstacksize
  IN  /\ reg(i.a)
      /\ CheckArgMode(pt, i.b, op, ModeB) /\ CheckArgMode(pt, i.c, op, ModeC)
      /\ op \in {"LOADK", "GETGLOBAL", "SETGLOBAL"} => i.b < Len(pt.k)
      /\ op \in {"JMP", "FORLOOP", "FORPREP"} => pc + 1 + i.b \in 0 .. size - 1
      /\ op \in TMode => pc + 2 < size /\ At(pt, pc + 1).op = "JMP"
      /\ op = "LOADBOOL" /\ i.c # 0 => pc + 2 < size
      /\ op \in {"GETUPVAL", "SETUPVAL"} => i.b < Len(pt.ups)
      /\ op \in {"GETGLOBAL", "SETGLOBAL"} => ~IsNumber(pt.k[i.b + 1])
      /\ op = "SELF" => reg(i.a + 1)
      /\ op = "CONCAT" => i.b < i.c
      /\ op = "TFORLOOP" => i.c >= 1 /\ reg(i.a + 2 + i.c)
      /\ op \in {"FORLOOP", "FORPREP"} => reg(i.a + 3)
      /\ op \in {"CALL", "TAILCALL"} =>
           /\ i.b # 0 => reg(i.a + i.b - 1)
           /\ IF i.c = 0 THEN CheckOpenOp(At(pt, pc + 1)) ELSE i.c = 1 \/ reg(i.a + i.c - 2)
      /\ op = "RETURN" => i.b <= 1 \/ reg(i.a + i.b - 2)
      /\ op = "SETLIST" => reg(i.a + i.b)
      /\ op = "CLOSURE" =>
           /\ i.b < Len(pt.p) /\ pc + Len(pt.p[i.b + 1].ups) < size
           /\ \A n \in 1 .. Len(pt.p[i.b + 1].ups) : At(pt, pc + n).op \in {"GETUPVAL", "MOVE"}
      /\ op = "VARARG" =>
           /\ IsVararg \in pt.is_vararg /\ NeedsArg \notin pt.is_vararg
           /\ i.b = 0 => CheckOpenOp(At(pt, pc + 1))
           /\ reg(i.a + i.b - 2)

Precheck(pt) ==
  /\ pt.numparams + (IF HasArg \in pt.is_vararg THEN 1 ELSE 0) <= pt.maxstacksize
  /\ NeedsArg \in pt.is_vararg => HasArg \in pt.is_vararg
  /\ Last(pt.code).op = "RETURN"

CheckCode(pt) == Precheck(pt) /\ \A pc \in 0 .. Len(pt.code) - 1 : CheckInst(pt, pc)
=============================================================================
