------------------------------- MODULE LuaGC -------------------------------
(* The incremental mark-and-sweep collector of the embedded Lua 5.1 runtime
   (lgc.c, lgc.h, lstring.c, lfunc.c) and the operations of the running program
   that it interleaves with (the stores, loads and allocations of lapi.c, lvm.c
   and ltable.c).  Every handler is a function from the global state G to the
   global state, so that a handler that calls another one composes with it.

   An address is NIL or names one heap cell; a profile says which kind of
   object each cell can hold.  Sizes, memory accounting and pacing are left
   out: a step of the collector may be taken between any two operations, as
   luaC_checkGC may find the threshold passed at any allocation. *)
EXTENDS Naturals, FiniteSets, SequencesExt

CONSTANTS Addr,      \* the heap cells that come and go
          Profiles,  \* what each cell may hold: [kind, mode, gc, hash, ops]
          NIL,       \* the nil value, and the NULL of an unset field
          SweepMax   \* objects swept by one step (GCSWEEPMAX)

MAIN == "main"      \* the main thread
REG == "reg"        \* the table of globals, which the registry stands in for too
Cells == Addr \union {MAIN, REG}

ASSUME GCAssumption == /\ SweepMax \in Nat \ {0}
                       /\ \A p \in Profiles : DOMAIN p.kind = Cells

VARIABLES g,    \* the heap and global_State
          pf    \* the profile
vars == <<g, pf>>

Kind(o) == pf.kind[o]
Free == [mk |-> "free", fin |-> FALSE, f |-> <<>>]
Used(G, o) == G.heap[o].mk # "free"

\* The fields of a new object of each kind that hold references.
Fields(k) ==
    CASE k = "table" -> [meta |-> NIL, arr |-> NIL, key |-> NIL, val |-> NIL, weak |-> ""]
      [] k = "udata" -> [meta |-> NIL, env |-> REG]
      [] k = "cfunc" -> [env |-> REG, up |-> NIL]
      [] k = "lfunc" -> [env |-> REG, p |-> NIL, uv |-> NIL]
      [] k = "proto" -> [k |-> NIL]
      [] k = "thread" -> [gt |-> REG, stk |-> <<NIL>>, open |-> <<>>]
      [] k = "string" -> [len |-> 0]

-----------------------------------------------------------------------------
(* Colours.  Of the two whites, "white" is the current one (luaC_white) and "dead"
   the other; strings are never black. *)
Flip(c) == CASE c = "white" -> "dead" [] c = "dead" -> "white" [] OTHER -> c
IsWhite(G, o) == G.heap[o].mk \in {"white", "dead"}
IsGray(G, o) == G.heap[o].mk = "gray"
IsBlack(G, o) == G.heap[o].mk = "black"
IsDead(G, o) == G.heap[o].mk = "dead"
SetMark(G, o, c) == [G EXCEPT !.heap[o].mk = c]
MakeWhite(G, o) == SetMark(G, o, "white")
ResurrectNot(G, o) == G
\* changewhite: a dead string or open upvalue that is found again.
Resurrect(G, o) == IF IsDead(G, o) THEN MakeWhite(G, o) ELSE G
StringMark(G, v) == IF v # NIL /\ Kind(v) = "string" /\ IsWhite(G, v) THEN SetMark(G, v, "gray") ELSE G

\* Where the value of an upvalue lives: in a stack while it is open.
IsOpen(G, u) == G.heap[u].f.th # NIL
UpValue(G, u) == LET f == G.heap[u].f IN IF f.th = NIL THEN f.v ELSE G.heap[f.th].f.stk[f.lvl]

RECURSIVE ReallyMarkObject(_, _)
MarkValue(G, v) == IF v # NIL /\ IsWhite(G, v) THEN ReallyMarkObject(G, v) ELSE G
ReallyMarkObject(G, o) ==
    LET H == SetMark(G, o, "gray")
        f == G.heap[o].f
    IN CASE Kind(o) = "string" -> H
         [] Kind(o) = "udata" -> MarkValue(MarkValue(SetMark(G, o, "black"), f.meta), f.env)
         [] Kind(o) = "upval" -> LET M == MarkValue(H, UpValue(H, o))
                                 IN IF IsOpen(G, o) THEN M ELSE SetMark(M, o, "black")
         [] OTHER -> [H EXCEPT !.gray = <<o>> \o @]
MarkAll(G, vs) == FoldLeft(MarkValue, G, vs)

-----------------------------------------------------------------------------
(* Traversal of one gray object. *)
Mode(m) == IF m = NIL THEN "" ELSE pf.mode[m]
WeakKey(w) == w \in {"k", "kv"}
WeakVal(w) == w \in {"v", "kv"}

TraverseTable(G, o) ==
    LET f == G.heap[o].f
        w == Mode(f.meta)
        M == MarkValue(G, f.meta)
        L == IF w = "" THEN M
             ELSE [M EXCEPT !.weak = <<o>> \o @, !.heap[o].f.weak = w, !.heap[o].mk = "gray"]
        A == IF WeakVal(w) THEN L ELSE MarkValue(L, f.arr)
    IN IF w = "kv" THEN L
       ELSE IF f.val = NIL THEN [A EXCEPT !.heap[o].f.key = NIL]   \* removeentry
       ELSE MarkAll(A, (IF WeakKey(w) THEN <<>> ELSE <<f.key>>) \o (IF WeakVal(w) THEN <<>> ELSE <<f.val>>))

TraverseClosure(G, o) ==
    LET f == G.heap[o].f IN MarkAll(G, IF Kind(o) = "cfunc" THEN <<f.env, f.up>> ELSE <<f.env, f.p, f.uv>>)

TraverseProto(G, o) == MarkValue(G, G.heap[o].f.k)

TraverseStack(G, o) == MarkAll(G, <<G.heap[o].f.gt>> \o G.heap[o].f.stk)

PropagateMark(G) ==
    LET o == Head(G.gray)
        B == SetMark([G EXCEPT !.gray = Tail(@)], o, "black")
    IN CASE Kind(o) = "table" -> TraverseTable(B, o)
         [] Kind(o) \in {"cfunc", "lfunc"} -> TraverseClosure(B, o)
         [] Kind(o) = "proto" -> TraverseProto(B, o)
         [] Kind(o) = "thread" -> TraverseStack(SetMark([B EXCEPT !.grayagain = <<o>> \o @], o, "gray"), o)

RECURSIVE PropagateAll(_)
PropagateAll(G) == IF G.gray = <<>> THEN G ELSE PropagateAll(PropagateMark(G))

-----------------------------------------------------------------------------
(* The end of the mark phase. *)
MarkRoot(G) == [MarkAll([G EXCEPT !.gray = <<>>, !.grayagain = <<>>, !.weak = <<>>], <<MAIN, REG>>)
                EXCEPT !.gcstate = "propagate"]

OpenUpvals(G) == {u \in Addr : Used(G, u) /\ Kind(u) = "upval" /\ IsOpen(G, u)}
RemarkUpvals(G) == MarkAll(G, [i \in 1..Cardinality({u \in OpenUpvals(G) : IsGray(G, u)}) |->
                                 UpValue(G, SetToSeq({u \in OpenUpvals(G) : IsGray(G, u)})[i])])

HasGC(G, u) == LET m == G.heap[u].f.meta IN m # NIL /\ pf.gc[m]

\* Of the candidates, the userdata that have a finalizer move to the end of tmudata.
Separate(G, cand) ==
    LET call == SelectSeq(cand, LAMBDA u : HasGC(G, u))
    IN [G EXCEPT !.heap = [o \in Cells |-> IF o \in ToSet(cand) THEN [@[o] EXCEPT !.fin = TRUE] ELSE @[o]],
                 !.udata = SelectSeq(@, LAMBDA u : u \notin ToSet(call)),
                 !.tmudata = @ \o call]
SeparateUDataWhite(G, all) == Separate(G, SelectSeq(G.udata, LAMBDA u : IsWhite(G, u) /\ all = FALSE /\ ~ G.heap[u].fin))
SeparateUData(G, all) ==
    Separate(G, SelectSeq(G.udata, LAMBDA u : (IsWhite(G, u) \/ all) /\ ~ G.heap[u].fin))

MarkTMU(G) == FoldLeft(LAMBDA S, u : ReallyMarkObject(MakeWhite(S, u), u), G, G.tmudata)

\* Whether a weak table loses v; strings are marked instead.
IsCleared(G, v, iskey) ==
    /\ v # NIL /\ Kind(v) # "string"
    /\ IsWhite(G, v) \/ (Kind(v) = "udata" /\ ~ iskey /\ G.heap[v].fin)

ClearTable(G, o) ==
    LET f == G.heap[o].f
        A == IF ~ WeakVal(f.weak) THEN G
             ELSE IF IsCleared(G, f.arr, FALSE) THEN [G EXCEPT !.heap[o].f.arr = NIL]
             ELSE StringMark(G, f.arr)
    IN IF f.val = NIL THEN A
       ELSE IF IsCleared(G, f.key, TRUE) \/ IsCleared(G, f.val, FALSE)
            THEN [StringMark(A, f.key) EXCEPT !.heap[o].f.val = NIL, !.heap[o].f.key = NIL]
            ELSE StringMark(StringMark(A, f.key), f.val)

Remark(G) == PropagateAll(RemarkUpvals(G))
RemarkWeak(G) == PropagateAll(MarkValue([G EXCEPT !.gray = G.weak, !.weak = <<>>], G.L))
RemarkAgain(G) == PropagateAll([G EXCEPT !.gray = G.grayagain, !.grayagain = <<>>])
MarkFinalized(G) == PropagateAll(MarkTMU(SeparateUData(G, FALSE)))
\* The list of weak tables and their weak bits are not read again before they are set again.
ClearWeak(G) == [FoldLeft(ClearTable, G, G.weak) EXCEPT
                    !.heap = [o \in Cells |-> IF o \in ToSet(G.weak) THEN [@[o] EXCEPT !.f.weak = ""] ELSE @[o]]]
\* In the end the current white is flipped.
Atomic(G) ==
    [ClearWeak(MarkFinalized(RemarkAgain(RemarkWeak(Remark(G))))) EXCEPT
        !.heap = [o \in Cells |-> [@[o] EXCEPT !.mk = Flip(@)]],
        !.weak = <<>>, !.grayagain = <<>>, !.sweepstrgc = 0, !.sweepgc = 0, !.gcstate = "sweepstring"]

-----------------------------------------------------------------------------
(* The lists of all objects: rootgc ends in the main thread and goes on with the
   userdata.  sweepgc counts the objects the sweep has passed; an object linked
   before that place moves it. *)
Link(G, o, obj) == [G EXCEPT !.heap[o] = obj, !.rootgc = <<o>> \o @,
                             !.sweepgc = IF @ = 0 THEN 0 ELSE @ + 1]
LinkUDataNot(G, u) == G
LinkUData(G, u) == [G EXCEPT !.udata = <<u>> \o @,
                             !.sweepgc = IF @ > Len(G.rootgc) THEN @ + 1 ELSE @]

BarrierF(G, o, v) == IF G.gcstate = "propagate" THEN ReallyMarkObject(G, v) ELSE MakeWhite(G, o)
BarrierBack(G, t) == SetMark([G EXCEPT !.grayagain = <<t>> \o @], t, "gray")
Crosses(G, o, v) == v # NIL /\ IsWhite(G, v) /\ IsBlack(G, o)
Barrier(G, o, v) == IF Crosses(G, o, v) THEN BarrierF(G, o, v) ELSE G
BarrierT(G, t, v) == IF Crosses(G, t, v) THEN BarrierBack(G, t) ELSE G

\* A closed upvalue joins rootgc; one that is gray was kept off the gray list.
LinkUpval(G, u) ==
    LET H == Link(G, u, G.heap[u])
    IN IF ~ IsGray(G, u) THEN H
       ELSE IF G.gcstate = "propagate" THEN Barrier(SetMark(H, u, "black"), u, UpValue(H, u))
       ELSE MakeWhite(H, u)

CloseOne(G, u) ==
    LET th == G.heap[u].f.th
        H == [G EXCEPT !.heap[th].f.open = Tail(@)]
    IN IF IsDead(G, u) THEN [H EXCEPT !.heap[u] = Free]
       ELSE LinkUpval([H EXCEPT !.heap[u].f = [th |-> NIL, lvl |-> 0, v |-> UpValue(G, u)]], u)

LuaFClose(G, th, level) ==
    FoldLeft(CloseOne, G, SelectSeq(G.heap[th].f.open, LAMBDA u : G.heap[u].f.lvl >= level))

FreeObj(G, o) == [(IF Kind(o) = "thread" THEN LuaFClose(G, o, 1) ELSE G)
                  EXCEPT !.heap[o] = Free, !.calls[o] = 0]

SweepOpenKeeps(G, th) ==
    [G EXCEPT !.heap = [o \in Cells |-> IF o \in ToSet(G.heap[th].f.open) THEN [@[o] EXCEPT !.mk = "white"] ELSE @[o]]]
\* The open upvalues of a thread are swept with it.
SweepOpen(G, th) ==
    LET open == G.heap[th].f.open
    IN [G EXCEPT !.heap = [o \in Cells |-> IF o \notin ToSet(open) THEN @[o]
                                           ELSE IF IsDead(G, o) THEN Free
                                           ELSE [@[o] EXCEPT !.mk = "white"]],
                 !.heap[th].f.open = SelectSeq(open, LAMBDA u : ~ IsDead(G, u))]

SweepList(G) ==
    LET i == G.sweepgc + 1
        o == (G.rootgc \o G.udata)[i]
        T == IF Kind(o) = "thread" THEN SweepOpen(G, o) ELSE G
    IN IF ~ IsDead(G, o) THEN [MakeWhite(T, o) EXCEPT !.sweepgc = i]
       ELSE FreeObj([T EXCEPT !.rootgc = SelectSeq(@, LAMBDA x : x # o),
                              !.udata = SelectSeq(@, LAMBDA x : x # o)], o)
AllSwept(G) == G.sweepgc >= Len(G.rootgc) + Len(G.udata)

RECURSIVE SweepSome(_, _)
SweepSome(G, n) == IF n = 0 \/ AllSwept(G) THEN G ELSE SweepSome(SweepList(G), n - 1)

Bucket(G, h) == {s \in Addr : Kind(s) = "string" /\ Used(G, s) /\ pf.hash[s] % G.strsize = h}
SweepBucket(G, h) ==
    [G EXCEPT !.heap = [o \in Cells |-> IF o \notin Bucket(G, h) THEN @[o]
                                        ELSE IF IsDead(G, o) THEN Free
                                        ELSE [@[o] EXCEPT !.mk = "white"]]]

\* A finalizer runs once its userdata is back in the list; it may keep it (keep).
GCTM(G, keep) ==
    LET u == Head(G.tmudata)
        H == MakeWhite(LinkUData([G EXCEPT !.tmudata = Tail(@)], u), u)
    IN IF ~ HasGC(G, u) THEN H
       ELSE [(IF keep THEN BarrierT([H EXCEPT !.heap[REG].f.arr = u], REG, u) ELSE H)
             EXCEPT !.calls[u] = IF @ = 2 THEN 2 ELSE @ + 1]

SingleStep(G, keep) ==
    CASE G.gcstate = "pause" -> MarkRoot(G)
      [] G.gcstate = "propagate" -> IF G.gray # <<>> THEN PropagateMark(G) ELSE Atomic(G)
      [] G.gcstate = "sweepstring" ->
            LET H == SweepBucket(G, G.sweepstrgc)
            IN IF G.sweepstrgc + 1 >= G.strsize THEN [H EXCEPT !.sweepstrgc = 0, !.gcstate = "sweep"]
               ELSE [H EXCEPT !.sweepstrgc = @ + 1]
      [] G.gcstate = "sweep" ->
            LET H == SweepSome(G, SweepMax)
            IN IF AllSwept(H) THEN [H EXCEPT !.sweepgc = 0, !.gcstate = "finalize"] ELSE H
      [] G.gcstate = "finalize" ->
            IF G.tmudata # <<>> THEN GCTM(G, keep) ELSE [G EXCEPT !.gcstate = "pause"]

\* Marking the roots and the atomic step cost nothing, so that the step goes on.
RECURSIVE LuaCStep(_, _)
LuaCStep(G, keep) ==
    LET H == SingleStep(G, keep)
        free == G.gcstate = "pause" \/ (G.gcstate = "propagate" /\ G.gray = <<>>)
    IN IF free THEN LuaCStep(H, keep) ELSE H

RECURSIVE RunTo(_, _, _)
RunTo(G, st, keep) == IF G.gcstate = st THEN G ELSE RunTo(SingleStep(G, keep), st, keep)

LuaCFullGC(G, keep) ==
    LET R == IF G.gcstate \notin {"pause", "propagate"} THEN G
             ELSE [G EXCEPT !.sweepstrgc = 0, !.sweepgc = 0, !.gray = <<>>, !.grayagain = <<>>,
                            !.weak = <<>>, !.gcstate = "sweepstring"]
    IN RunTo(MarkRoot(RunTo(R, "finalize", keep)), "pause", keep)

-----------------------------------------------------------------------------
(* The running program.  It works on the stack of the running thread L. *)
Stk == g.heap[g.L].f.stk
Levels == DOMAIN Stk
Put(G, i, v) == [G EXCEPT !.heap[G.L].f.stk[i] = v]
\* What an operation can name: a global is loaded into a register for it.
Values == ToSet(Stk) \union {g.heap[REG].f.arr}
Held == (Values \union {REG}) \ {NIL}

Does(op) == op \in pf.ops       \* the kinds of store this profile makes
White(fs) == [mk |-> "white", fin |-> FALSE, f |-> fs]

\* lua_newtable, lua_pushcclosure, luaE_newthread, luaF_newproto.  A table with a
\* mode is its own metatable, from the start unless the profile changes it later.
Create(o, i) ==
    /\ Kind(o) \in {"table", "cfunc", "proto", "thread"} /\ ~ Used(g, o)
    /\ Kind(o) = "thread" => g.L = MAIN
    /\ g' = Put(Link(g, o, White(IF pf.mode[o] = "" \/ Does("remode") THEN Fields(Kind(o))
                                  ELSE [Fields("table") EXCEPT !.meta = o])), i, o)

NewUserdata(o, i) ==
    /\ Kind(o) = "udata" /\ ~ Used(g, o)
    /\ g' = Put(LinkUData([g EXCEPT !.heap[o] = White(Fields("udata"))], o), i, o)

\* luaS_newlstr finds the string, dead or not, or makes it; a crowded string
\* table doubles unless its sweep is under way.
NewString(o, i) ==
    /\ Kind(o) = "string"
    /\ g' = Put(IF Used(g, o) THEN Resurrect(g, o)
                ELSE LET H == [g EXCEPT !.heap[o] = White(Fields("string"))]
                         n == Cardinality({s \in Addr : Kind(s) = "string" /\ Used(H, s)})
                     IN IF n > H.strsize /\ H.gcstate # "sweepstring" THEN [H EXCEPT !.strsize = 2 * @] ELSE H,
                i, o)

\* luaD_protectedparser: the function just parsed takes the place of its prototype.
Parsed(o, i) ==
    /\ Kind(o) = "lfunc" /\ ~ Used(g, o)
    /\ Stk[i] # NIL /\ Kind(Stk[i]) = "proto"
    /\ g' = Put(Link(g, o, White([Fields("lfunc") EXCEPT !.p = Stk[i]])), i, o)

\* OP_CLOSURE: luaF_findupval finds the open upvalue of level j, dead or not, or
\* makes it, in its place in the list, which is ordered by level.
FindUpval(G, u, j) ==
    LET open == G.heap[G.L].f.open
        above == SelectSeq(open, LAMBDA x : G.heap[x].f.lvl > j)
    IN IF Used(G, u) THEN Resurrect(G, u)
       ELSE [G EXCEPT !.heap[u] = White([th |-> G.L, lvl |-> j, v |-> NIL]),
                      !.heap[G.L].f.open = above \o <<u>> \o SubSeq(open, Len(above) + 1, Len(open))]

MakeClosure(o, i, j, u) ==
    /\ Kind(o) = "lfunc" /\ ~ Used(g, o) /\ Kind(u) = "upval"
    /\ LET at == {x \in ToSet(g.heap[g.L].f.open) : g.heap[x].f.lvl = j}
       IN IF at = {} THEN ~ Used(g, u) ELSE u \in at
    /\ LET H == Link(g, o, White(Fields("lfunc")))
       IN g' = Put([FindUpval(H, u, j) EXCEPT !.heap[o].f.uv = u], i, o)

\* luaF_close at the end of a block: the stack above the level is given up.
CloseBlock(j) ==
    /\ g.heap[g.L].f.open # <<>>
    /\ g' = Put(LuaFClose(g, g.L, j), j, NIL)

Assign(i, v) == Stk[i] # v /\ g' = Put(g, i, v)

\* A load from a table, a closure or an upvalue to the stack.
Load(o, i) ==
    /\ o \in Held
    /\ LET f == g.heap[o].f
           vs == CASE Kind(o) = "table" -> {f.arr, f.val} \union (IF f.val = NIL THEN {} ELSE {f.key})
                                           \union (IF Does("remode") THEN {f.meta} ELSE {})
                   [] Kind(o) = "udata" -> {f.meta, f.env}
                   [] Kind(o) = "cfunc" -> {f.up, f.env}
                   [] Kind(o) = "lfunc" -> IF f.uv = NIL THEN {f.env} ELSE {UpValue(g, f.uv)}
                   [] OTHER -> {}
       IN \E v \in vs \ {Stk[i]} : g' = Put(g, i, v)

\* lua_rawseti and luaV_settable on the array part.
SetArray(o, v) ==
    /\ Kind(o) = "table" /\ (o = REG \/ Does("array"))
    /\ g' = BarrierT([g EXCEPT !.heap[o].f.arr = v], o, v)

\* luaV_settable on the one node of the hash part: a new key has a barrier of its own.
SetNode(o, k, v) ==
    /\ Does("node") /\ Kind(o) = "table" /\ k # NIL /\ o # REG
    /\ LET f == g.heap[o].f
           H == IF f.key = k /\ f.val # NIL THEN g ELSE BarrierT([g EXCEPT !.heap[o].f.key = k], o, k)
       IN /\ f.val = NIL \/ f.key = k
          /\ g' = BarrierT([H EXCEPT !.heap[o].f.val = v], o, v)

SetMetatable(o, m) ==
    /\ IF Kind(o) = "udata" THEN Does("meta") ELSE pf.mode[o] # "" /\ Does("remode")
    /\ m # NIL => Kind(m) = "table" /\ (pf.gc[m] \/ pf.mode[m] # "")
    /\ LET H == [g EXCEPT !.heap[o].f.meta = m]
       IN g' = IF Kind(o) = "table" THEN BarrierT(H, o, m) ELSE Barrier(H, o, m)

SetFenv(o, t) ==
    /\ Does("env") /\ Kind(o) \in {"cfunc", "lfunc", "udata", "thread"}
    /\ t # NIL /\ Kind(t) = "table"
    /\ g' = Barrier(IF Kind(o) = "thread" THEN [g EXCEPT !.heap[o].f.gt = t]
                    ELSE [g EXCEPT !.heap[o].f.env = t], o, t)

SetCUpvalueBare(o, v) == Kind(o) = "cfunc" /\ g' = [g EXCEPT !.heap[o].f.up = v]
\* lua_replace and lua_setupvalue on the upvalue of a C function; addk on a prototype.
SetCUpvalue(o, v) == Kind(o) = "cfunc" /\ g' = Barrier([g EXCEPT !.heap[o].f.up = v], o, v)
AddK(o, v) == Kind(o) = "proto" /\ v # NIL /\ Kind(v) = "string" /\ g' = Barrier([g EXCEPT !.heap[o].f.k = v], o, v)

StoreUp(G, u, v) == LET f == G.heap[u].f
                    IN IF f.th = NIL THEN [G EXCEPT !.heap[u].f.v = v] ELSE [G EXCEPT !.heap[f.th].f.stk[f.lvl] = v]
\* OP_SETUPVAL: the barrier is on the upvalue.
SetUpval(o, v) ==
    /\ Kind(o) = "lfunc" /\ g.heap[o].f.uv # NIL
    /\ g' = Barrier(StoreUp(g, g.heap[o].f.uv, v), g.heap[o].f.uv, v)
\* lua_setupvalue on a Lua function: the barrier is on the function.
SetUpvalueAPI(o, v) ==
    /\ Does("debug") /\ Kind(o) = "lfunc" /\ g.heap[o].f.uv # NIL
    /\ g' = Barrier(StoreUp(g, g.heap[o].f.uv, v), o, v)

\* lua_resume and lua_yield with one value passed either way (lua_xmove).
Resume(th, i) == /\ g.L = MAIN /\ th \in Held /\ Kind(th) = "thread"
                 /\ g' = Put([g EXCEPT !.L = th], 1, Stk[i])
Yield(i) == g.L # MAIN /\ g' = Put([g EXCEPT !.L = MAIN], i, Stk[1])

Step(keep) == g' = LuaCStep(g, keep)
FullGC(keep) == g' = LuaCFullGC(g, keep)

RECURSIVE CallAllGCTM(_)
CallAllGCTM(G) == IF G.tmudata = <<>> THEN G ELSE CallAllGCTM(GCTM(G, FALSE))
\* lua_close, from the main thread: every finalizer runs, then every object goes.
LuaClose ==
    /\ g.L = MAIN
    /\ LET H == CallAllGCTM(SeparateUData(LuaFClose(g, MAIN, 1), TRUE))
       IN g' = [H EXCEPT !.heap = [o \in Cells |-> IF o = MAIN THEN [@[o] EXCEPT !.f.stk = <<NIL>>] ELSE Free],
                         !.rootgc = <<MAIN>>, !.udata = <<>>, !.gray = <<>>, !.grayagain = <<>>,
                         !.weak = <<>>, !.gcstate = "closed"]

Init ==
    /\ pf \in Profiles
    /\ g = [heap |-> [o \in Cells |->
                        CASE o = MAIN -> [mk |-> "white", fin |-> FALSE, f |-> [gt |-> REG, stk |-> <<NIL>>, open |-> <<>>]]
                          [] o = REG -> [mk |-> "white", fin |-> FALSE, f |-> Fields("table")]
                          [] OTHER -> Free],
            gcstate |-> "pause", gray |-> <<>>, grayagain |-> <<>>, weak |-> <<>>,
            tmudata |-> <<>>, rootgc |-> <<REG, MAIN>>, udata |-> <<>>, sweepgc |-> 0, sweepstrgc |-> 0,
            strsize |-> 1, L |-> MAIN, calls |-> [o \in Addr |-> 0]]

Alloc == \E o \in Addr, i \in Levels : \/ Create(o, i) \/ NewUserdata(o, i) \/ NewString(o, i) \/ Parsed(o, i)
                                       \/ \E j \in Levels, u \in Addr : MakeClosure(o, i, j, u)
Mutate == \/ \E i \in Levels, v \in Values \union {NIL} : Assign(i, v)
          \/ \E o \in Held, i \in Levels : Load(o, i)
          \/ \E o \in Held, v \in Values \union {NIL} : SetArray(o, v) \/ SetCUpvalue(o, v) \/ SetUpval(o, v) \/ SetUpvalueAPI(o, v)
                                               \/ AddK(o, v) \/ SetMetatable(o, v) \/ SetFenv(o, v)
          \/ \E o \in Held, k, v \in Values \union {NIL} : SetNode(o, k, v)
          \/ \E j \in Levels : CloseBlock(j)
          \/ \E i \in DOMAIN g.heap[MAIN].f.stk : Yield(i)
          \/ \E th \in Held, i \in Levels : Resume(th, i)
\* What a finalizer may do with its userdata.
Finalizers == IF \E u \in Addr : Kind(u) = "udata" /\ Used(g, u) THEN BOOLEAN ELSE {FALSE}
Collect == \E keep \in Finalizers : Step(keep)
Running == g.gcstate # "closed"
Next == /\ Running
        /\ Alloc \/ Mutate \/ Collect \/ LuaClose \/ \E keep \in Finalizers : FullGC(keep)
        /\ UNCHANGED pf

Spec == Init /\ [][Next]_vars
\* A program that goes on allocating goes on taking steps of the collector.
\* (Collect is enabled in every running state: this is its weak fairness.)
FairSpec == Spec /\ ([]<> ~ Running \/ []<><<Collect>>_vars)

-----------------------------------------------------------------------------
(* What an object refers to: everything the program can load from it, and (hard)
   what it keeps alive.  A weak table keeps its strings. *)
Refs(o, hard) ==
    LET f == g.heap[o].f
        w == IF hard THEN Mode(f.meta) ELSE ""
        Kept(v, weak) == IF v = NIL \/ (weak /\ Kind(v) # "string") THEN {} ELSE {v}
    IN (CASE ~ Used(g, o) -> {}
          [] Kind(o) = "table" -> {f.meta} \union Kept(f.arr, WeakVal(w)) \union
                (IF f.val = NIL THEN {} ELSE Kept(f.key, WeakKey(w)) \union Kept(f.val, WeakVal(w)))
          [] Kind(o) = "udata" -> {f.meta, f.env}
          [] Kind(o) = "cfunc" -> {f.env, f.up}
          [] Kind(o) = "lfunc" -> {f.env, f.p, f.uv}
          [] Kind(o) = "proto" -> {f.k}
          [] Kind(o) = "upval" -> {UpValue(g, o)}
          [] Kind(o) = "thread" -> {f.gt} \union ToSet(f.stk)
          [] OTHER -> {}) \ {NIL}

RECURSIVE Closure(_, _)
Closure(s, hard) == LET n == s \union UNION {Refs(o, hard) : o \in s} IN IF n = s THEN s ELSE Closure(n, hard)
Roots == IF Running THEN {MAIN, g.L, REG} ELSE {}
Reachable == Closure(Roots \union ToSet(g.tmudata), FALSE)
Alive == Closure(Roots, TRUE)

TypeOK ==
    /\ g.gcstate \in {"pause", "propagate", "sweepstring", "sweep", "finalize", "closed"}
    /\ \A o \in Cells : g.heap[o].mk \in {"free", "white", "dead", "gray", "black"}
    /\ \A o \in Addr : Kind(o) \in {"upval", "string"} \/ (Used(g, o) <=> o \in ToSet(g.rootgc \o g.udata \o g.tmudata))
    /\ \A o \in Cells : Used(g, o) /\ Kind(o) = "upval" =>
          (o \in ToSet(g.rootgc) <=> ~ IsOpen(g, o)) /\ (IsOpen(g, o) => o \in ToSet(g.heap[g.heap[o].f.th].f.open))

\* Nothing the program can reach, through weak references too, has been freed by
\* freeobj, and once the mark phase is over nothing it can reach is about to be.
ReachableKept == \A o \in Reachable : Used(g, o) /\ (g.gcstate \in {"sweepstring", "sweep"} => ~ IsDead(g, o))

\* While luaC_step propagates marks, no black object refers to a white one: the
\* barriers of every store keep it so (reallymarkobject would not come back).
NoBlackToWhite ==
    g.gcstate = "propagate" =>
        \A o \in Cells : IsBlack(g, o) => \A v \in Refs(o, FALSE) : ~ IsWhite(g, v)

\* An object has one gclist field: it is in one of the lists gray, grayagain and
\* weak, once, and while marks propagate every gray object that has one is in a list.
OneGCList ==
    LET lists == g.gray \o g.grayagain \o g.weak
    IN /\ IsInjective(lists)
       /\ g.gcstate = "propagate" =>
            \A o \in Cells : (o \in ToSet(lists)) <=>
                (IsGray(g, o) /\ Kind(o) \in {"table", "cfunc", "lfunc", "proto", "thread"})

\* Both of these: the marks and the lists are what reallymarkobject, propagatemark
\* and the barriers rely on.
MarksInStep == NoBlackToWhite /\ OneGCList

\* A finalizer is called at most once for one userdata, however often the
\* program revives it (markfinalized).
FinalizedOnce == \A u \in Addr : g.calls[u] <= 1

\* luaC_separateudata takes, and GCTM calls, only userdata that nothing alive
\* refers to; lua_close takes them all.
FinalizedDead ==
    [][\A u \in Addr : /\ g'.gcstate # "closed" /\ Kind(u) = "udata" /\ u \notin ToSet(g.tmudata)
                       /\ (u \in ToSet(g'.tmudata) \/ g'.calls[u] > g.calls[u])
                      => u \notin Alive]_vars

\* lua_close finalizes every userdata whose finalizer is due: none is freed
\* before its __gc metamethod was called.
FinalizedByClose ==
    [][g'.gcstate = "closed" =>
         \A u \in Addr : Kind(u) = "udata" /\ Used(g, u) /\ HasGC(g, u) /\ ~ g.heap[u].fin => g'.calls[u] = 1]_vars

\* Finalizers are called as they should be, in every step and at the end.
FinalizedRight == []FinalizedOnce /\ FinalizedDead /\ FinalizedByClose

\* What is not alive does not stay in the heap: a later cycle of luaC_step frees
\* it, unless a finalizer or the string table revives it.
GarbageGoes == \A o \in Addr : []<>(Used(g, o) => o \in Alive)
=============================================================================
