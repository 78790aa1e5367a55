------------------------- MODULE LuaCallStepProofs --------------------------
(***************************************************************************)
(* Calls, errors and coroutines: luaD_pcall and the longjmp back to it,    *)
(* luaG_errormsg, lua_resume and lua_yield keep the invariant, whatever the*)
(* state is in which they are called.                                      *)
(***************************************************************************)
EXTENDS LuaCallFrameProofs

-----------------------------------------------------------------------------
(* Errors *)

\* luaD_pcall returns to the C function that called it.
LEMMA LeaveFacts ==
    ASSUME NEW S, Good(S), NEW t, t = S.L[S.cur], NEW f, f = S.cs[Len(S.cs)], f.k = "pcall",
           NEW T, T = PcallLeave(S, f), NEW u, u = T.L[T.cur], NEW b, b = T.cs[Len(T.cs)]
    PROVE  /\ Good(T) /\ T.cur = S.cur /\ SameStack(t, u) /\ u.nCcalls = t.nCcalls
           /\ b.k = "c" /\ b.f \in {"host", "pcall", "xpcall"}
<1>1. PICK n : n = Len(S.cs)  OBVIOUS
<1>2. /\ S \in StateT /\ S.cur \in Thread /\ S.cs \in Seq(CFrame) /\ t \in ThreadT /\ n \in Nat /\ n >= 1
      /\ t.status = "ok" /\ Sound(t) /\ Fits(t) /\ Cur(S) = t /\ Caught(t, S.cs, S.cur) /\ f \in CFrame
      /\ t.nCcalls <= Limit /\ Core(S.L, S.cs, S.cur)
  BY <1>1, GoodFacts
<1>3. f.errfunc \in Nat /\ f.jmp \in Nat /\ Runs(f) = 0 /\ f # Host
  BY <1>2, FrameFacts DEF Host
<1>4. PICK v : v = [t EXCEPT !.errfunc = f.errfunc, !.jmp = f.jmp]  OBVIOUS
<1>5. /\ v \in ThreadT /\ SameStack(t, v) /\ v.nCcalls = t.nCcalls /\ v.status = t.status /\ v.errfunc = f.errfunc
      /\ v.jmp = f.jmp
  BY <1>2, <1>3, <1>4 DEF ThreadT, SameStack
<1>6. Sound(v) /\ Fits(v) /\ v.ci = t.ci /\ v.stack = t.stack  BY <1>2, <1>5, SoundSame DEF SameStack
<1>7. PICK P : P = PopC(S)  OBVIOUS
<1>8. P \in StateT /\ P.L = S.L /\ P.cur = S.cur /\ P.op = S.op /\ CutTo(S.cs, P.cs, n - 1)
  BY <1>1, <1>2, <1>7, PopCFacts
<1>9. T = With(P, v)  BY <1>2, <1>4, <1>7 DEF PcallLeave
<1>10. T \in StateT /\ Moves(P, T, v) /\ T.cs = P.cs /\ T.cur = P.cur /\ T.L[P.cur] = v
  BY <1>5, <1>8, <1>9, WithFacts
<1>11. Moves(S, T, v) /\ CutTo(S.cs, T.cs, n - 1) /\ u = v  BY <1>8, <1>10 DEF Moves
<1>12. Popped(t, v, f)
  <2>1. t.nCcalls \in Nat /\ Len(t.ci) \in Nat  BY <1>2, ThreadFacts
  <2>2. v.nCcalls = t.nCcalls - 0  BY <2>1, <1>5
  <2>3. Len(v.ci) = Len(t.ci) - Runs(f)  BY <2>1, <1>3, <1>6
  <2> QED  BY <2>2, <2>3, <1>2, <1>5, <1>6 DEF Popped
<1>13. Caught(v, T.cs, S.cur)
  <2>1. SameTo(S.cs, T.cs, n - 1) /\ Len(T.cs) = n - 1 /\ T.cs \in Seq(CFrame)  BY <1>1, <1>2, <1>11, CutCounts
  <2>2. \A i \in (n - 1 + 1)..Len(T.cs) : T.cs[i].k # "pcall"  BY <1>2, <2>1
  <2>3. Older(S.cs, T.cs, S.cur)  BY <1>2, <2>1, <2>2, OlderSame
  <2>4. Caught(v, S.cs, S.cur)  BY <1>2, <1>6 DEF Caught
  <2> QED  BY <2>3, <2>4 DEF Caught, Older
<1>14. Good(T)
  <2>1. CutTo(S.cs, T.cs, Len(S.cs) - 1) /\ v.nCcalls <= Limit  BY <1>1, <1>2, <1>5, <1>11
  <2> QED  BY <2>1, <1>3, <1>6, <1>11, <1>12, <1>13, GoodPop
<1>15. b = S.cs[n - 1] /\ n >= 2 /\ CallsFrame(S.cs[n - 1], S.cs[n])
  <2>1. CallsFrame(S.cs[n - 1], S.cs[n]) /\ n >= 2  BY <1>1, <1>2, <1>3, BelowTop
  <2>2. Len(T.cs) = n - 1 /\ T.cs[n - 1] = S.cs[n - 1]
    <3>1. n - 1 \in 1..(n - 1)  BY <1>2, <2>1
    <3> QED  BY <3>1, <1>11 DEF CutTo
  <2> QED  BY <2>1, <2>2
<1>16. b.k = "c" /\ b.f \in {"host", "pcall", "xpcall"}  BY <1>1, <1>15 DEF CallsFrame
<1> QED  BY <1>5, <1>8, <1>10, <1>11, <1>14, <1>16

\* The C function that called luaD_pcall returns, or the host goes on.
LEMMA PcallDoneInv ==
    ASSUME NEW S, Good(S), NEW t, t = S.L[S.cur], NEW b, b = S.cs[Len(S.cs)],
           b.k = "c", b.f \in {"host", "pcall", "xpcall"}, t.nCcalls < Limit
    PROVE  IInv(PcallDone(S))
<1>1. PICK n : n = Len(S.cs)  OBVIOUS
<1>2. S \in StateT /\ S.cur \in Thread /\ t \in ThreadT /\ Sound(t) /\ Fits(t) /\ Cur(S) = t /\ TopC(S) = b
  BY <1>1, GoodFacts
<1>3. ~ t.ci[Len(t.ci)].lua  BY HostFacts
<1>4. PICK l : l = Len(t.stack)  OBVIOUS
<1>5. /\ l \in Nat /\ t.base \in Nat /\ t.base >= 2 /\ t.base <= l + 1 /\ Top(t) = l + 1
      /\ StackLast(t) \in Int /\ l < StackLast(t)
  BY <1>2, <1>4, ThreadFacts, BaseFacts DEF Fits
<1>6. PICK m : m = Top(t) - t.base  OBVIOUS
<1>7. m \in Nat /\ t.base + m = l + 1  BY <1>5, <1>6
<1>8. CASE b.f = "host"
  <2>1. PICK u : u = SetTop(t, t.base)  OBVIOUS
  <2>2. /\ u \in ThreadT /\ Sound(u) /\ Regrown(t, u) /\ Len(u.stack) = t.base - 1 /\ StackLast(u) = StackLast(t)
    <3>1. t.base <= t.base  BY <1>5
    <3> QED  BY <1>2, <1>3, <1>5, <2>1, <3>1, SetTopSound
  <2>3. /\ u.base = t.base /\ u.ci = t.ci /\ u.nCcalls = t.nCcalls /\ Shares(t, u) /\ SameInfos(t, u)
    BY <1>2, <2>2, RegrownSame DEF Regrown, SameCalls
  <2>4. /\ t.base < t.ci[Len(t.ci)].top /\ t.ci[Len(t.ci)].top <= StackLast(t) /\ t.ci[Len(t.ci)].top \in Nat
    BY <1>2, BaseFacts
  <2>5. Fits(u)
    <3>1. t.base - 1 < StackLast(t)  BY <1>5
    <3> QED  BY <2>2, <3>1 DEF Fits
  <2>6. PICK W : W = With(S, u)  OBVIOUS
  <2>7. Moves(S, W, u) /\ W.cs = S.cs /\ W.cur = S.cur /\ W.L[S.cur] = u  BY <1>2, <2>2, <2>6, WithFacts
  <2>8. Good(W)  BY <2>2, <2>3, <2>5, <2>7, GoodAgain
  <2>9. PICK E : E = Do(W, "run")  OBVIOUS
  <2>10. Good(E) /\ E.L = W.L /\ E.cs = W.cs /\ E.cur = W.cur /\ E.op = "run"  BY <2>8, <2>9, GoodDo DEF Ops
  <2>11. RunReady(b, u)
    <3>1. u.base + 0 <= Len(u.stack) + 1 /\ Len(u.stack) + 2 <= t.ci[Len(t.ci)].top
      <4>1. PICK k : k = Len(u.stack)  OBVIOUS
      <4>2. PICK c : c = t.ci[Len(t.ci)].top  OBVIOUS
      <4>3. k = t.base - 1 /\ t.base < c /\ c \in Nat /\ t.base \in Nat /\ t.base >= 2
        BY <1>5, <2>2, <2>4, <4>1, <4>2
      <4>4. t.base + 0 <= k + 1 /\ k + 2 <= c  BY <4>3
      <4> QED  BY <2>3, <4>1, <4>2, <4>4
    <3>2. Arity(b.f) = 0  BY <1>8 DEF Arity
    <3> QED  BY <3>1, <3>2, <2>3 DEF RunReady
  <2>12. u.nCcalls < Limit  BY <2>3
  <2>13. Ready(E)  BY <2>7, <2>10, <2>11, <2>12 DEF Ready
  <2>14. PcallDone(S) = E  BY <1>2, <1>8, <2>1, <2>6, <2>9 DEF PcallDone
  <2> QED  BY <2>10, <2>13, <2>14 DEF IInv
<1>9. CASE b.f = "xpcall"
  <2>1. PcallDone(S) = CReturn(S, m)  BY <1>2, <1>6, <1>9 DEF PcallDone
  <2>2. Moves(S, S, t)  BY <1>2 DEF Moves
  <2>3. Shares(t, t) /\ SameInfos(t, t)
    <3>1. Regrown(t, t)
      <4>1. t.stacksize \in Nat  BY <1>2, ThreadFacts
      <4> QED  BY <4>1 DEF Regrown, SameCalls
    <3> QED  BY <1>2, <3>1, RegrownSame
  <2>4. Len(t.stack) <= StackLast(t) /\ t.base + m <= Len(t.stack) + 1  BY <1>4, <1>5, <1>7
  <2>5. b.f # "host"  BY <1>9
  <2> QED  BY <1>2, <1>7, <2>1, <2>2, <2>3, <2>4, <2>5, CReturnInv
<1>10. CASE b.f = "pcall"
  <2>1. PICK v : v = PutStatus(t, m)  OBVIOUS
  <2>2. /\ v \in ThreadT /\ Sound(v) /\ Regrown(t, v) /\ Len(v.stack) = l + 1 /\ StackLast(v) = StackLast(t)
    <3>1. t.base + m <= Len(t.stack) + 1  BY <1>4, <1>5, <1>7
    <3> QED  BY <1>2, <1>3, <1>4, <1>7, <2>1, <3>1, StatusSound
  <2>3. Shares(t, v) /\ SameInfos(t, v) /\ v.base = t.base  BY <1>2, <2>2, RegrownSame DEF Regrown, SameCalls
  <2>4. PICK W : W = With(S, v)  OBVIOUS
  <2>5. Moves(S, W, v) /\ W.cs = S.cs  BY <1>2, <2>2, <2>4, WithFacts
  <2>6. PICK k : k = Top(t) + 1 - t.base  OBVIOUS
  <2>7. k \in Nat /\ v.base + k <= Len(v.stack) + 1 /\ Len(v.stack) <= StackLast(v)
    <3>1. k \in Nat /\ t.base + k = l + 2  BY SMTT(30), <1>5, <2>6
    <3>2. l + 1 <= StackLast(t) /\ l + 1 + 1 = l + 2  BY <1>5
    <3> QED  BY <2>2, <2>3, <3>1, <3>2
  <2>8. PcallDone(S) = CReturn(W, k)  BY <1>2, <1>6, <1>10, <2>1, <2>4, <2>6 DEF PcallDone
  <2>9. b.f # "host"  BY <1>10
  <2> QED  BY <2>2, <2>3, <2>5, <2>7, <2>8, <2>9, CReturnInv
<1> QED  BY <1>8, <1>9, <1>10

\* luaD_pcall, called by the host or by luaB_pcall and luaB_xpcall.
LEMMA PcallInv ==
    ASSUME NEW S, Good(S), NEW t, t = S.L[S.cur], NEW b, b = S.cs[Len(S.cs)],
           b.k = "c", b.f \in {"host", "pcall", "xpcall"}, t.nCcalls < Limit,
           NEW func, Callable(t, func), func < t.ci[Len(t.ci)].top, NEW ef \in Nat
    PROVE  IInv(Pcall(S, func, ef))
<1>1. PICK n : n = Len(S.cs)  OBVIOUS
<1>2. /\ S \in StateT /\ S.cur \in Thread /\ S.cs \in Seq(CFrame) /\ t \in ThreadT /\ n \in Nat /\ n >= 1
      /\ t.status = "ok" /\ Sound(t) /\ Fits(t) /\ Cur(S) = t /\ Caught(t, S.cs, S.cur) /\ b.th = S.cur
      /\ t.nCcalls <= Limit
  BY <1>1, GoodFacts
<1>3. /\ t.nCcalls \in Nat /\ t.errfunc \in Nat /\ t.jmp \in Nat /\ Len(t.ci) \in Nat /\ Len(t.stack) \in Nat
      /\ func \in Nat /\ t.base <= func /\ func <= Len(t.stack)
  BY <1>2, ThreadFacts DEF Callable
<1>4. PICK f : f = [k |-> "pcall", th |-> S.cur, oldtop |-> func, nCcalls |-> t.nCcalls,
                    ci |-> Len(t.ci), errfunc |-> t.errfunc, jmp |-> t.jmp, ef |-> ef]
  OBVIOUS
<1>5. /\ f \in CFrame /\ f.k = "pcall" /\ f.th = S.cur /\ f.oldtop = func /\ f.nCcalls = t.nCcalls
      /\ f.ci = Len(t.ci) /\ f.errfunc = t.errfunc /\ f.jmp = t.jmp /\ f.ef = ef
  BY <1>2, <1>3, <1>4 DEF CFrame
<1>6. PICK P : P = PushC(S, f)  OBVIOUS
<1>7. /\ P \in StateT /\ P.L = S.L /\ P.cur = S.cur /\ P.cs = Append(S.cs, f) /\ Len(P.cs) = n + 1
      /\ P.cs[n + 1] = f /\ \A i \in 1..n : P.cs[i] = S.cs[i]
  BY <1>1, <1>2, <1>5, <1>6, PushCFacts
<1>8. PICK v : v = [t EXCEPT !.errfunc = ef, !.jmp = Len(P.cs)]  OBVIOUS
<1>9. /\ v \in ThreadT /\ SameStack(t, v) /\ v.nCcalls = t.nCcalls /\ v.status = t.status /\ v.errfunc = ef
      /\ v.jmp = n + 1
  <2>1. n + 1 \in Nat /\ v = [t EXCEPT !.errfunc = ef, !.jmp = n + 1]  BY <1>2, <1>7, <1>8
  <2>2. PICK k \in Nat : k = n + 1  BY <2>1
  <2>3. v = [t EXCEPT !.errfunc = ef, !.jmp = k]  BY <2>1, <2>2
  <2> QED  BY <1>2, <2>2, <2>3 DEF ThreadT, SameStack
<1>10. Sound(v) /\ Fits(v) /\ v.ci = t.ci /\ v.stack = t.stack /\ v.base = t.base
  BY <1>2, <1>9, SoundSame DEF SameStack
<1>11. PICK W : W = With(P, v)  OBVIOUS
<1>12. W \in StateT /\ Moves(P, W, v) /\ W.cs = P.cs /\ W.cur = P.cur /\ W.L[P.cur] = v
  BY <1>7, <1>9, <1>11, WithFacts
<1>13. Moves(S, W, v) /\ W.cs = Append(S.cs, f) /\ v = W.L[W.cur] /\ W.cs[Len(W.cs)] = f
  BY <1>7, <1>12 DEF Moves
<1>14. \A i \in Pcalls(W.cs, S.cur) : i = n + 1 \/ (i \in Pcalls(S.cs, S.cur) /\ W.cs[i] = S.cs[i])
  <2> SUFFICES ASSUME NEW i \in Pcalls(W.cs, S.cur), i # n + 1
               PROVE  i \in Pcalls(S.cs, S.cur) /\ W.cs[i] = S.cs[i]
    OBVIOUS
  <2>1. i \in 1..(n + 1) /\ W.cs[i].k = "pcall" /\ W.cs[i].th = S.cur  BY <1>7, <1>12 DEF Pcalls
  <2>2. i \in 1..n  BY <1>2, <2>1
  <2> QED  BY <1>1, <1>7, <1>12, <2>1, <2>2 DEF Pcalls
<1>15. W.cs[n + 1] = f  BY <1>7, <1>12
<1>16. Caught(v, W.cs, S.cur)
  <2>1. ASSUME NEW i \in Pcalls(W.cs, S.cur), i = n + 1
        PROVE  /\ W.cs[i].oldtop <= Len(v.stack) + 1 /\ v.ci[W.cs[i].ci].base <= W.cs[i].oldtop
               /\ W.cs[i].oldtop < v.ci[W.cs[i].ci].top
               /\ \A d \in (W.cs[i].ci + 1)..Len(v.ci) : W.cs[i].oldtop <= v.ci[d].func
    <3>1. W.cs[i].oldtop = func /\ W.cs[i].ci = Len(t.ci)  BY <1>5, <1>15, <2>1
    <3>2. func <= Len(t.stack) + 1  BY <1>3
    <3>3. t.ci[Len(t.ci)].base <= func
      <4>1. t.base = t.ci[Len(t.ci)].base  BY <1>2, BaseFacts
      <4> QED  BY <4>1, <1>3
    <3>4. \A d \in (Len(t.ci) + 1)..Len(t.ci) : FALSE
      <4>1. PICK k : k = Len(t.ci)  OBVIOUS
      <4>2. k \in Nat  BY <4>1, <1>3
      <4>3. \A d \in (k + 1)..k : FALSE  BY <4>2
      <4> QED  BY <4>1, <4>3
    <3> QED  BY <3>1, <3>2, <3>3, <3>4, <1>10
  <2>2. ASSUME NEW i \in Pcalls(W.cs, S.cur), i # n + 1
        PROVE  /\ W.cs[i].oldtop <= Len(v.stack) + 1 /\ v.ci[W.cs[i].ci].base <= W.cs[i].oldtop
               /\ W.cs[i].oldtop < v.ci[W.cs[i].ci].top
               /\ \A d \in (W.cs[i].ci + 1)..Len(v.ci) : W.cs[i].oldtop <= v.ci[d].func
    <3>1. i \in Pcalls(S.cs, S.cur) /\ W.cs[i] = S.cs[i]  BY <1>14, <2>2
    <3> QED  BY <3>1, <1>2, <1>10 DEF Caught
  <2> QED  BY <2>1, <2>2 DEF Caught
<1>17. Above(W.cs, W.cur, func)
  <2> SUFFICES ASSUME NEW i \in Pcalls(W.cs, S.cur) PROVE W.cs[i].oldtop <= func  BY <1>7, <1>12 DEF Above
  <2>1. CASE i = n + 1  BY <2>1, <1>3, <1>5, <1>15
  <2>2. CASE i # n + 1
    <3>1. i \in Pcalls(S.cs, S.cur) /\ W.cs[i] = S.cs[i]  BY <1>14, <2>2
    <3>2. S.cs[i].oldtop \in Nat /\ S.cs[i].oldtop <= t.ci[Len(t.ci)].func  BY <3>1, PcallFacts
    <3>3. t.ci[Len(t.ci)].func < t.base /\ t.ci[Len(t.ci)].func \in Nat /\ t.base \in Nat  BY <1>2, BaseFacts
    <3>4. PICK o : o = S.cs[i].oldtop  OBVIOUS
    <3>5. PICK g : g = t.ci[Len(t.ci)].func  OBVIOUS
    <3>6. o \in Nat /\ g \in Nat /\ t.base \in Nat /\ func \in Nat /\ o <= g /\ g < t.base /\ t.base <= func
      BY <1>3, <3>2, <3>3, <3>4, <3>5
    <3>7. o <= func  BY <3>6
    <3> QED  BY <3>1, <3>4, <3>7
  <2> QED  BY <2>1, <2>2
<1>18. Pushed(t, v, f, Len(S.cs))
  <2>1. Runs(f) = 0  BY <1>5, FrameFacts
  <2>2. v.nCcalls = t.nCcalls + 0 /\ Len(v.ci) = Len(t.ci) + Runs(f)  BY <2>1, <1>3, <1>9, <1>10
  <2> QED  BY <2>2, <1>1, <1>2, <1>5, <1>9, <1>10 DEF Pushed
<1>19. CallsFrame(S.cs[Len(S.cs)], f)  BY <1>2, <1>5 DEF CallsFrame
<1>20. Good(W)
  <2>1. v.nCcalls <= Limit  BY <1>2, <1>9
  <2>2. f.k # "resume"  BY <1>5
  <2> QED  BY <2>1, <2>2, <1>5, <1>10, <1>13, <1>16, <1>18, <1>19, GoodPush
<1>21. Callable(v, func)  BY <1>10 DEF Callable
<1>22. IInv(LuaDCall(W, "lua", func, MULTRET))
  <2>1. v.nCcalls < Limit /\ "lua" \in LuaFunctions  BY <1>9 DEF LuaFunctions
  <2>2. MULTRET \in {0, 1, MULTRET}  OBVIOUS
  <2> QED  BY <2>1, <2>2, <1>5, <1>13, <1>17, <1>20, <1>21, LuaDCallInv
<1>23. Pcall(S, func, ef) = LuaDCall(W, "lua", func, MULTRET)  BY <1>2, <1>4, <1>6, <1>8, <1>11 DEF Pcall
<1> QED  BY <1>22, <1>23

\* The calls of w are the first k ones of t; the others of t are above old.
Cut(t, w, k) == Len(w.ci) = k /\ \A d \in 1..k : w.ci[d] = t.ci[d]
Over(t, k, old) == \A d \in (k + 1)..Len(t.ci) : old <= t.ci[d].func

\* The thread that an error came back to: its calls are the first k again.
Recovered(t, f) ==
    LET v == RestoreStackLimit([SetErrorObj(LuaFClose(t, f.oldtop), f.oldtop)
                                EXCEPT !.nCcalls = f.nCcalls, !.ci = SubSeq(@, 1, f.ci)])
    IN [v EXCEPT !.base = CI(v).base]

Recoverable(t, f) ==
    /\ f.nCcalls \in Nat /\ f.ci \in 1..Len(t.ci) /\ f.oldtop \in Nat /\ ~ t.ci[f.ci].lua
    /\ t.ci[f.ci].base <= f.oldtop /\ f.oldtop < t.ci[f.ci].top /\ f.oldtop <= Len(t.stack) + 1
    /\ Over(t, f.ci, f.oldtop)

\* It is sound, and what luaD_pcall saved is restored.
Restored(t, f, w) ==
    /\ w \in ThreadT /\ Sound(w) /\ Fits(w) /\ w.status = t.status /\ w.errfunc = t.errfunc /\ w.jmp = t.jmp
    /\ w.nCcalls = f.nCcalls /\ Cut(t, w, f.ci) /\ Len(w.stack) = f.oldtop

\* What luaD_pcall does with the thread makes it so.
LEMMA RecoverSound ==
    ASSUME NEW t \in ThreadT, Sound(t), NEW f, Recoverable(t, f)
    PROVE  Restored(t, f, Recovered(t, f))
<1>w. PICK w : w = Recovered(t, f)  OBVIOUS
<1>0a. PICK k : k = f.ci  OBVIOUS
<1>0b. PICK old : old = f.oldtop  OBVIOUS
<1>0. /\ f.nCcalls \in Nat /\ k \in 1..Len(t.ci) /\ old \in Nat /\ ~ t.ci[k].lua /\ t.ci[k].base <= old
      /\ old < t.ci[k].top /\ old <= Len(t.stack) + 1 /\ Over(t, k, old)
  BY <1>0a, <1>0b DEF Recoverable
<1>1. /\ t.stack \in Seq(Int) /\ t.ci \in Seq(CallInfo) /\ Len(t.ci) \in Nat /\ Nested(t.ci) /\ Owned(t) /\ Locals(t)
      /\ \A d \in 1..Len(t.ci) : t.ci[d].top <= StackLast(t)
  BY ThreadFacts DEF Sound
<1>2. PICK c : c = SubSeq(t.ci, 1, k)  OBVIOUS
<1>3. c \in Seq(CallInfo) /\ Len(c) = k /\ \A d \in 1..k : c[d] = t.ci[d]
  <2>1. k \in 0..Len(t.ci)  BY <1>0, <1>1
  <2> QED  BY <1>1, <1>2, <2>1, PrefixFacts
<1>4. t.ci[k].base \in Nat /\ t.ci[k].base >= 2 /\ t.ci[k].top \in Nat /\ t.ci[k].func \in Nat
      /\ t.ci[k].func < t.ci[k].base
  BY <1>0, <1>1, NestedFacts
<1>5. old >= 2 /\ old - 1 \in 0..Len(t.stack) /\ old - 1 \in Nat
  <2>1. Len(t.stack) \in Nat  BY ThreadFacts
  <2> QED  BY <1>0, <1>4, <2>1
<1>6. PICK s : s = Append(SubSeq(t.stack, 1, old - 1), Value)  OBVIOUS
<1>7. s \in Seq(Int) /\ Len(s) = old /\ \A i \in 1..(old - 1) : s[i] = t.stack[i]
  <2>1. PICK p : p = SubSeq(t.stack, 1, old - 1)  OBVIOUS
  <2>2. p \in Seq(Int) /\ Len(p) = old - 1 /\ \A i \in 1..(old - 1) : p[i] = t.stack[i]
    BY <1>1, <1>5, <2>1, PrefixFacts
  <2>3. Value \in Int /\ s = Append(p, Value)  BY <1>6, <2>1 DEF Value
  <2>4. s \in Seq(Int) /\ Len(s) = Len(p) + 1 /\ \A i \in 1..Len(p) : s[i] = p[i]  BY <2>2, <2>3, AppendFacts
  <2>5. Len(s) = old  BY <1>0, <2>2, <2>4
  <2>6. \A i \in 1..(old - 1) : s[i] = t.stack[i]  BY <2>2, <2>4
  <2> QED  BY <2>4, <2>5, <2>6
<1>8. PICK o : o = {x \in t.open : x < old}  OBVIOUS
<1>9. o \in SUBSET Nat /\ \A x \in o : x \in t.open /\ x < old  BY <1>8, ThreadFacts
<1>10. PICK z \in Nat : /\ w.sizeci = z
                        /\ w = [t EXCEPT !.open = o, !.stack = s, !.nCcalls = f.nCcalls, !.ci = c, !.sizeci = z, !.base = c[k].base]
  <2>1. PICK a : a = [t EXCEPT !.open = o, !.stack = s, !.nCcalls = f.nCcalls, !.ci = c]  OBVIOUS
  <2>2. [SetErrorObj(LuaFClose(t, old), old) EXCEPT !.nCcalls = f.nCcalls, !.ci = SubSeq(@, 1, k)] = a
    <3>1. PICK q : q = LuaFClose(t, old)  OBVIOUS
    <3>2. q = [t EXCEPT !.open = o]  BY <1>8, <3>1 DEF LuaFClose, ThreadT
    <3>3. q.stack = t.stack /\ q.ci = t.ci  BY <3>2 DEF ThreadT
    <3>4. SetErrorObj(q, old) = [t EXCEPT !.open = o, !.stack = s]  BY <3>2, <3>3, <1>6 DEF SetErrorObj, ThreadT
    <3>5. PICK r : r = SetErrorObj(q, old)  OBVIOUS
    <3>6. r = [t EXCEPT !.open = o, !.stack = s] /\ r.ci = t.ci  BY <3>4, <3>5 DEF ThreadT
    <3>7. [r EXCEPT !.nCcalls = f.nCcalls, !.ci = SubSeq(@, 1, k)] = [r EXCEPT !.nCcalls = f.nCcalls, !.ci = c]
      BY <3>6, <1>2 DEF ThreadT
    <3> QED  BY <3>1, <3>5, <3>6, <3>7, <2>1 DEF ThreadT
  <2>3. a \in ThreadT /\ a.ci = c  BY <1>0, <2>1, <1>3, <1>7, <1>9 DEF ThreadT
  <2>4. PICK v : v = RestoreStackLimit(a)  OBVIOUS
  <2>5. \E z \in Nat : v = [a EXCEPT !.sizeci = z]
    <3>1. CASE a.sizeci > MaxCalls /\ Len(a.ci) < MaxCalls
      <4>1. v = [a EXCEPT !.sizeci = MaxCalls]  BY <3>1, <2>4 DEF RestoreStackLimit
      <4> QED  BY <4>1, Constants
    <3>2. CASE ~ (a.sizeci > MaxCalls /\ Len(a.ci) < MaxCalls)
      <4>1. v = a  BY <3>2, <2>4 DEF RestoreStackLimit
      <4>2. a.sizeci \in Nat /\ a = [a EXCEPT !.sizeci = a.sizeci]  BY <2>3 DEF ThreadT
      <4> QED  BY <4>1, <4>2
    <3> QED  BY <3>1, <3>2
  <2>6. PICK z \in Nat : v = [a EXCEPT !.sizeci = z]  BY <2>5
  <2>7. CI(v) = c[k]
    <3>1. v.ci = c  BY <2>3, <2>6 DEF ThreadT
    <3> QED  BY <3>1, <1>0, <1>3 DEF CI, Last
  <2>8. w = [v EXCEPT !.base = c[k].base]  BY <1>w, <1>0a, <1>0b, <2>2, <2>4, <2>7 DEF Recovered
  <2>9. w = [t EXCEPT !.open = o, !.stack = s, !.nCcalls = f.nCcalls, !.ci = c, !.sizeci = z, !.base = c[k].base]
    BY <2>1, <2>6, <2>8 DEF ThreadT
  <2> QED  BY <2>9 DEF ThreadT
<1>11. c[k] = t.ci[k] /\ c[k].base \in Nat
  <2>1. k \in 1..k  BY <1>0, <1>1
  <2> QED  BY <2>1, <1>3, <1>4
<1>12. /\ w \in ThreadT /\ w.status = t.status /\ w.errfunc = t.errfunc /\ w.jmp = t.jmp /\ w.nCcalls = f.nCcalls
       /\ w.ci = c /\ w.stack = s /\ w.open = o /\ w.base = c[k].base /\ w.stacksize = t.stacksize
  BY <1>0, <1>3, <1>7, <1>9, <1>10, <1>11 DEF ThreadT
<1>13. StackLast(w) = StackLast(t)  BY <1>12 DEF StackLast
<1>14. \A d \in 1..k : d \in 1..Len(t.ci)  BY <1>0, <1>1
<1>15. Nested(w.ci)
  <2>1. Len(c) >= 1  BY <1>0, <1>3
  <2>2. \A d \in 1..Len(c) : 1 <= c[d].func /\ c[d].func < c[d].base /\ c[d].base < c[d].top
    BY <1>1, <1>3, <1>14 DEF Nested
  <2>3. \A d, e \in 1..Len(c) : d < e => c[d].base <= c[e].func /\ (c[d].lua => c[d].base < c[e].func)
    BY <1>1, <1>3, <1>14 DEF Nested
  <2> QED  BY <2>1, <2>2, <2>3, <1>12 DEF Nested
<1>16. Owned(w)
  <2> SUFFICES ASSUME NEW x \in o PROVE \E d \in 1..k : c[d].lua /\ c[d].base = x  BY <1>3, <1>12 DEF Owned
  <2>1. x \in t.open /\ x < old /\ x \in Nat  BY <1>9
  <2>2. PICK d \in 1..Len(t.ci) : t.ci[d].lua /\ t.ci[d].base = x  BY <1>1, <2>1 DEF Owned
  <2>3. d \in 1..k
    <3> SUFFICES ASSUME d \notin 1..k PROVE FALSE  OBVIOUS
    <3>1. d \in (k + 1)..Len(t.ci)  BY <1>0, <1>1
    <3>2. old <= t.ci[d].func  BY <1>0, <3>1 DEF Over
    <3>3. t.ci[d].func < t.ci[d].base /\ t.ci[d].func \in Nat  BY <1>1, NestedFacts
    <3> QED  BY <1>0, <2>1, <2>2, <3>2, <3>3
  <2> QED  BY <2>2, <2>3, <1>3
<1>17. Locals(w)
  <2> SUFFICES ASSUME NEW d \in 1..k, c[d].lua
               PROVE  c[d].base <= old /\ s[c[d].base] = Local(d) /\ c[d].top = c[d].base + MaxStack
    BY <1>3, <1>7, <1>12 DEF Locals
  <2>1. c[d] = t.ci[d] /\ d \in 1..Len(t.ci) /\ t.ci[d].lua  BY <1>3, <1>14
  <2>2. t.stack[t.ci[d].base] = Local(d) /\ t.ci[d].top = t.ci[d].base + MaxStack  BY <1>1, <2>1 DEF Locals
  <2>3. d < k  BY <1>0, <2>1
  <2>4. t.ci[d].base < t.ci[k].func /\ t.ci[d].base \in Nat /\ t.ci[d].base >= 2
    <3>1. t.ci[d].base < t.ci[k].func  BY <1>0, <1>1, <2>1, <2>3 DEF Nested
    <3> QED  BY <3>1, <1>1, <2>1, NestedFacts
  <2>5. t.ci[d].base \in 1..(old - 1) /\ t.ci[d].base <= old
    <3>1. PICK x : x = t.ci[d].base  OBVIOUS
    <3>2. PICK y : y = t.ci[k].func  OBVIOUS
    <3>3. PICK zz : zz = t.ci[k].base  OBVIOUS
    <3>4. x \in Nat /\ y \in Nat /\ zz \in Nat /\ x >= 2 /\ x < y /\ y < zz /\ zz <= old
      BY <1>0, <1>4, <2>4, <3>1, <3>2, <3>3
    <3>5. old \in Nat  BY <1>0
    <3>6. x \in 1..(old - 1) /\ x <= old  BY <3>4, <3>5
    <3> QED  BY <3>1, <3>6
  <2> QED  BY <2>1, <2>2, <2>5, <1>7
<1>18. w.base = w.ci[Len(w.ci)].base /\ w.base <= Len(w.stack) + 1
  <2>1. t.ci[k].base <= old + 1  BY <1>0, <1>4
  <2> QED  BY <1>0, <2>1, <1>3, <1>7, <1>11, <1>12
<1>19. \A d \in 1..Len(w.ci) : w.ci[d].top <= StackLast(w)  BY <1>1, <1>3, <1>12, <1>13, <1>14
<1>20. Sound(w)  BY <1>15, <1>16, <1>17, <1>18, <1>19 DEF Sound
<1>21. Fits(w)
  <2>1. t.ci[k].top <= StackLast(t) /\ StackLast(t) \in Int  BY <1>0, <1>1, ThreadFacts
  <2>2. old < StackLast(t)  BY <1>0, <2>1, <1>4
  <2> QED  BY <2>2, <1>7, <1>12, <1>13 DEF Fits
<1>22. Restored(t, f, w)  BY <1>0a, <1>0b, <1>3, <1>7, <1>12, <1>20, <1>21 DEF Cut, Restored
<1> QED  BY <1>w, <1>22

\* What is below the innermost setjmp of the running thread.
LEMMA CatcherFacts ==
    ASSUME NEW S, Good(S), NEW t, t = S.L[S.cur], NEW j, j = t.jmp, j # 0, NEW f, f = S.cs[j]
    PROVE  /\ j \in 1..Len(S.cs) /\ j \in Nat /\ f \in CFrame /\ f.th = S.cur /\ f.k \in {"pcall", "resume"}
           /\ \A i \in j..Len(S.cs) : S.cs[i].th = S.cur
           /\ \A i \in (j + 1)..Len(S.cs) : S.cs[i].k \notin {"pcall", "resume"}
<1>1. PICK n : n = Len(S.cs)  OBVIOUS
<1>2. /\ S.cur \in Thread /\ S.cs \in Seq(CFrame) /\ n \in Nat /\ n >= 1 /\ Runner(t, S.cs, S.cur) /\ Shape(S.cs)
      /\ S.cs[n].th = S.cur
  BY <1>1, GoodFacts
<1>3. j = Catcher(S.cs, S.cur, n)  BY <1>1, <1>2 DEF Runner
<1>4. j \in 0..n /\ j \in Catches(S.cs, S.cur, n)  BY <1>2, <1>3, CatcherIs
<1>5. j \in 1..n /\ f.th = S.cur /\ f.k \in {"pcall", "resume"}  BY <1>4 DEF Catches
<1>6. /\ \A i \in (j + 1)..n : S.cs[i].th = S.cur
      /\ \A i \in 1..n : S.cs[i].k \in {"pcall", "resume"} => i <= j
  BY <1>1, <1>2, <1>3, TopSegment
<1>7. \A i \in j..n : S.cs[i].th = S.cur
  <2> SUFFICES ASSUME NEW i \in j..n PROVE S.cs[i].th = S.cur  OBVIOUS
  <2>1. i = j \/ i \in (j + 1)..n  BY <1>2, <1>5
  <2> QED  BY <2>1, <1>5, <1>6
<1>8. \A i \in (j + 1)..n : S.cs[i].k \notin {"pcall", "resume"}
  <2> SUFFICES ASSUME NEW i \in (j + 1)..n, S.cs[i].k \in {"pcall", "resume"} PROVE FALSE  OBVIOUS
  <2>1. i \in 1..n /\ ~ i <= j  BY <1>2, <1>5
  <2> QED  BY <2>1, <1>6
<1>9. f \in CFrame  BY <1>1, <1>2, <1>5, ElementOfSeq
<1> QED  BY <1>1, <1>2, <1>5, <1>7, <1>8, <1>9

\* The handler of the innermost luaD_pcall is the one of the last frame that may have one.
LEMMA HandlerBelow ==
    ASSUME NEW C, NEW th, NEW n \in Nat, NEW j \in 1..n, \A i \in (j + 1)..n : C[i].k # "pcall"
    PROVE  HandlerOf(C, th, n) = HandlerOf(C, th, j)
<1>1. FramesTo(C, th, "pcall", n) = FramesTo(C, th, "pcall", j)
  <2>1. \A i \in 1..n : C[i].k = "pcall" => i \in 1..j
    <3> SUFFICES ASSUME NEW i \in 1..n, C[i].k = "pcall" PROVE i \in 1..j  OBVIOUS
    <3>1. i \notin (j + 1)..n  OBVIOUS
    <3> QED  BY <3>1
  <2>2. \A i \in 1..j : i \in 1..n  OBVIOUS
  <2> QED  BY <2>1, <2>2 DEF FramesTo
<1> QED  BY <1>1 DEF HandlerOf

\* The function that called luaD_pcall is a C function.
LEMMA PcallInC ==
    ASSUME NEW S, Good(S), NEW t, t = S.L[S.cur], NEW j \in Pcalls(S.cs, S.cur)
    PROVE  ~ t.ci[S.cs[j].ci].lua
<1>1. PICK n : n = Len(S.cs)  OBVIOUS
<1>2. /\ S.cur \in Thread /\ S.cs \in Seq(CFrame) /\ n \in Nat /\ n >= 1 /\ Runner(t, S.cs, S.cur) /\ Shape(S.cs)
      /\ Saved(S.cs)
  BY <1>1, GoodFacts
<1>3. j \in 1..n /\ S.cs[j].k = "pcall" /\ S.cs[j].th = S.cur  BY <1>1 DEF Pcalls
<1>4. S.cs[j].ci = Infos(S.cs, S.cur, j - 1)  BY <1>1, <1>2, <1>3 DEF Saved, SavedFrame
<1>5. j # 1  BY <1>2, <1>3 DEF Shape, Host
<1>6. j \in 2..n /\ j - 1 \in 1..n  BY <1>2, <1>3, <1>5
<1>7. CallsFrame(S.cs[j - 1], S.cs[j])  BY <1>1, <1>2, <1>6 DEF Shape
<1>8. S.cs[j - 1].k = "c" /\ S.cs[j - 1].th = S.cur  BY <1>3, <1>7 DEF CallsFrame
<1>9. Kinds(t.ci, S.cs, S.cur)  BY <1>2 DEF Runner
<1>10. CASE S.cs[j - 1].f # "host"  BY <1>1, <1>4, <1>6, <1>8, <1>9, <1>10 DEF Kinds
<1>11. CASE S.cs[j - 1].f = "host"
  <2>1. j - 1 = 1
    <3> SUFFICES ASSUME j - 1 # 1 PROVE FALSE  OBVIOUS
    <3>1. j - 1 \in 2..n /\ j - 1 - 1 = j - 2  BY <1>6
    <3>2. CallsFrame(S.cs[j - 1 - 1], S.cs[j - 1])  BY <1>1, <1>2, <3>1 DEF Shape
    <3> QED  BY <3>2, <1>8, <1>11 DEF CallsFrame
  <2>2. 1 \in 1..Len(S.cs) /\ 1 - 1 = 0  BY <1>1, <1>2
  <2>3. Infos(S.cs, S.cur, 1) = Infos(S.cs, S.cur, 1 - 1) + (IF S.cs[1].th = S.cur THEN Runs(S.cs[1]) ELSE 0)
    BY <1>2, <2>2, CountStep
  <2>4. Runs(S.cs[1]) = 0  BY <1>2 DEF Shape, Host, Runs
  <2>5. Infos(S.cs, S.cur, 0) = 1  BY CountNone
  <2>6. Infos(S.cs, S.cur, 1) = 1  BY <2>2, <2>3, <2>4, <2>5
  <2>7. S.cs[j].ci = 1
    <3>1. Infos(S.cs, S.cur, j - 1) = 1  BY <2>1, <2>6
    <3> QED  BY <3>1, <1>4
  <2>8. ~ t.ci[1].lua  BY <1>9 DEF Kinds
  <2> QED  BY <2>7, <2>8
<1> QED  BY <1>10, <1>11

\* A luaD_pcall within another one saved more calls.
LEMMA PcallDeeper ==
    ASSUME NEW S, Good(S), NEW i \in Pcalls(S.cs, S.cur), NEW j \in Pcalls(S.cs, S.cur), i < j
    PROVE  S.cs[i].ci < S.cs[j].ci /\ S.cs[i].ci \in Nat /\ S.cs[j].ci \in Nat
<1>1. PICK n : n = Len(S.cs)  OBVIOUS
<1>2. S.cur \in Thread /\ S.cs \in Seq(CFrame) /\ n \in Nat /\ n >= 1 /\ Shape(S.cs) /\ Saved(S.cs)
  BY <1>1, GoodFacts
<1>3. /\ i \in 1..n /\ S.cs[i].k = "pcall" /\ S.cs[i].th = S.cur
      /\ j \in 1..n /\ S.cs[j].k = "pcall" /\ S.cs[j].th = S.cur
  BY <1>1 DEF Pcalls
<1>4. S.cs[i].ci = Infos(S.cs, S.cur, i - 1) /\ S.cs[j].ci = Infos(S.cs, S.cur, j - 1)
  BY <1>1, <1>2, <1>3 DEF Saved, SavedFrame
<1>5. PICK p : p = j - 1  OBVIOUS
<1>6. /\ p \in 1..n /\ p \in 0..n /\ p - 1 \in 0..n /\ i - 1 \in 0..n /\ p + 1 = j /\ p + 1 \in 2..n /\ i <= p
  BY <1>2, <1>3, <1>5
<1>7. CallsFrame(S.cs[p], S.cs[j])
  <2>1. CallsFrame(S.cs[p + 1 - 1], S.cs[p + 1])  BY <1>1, <1>2, <1>6 DEF Shape
  <2>2. p + 1 - 1 = p  BY <1>6
  <2> QED  BY <2>1, <2>2, <1>6
<1>8. S.cs[p].k = "c" /\ S.cs[p].th = S.cur  BY <1>3, <1>7 DEF CallsFrame
<1>9. i # p  BY <1>3, <1>8
<1>10. p \in 2..n /\ i - 1 <= p - 1  BY <1>3, <1>6, <1>9
<1>11. CallsFrame(S.cs[p - 1], S.cs[p])  BY <1>1, <1>2, <1>10 DEF Shape
<1>12. S.cs[p].f # "host"  BY <1>8, <1>11 DEF CallsFrame
<1>13. S.cs[p] \in CFrame  BY <1>1, <1>2, <1>6, ElementOfSeq
<1>14. Runs(S.cs[p]) = 1  BY <1>8, <1>12, <1>13, FrameFacts
<1>15. Infos(S.cs, S.cur, p) = Infos(S.cs, S.cur, p - 1) + 1
  <2>1. p \in 1..Len(S.cs)  BY <1>1, <1>6
  <2> QED  BY <2>1, <1>2, <1>8, <1>14, CountStep
<1>16. Infos(S.cs, S.cur, i - 1) <= Infos(S.cs, S.cur, p - 1)
  <2>1. i - 1 \in 0..Len(S.cs) /\ p - 1 \in 0..Len(S.cs)  BY <1>1, <1>6
  <2> QED  BY <2>1, <1>2, <1>10, CountGrows
<1>17. Infos(S.cs, S.cur, p - 1) \in Nat /\ Infos(S.cs, S.cur, i - 1) \in Nat
  <2>1. i - 1 \in 0..Len(S.cs) /\ p - 1 \in 0..Len(S.cs)  BY <1>1, <1>6
  <2> QED  BY <2>1, <1>2, CountTypes
<1>18. S.cs[j].ci = Infos(S.cs, S.cur, p)  BY <1>4, <1>5
<1> QED  BY <1>4, <1>15, <1>16, <1>17, <1>18

\* After the error the older luaD_pcalls can still be gone back to.
LEMMA CaughtRecover ==
    ASSUME NEW S, Good(S), NEW t, t = S.L[S.cur], NEW j \in Pcalls(S.cs, S.cur), NEW f, f = S.cs[j],
           NEW w, Cut(t, w, f.ci), Len(w.stack) = f.oldtop,
           NEW D, Older(S.cs, D, S.cur), Len(D) = j
    PROVE  Caught(w, D, S.cur)
<1>1. PICK n : n = Len(S.cs)  OBVIOUS
<1>2. t \in ThreadT /\ Caught(t, S.cs, S.cur) /\ Sound(t)  BY <1>1, GoodFacts
<1>3. /\ f.oldtop \in Nat /\ f.oldtop < t.ci[f.ci].top /\ t.ci[f.ci].base <= f.oldtop /\ f.ci \in 1..Len(t.ci)
  BY <1>1, PcallFacts
<1>4. Len(t.ci) \in Nat /\ t.ci \in Seq(CallInfo) /\ Nested(t.ci)  BY <1>2, ThreadFacts DEF Sound
<1>5. j \in Nat  BY <1>1, GoodFacts DEF Pcalls
<1> SUFFICES ASSUME NEW i \in Pcalls(D, S.cur)
             PROVE  /\ D[i].oldtop <= Len(w.stack) + 1 /\ w.ci[D[i].ci].base <= D[i].oldtop
                    /\ D[i].oldtop < w.ci[D[i].ci].top
                    /\ \A d \in (D[i].ci + 1)..Len(w.ci) : D[i].oldtop <= w.ci[d].func
  BY DEF Caught
<1>6. i \in 1..j /\ i \in Pcalls(S.cs, S.cur) /\ D[i] = S.cs[i]
  <2>1. i \in 1..j  BY DEF Pcalls
  <2> QED  BY <2>1 DEF Older
<1>7. PICK g : g = S.cs[i]  OBVIOUS
<1>8. /\ g.oldtop \in Nat /\ g.oldtop < t.ci[g.ci].top /\ t.ci[g.ci].base <= g.oldtop /\ g.ci \in 1..Len(t.ci)
  BY <1>1, <1>6, <1>7, PcallFacts
<1>9. Over(t, g.ci, g.oldtop)  BY <1>2, <1>6, <1>7 DEF Caught, Over
<1>10. PICK k : k = f.ci  OBVIOUS
<1>11. PICK m : m = g.ci  OBVIOUS
<1>12. PICK l : l = Len(t.ci)  OBVIOUS
<1>13. l \in Nat /\ k \in 1..l /\ m \in 1..l  BY <1>3, <1>4, <1>8, <1>10, <1>11, <1>12
<1>14. CASE i = j
  <2>1. g = f /\ m = k  BY <1>7, <1>10, <1>11, <1>14
  <2>2. k \in 1..k /\ \A d \in (k + 1)..k : FALSE  BY <1>13
  <2>3. w.ci[k] = t.ci[k] /\ Len(w.ci) = k  BY <1>10, <2>2 DEF Cut
  <2>4. PICK o : o = f.oldtop  OBVIOUS
  <2>5. o \in Nat  BY <1>3, <2>4
  <2>6. o <= o + 1  BY <2>5
  <2>7. o <= Len(w.stack) + 1  BY <2>4, <2>6
  <2> QED  BY <2>1, <2>2, <2>3, <2>4, <2>7, <1>3, <1>6, <1>7, <1>10
<1>15. CASE i # j
  <2>1. i < j  BY <1>5, <1>6, <1>15
  <2>2. m < k  BY <1>6, <1>7, <1>10, <1>11, <2>1, PcallDeeper
  <2>3. m \in 1..k /\ k \in (m + 1)..l  BY <1>13, <2>2
  <2>4. w.ci[m] = t.ci[m] /\ Len(w.ci) = k  BY <1>10, <2>3 DEF Cut
  <2>5. g.oldtop <= t.ci[k].func  BY <1>9, <1>11, <1>12, <2>3 DEF Over
  <2>6. t.ci[k].func < t.ci[k].base /\ t.ci[k].func \in Nat /\ t.ci[k].base \in Nat
    BY <1>4, <1>12, <1>13, NestedFacts
  <2>7. g.oldtop <= f.oldtop + 1
    <3>1. PICK a : a = t.ci[k].func  OBVIOUS
    <3>2. PICK b : b = t.ci[k].base  OBVIOUS
    <3>3. PICK x : x = g.oldtop  OBVIOUS
    <3>4. PICK y : y = f.oldtop  OBVIOUS
    <3>5. x \in Nat /\ y \in Nat /\ a \in Nat /\ b \in Nat /\ x <= a /\ a < b /\ b <= y
      BY <1>3, <1>8, <1>10, <2>5, <2>6, <3>1, <3>2, <3>3, <3>4
    <3>6. x <= y + 1  BY <3>5
    <3> QED  BY <3>3, <3>4, <3>6
  <2>8. \A d \in (m + 1)..k : g.oldtop <= w.ci[d].func
    <3> SUFFICES ASSUME NEW d \in (m + 1)..k PROVE g.oldtop <= w.ci[d].func  OBVIOUS
    <3>1. d \in 1..k /\ d \in (m + 1)..l  BY <1>13
    <3>2. w.ci[d] = t.ci[d]  BY <1>10, <3>1 DEF Cut
    <3>3. g.oldtop <= t.ci[d].func  BY <1>9, <1>11, <1>12, <3>1 DEF Over
    <3> QED  BY <3>2, <3>3
  <2>9. g.oldtop <= Len(w.stack) + 1  BY <2>7
  <2> QED  BY <1>6, <1>7, <1>8, <1>11, <2>4, <2>8, <2>9
<1> QED  BY <1>14, <1>15

\* The C stack that longjmp leaves.
Jumped(S, j) == [S EXCEPT !.cs = SubSeq(@, 1, j)]

\* longjmp leaves a prefix of the C stack, and the threads alone.
LEMMA JumpedFacts ==
    ASSUME NEW S \in StateT, NEW j \in 0..Len(S.cs)
    PROVE  /\ Jumped(S, j) \in StateT /\ Jumped(S, j).L = S.L /\ Jumped(S, j).cur = S.cur /\ Jumped(S, j).op = S.op
           /\ CutTo(S.cs, Jumped(S, j).cs, j)
<1>1. Jumped(S, j) = [S EXCEPT !.cs = SubSeq(S.cs, 1, j)]  BY DEF StateT, Jumped
<1> QED  BY <1>1, CutFacts

\* The counts at the luaD_pcall that catches are what it saved.
LEMMA CaughtCounts ==
    ASSUME NEW S, Good(S), NEW t, t = S.L[S.cur], NEW j, j = t.jmp, j # 0, NEW f, f = S.cs[j], f.k = "pcall"
    PROVE  /\ f.nCcalls = Calls(S.cs, S.cur, j) /\ f.ci = Infos(S.cs, S.cur, j) /\ Catcher(S.cs, S.cur, j) = j
           /\ t.errfunc = HandlerOf(S.cs, S.cur, j)
<1>1. PICK n : n = Len(S.cs)  OBVIOUS
<1>2. /\ S.cur \in Thread /\ S.cs \in Seq(CFrame) /\ n \in Nat /\ Runner(t, S.cs, S.cur) /\ Saved(S.cs)
  BY <1>1, GoodFacts
<1>3. /\ j \in 1..n /\ f \in CFrame /\ f.th = S.cur /\ \A i \in (j + 1)..n : S.cs[i].k \notin {"pcall", "resume"}
  BY <1>1, CatcherFacts
<1>4. j \in Pcalls(S.cs, S.cur)  BY <1>1, <1>3 DEF Pcalls
<1>5. f.ci \in Nat /\ f.nCcalls \in Nat  BY <1>3, FrameFacts
<1>6. /\ Calls(S.cs, S.cur, j) = Calls(S.cs, S.cur, j - 1) + (IF f.th = S.cur /\ f.k = "call" THEN 1 ELSE 0)
      /\ Infos(S.cs, S.cur, j) = Infos(S.cs, S.cur, j - 1) + (IF f.th = S.cur THEN Runs(f) ELSE 0)
      /\ Catcher(S.cs, S.cur, j) = IF f.th = S.cur /\ f.k \in {"pcall", "resume"} THEN j ELSE Catcher(S.cs, S.cur, j - 1)
  BY SMTT(30), <1>1, <1>2, <1>3, CountStep
<1>7. Runs(f) = 0 /\ f.nCcalls = Calls(S.cs, S.cur, j - 1) /\ f.ci = Infos(S.cs, S.cur, j - 1)
  <2>1. Runs(f) = 0  BY <1>3, FrameFacts
  <2>2. SavedFrame(S.cs, j)  BY <1>1, <1>2, <1>3 DEF Saved
  <2>3. f.nCcalls = Calls(S.cs, S.cur, j - 1) /\ f.ci = Infos(S.cs, S.cur, j - 1)  BY <2>2, <1>3 DEF SavedFrame
  <2> QED  BY <2>1, <2>3
<1>8. f.nCcalls = Calls(S.cs, S.cur, j) /\ f.ci = Infos(S.cs, S.cur, j) /\ Catcher(S.cs, S.cur, j) = j
  BY <1>3, <1>5, <1>6, <1>7
<1>9. HandlerOf(S.cs, S.cur, n) = HandlerOf(S.cs, S.cur, j)
  <2>1. \A i \in (j + 1)..n : S.cs[i].k # "pcall"  BY <1>3
  <2> QED  BY <2>1, <1>2, <1>3, HandlerBelow
<1>10. t.errfunc = HandlerOf(S.cs, S.cur, j)  BY <1>1, <1>2, <1>9 DEF Runner
<1> QED  BY <1>8, <1>10

\* luaD_pcall catches an error.
LEMMA RecoverInv ==
    ASSUME NEW S, Good(S), NEW t, t = S.L[S.cur], NEW j, j = t.jmp, j # 0, NEW f, f = S.cs[j], f.k = "pcall"
    PROVE  IInv(PcallDone(PcallRecover(Jumped(S, j), f)))
<1>1. PICK n : n = Len(S.cs)  OBVIOUS
<1>2. /\ S \in StateT /\ S.cur \in Thread /\ S.cs \in Seq(CFrame) /\ t \in ThreadT /\ n \in Nat /\ n >= 1
      /\ t.status = "ok" /\ Sound(t) /\ Fits(t) /\ Caught(t, S.cs, S.cur) /\ Core(S.L, S.cs, S.cur)
  BY <1>1, GoodFacts
<1>3. /\ j \in 1..n /\ j \in Nat /\ f \in CFrame /\ f.th = S.cur
      /\ \A i \in j..n : S.cs[i].th = S.cur
      /\ \A i \in (j + 1)..n : S.cs[i].k \notin {"pcall", "resume"}
  BY <1>1, CatcherFacts
<1>4. j \in Pcalls(S.cs, S.cur)  BY <1>1, <1>3 DEF Pcalls
<1>5. /\ f.oldtop \in Nat /\ f.oldtop <= Len(t.stack) + 1 /\ f.oldtop < t.ci[f.ci].top
      /\ t.ci[f.ci].base <= f.oldtop /\ f.ci \in 1..Len(t.ci) /\ f.nCcalls < Limit /\ f.nCcalls \in Nat
  BY <1>1, <1>4, PcallFacts
<1>6. ~ t.ci[f.ci].lua  BY <1>4, PcallInC
<1>7. Over(t, f.ci, f.oldtop)  BY <1>2, <1>4 DEF Caught, Over
<1>8. PICK w : w = Recovered(t, f)  OBVIOUS
<1>9. /\ w \in ThreadT /\ Sound(w) /\ Fits(w) /\ w.status = t.status /\ w.errfunc = t.errfunc /\ w.jmp = t.jmp
      /\ w.nCcalls = f.nCcalls /\ Cut(t, w, f.ci) /\ Len(w.stack) = f.oldtop
  <2>1. Recoverable(t, f)  BY <1>5, <1>6, <1>7 DEF Recoverable
  <2>2. Restored(t, f, Recovered(t, f))  BY <1>2, <2>1, RecoverSound
  <2> QED  BY <1>8, <2>2 DEF Restored
<1>10. PICK J : J = Jumped(S, j)  OBVIOUS
<1>11. /\ J \in StateT /\ J.L = S.L /\ J.cur = S.cur /\ J.op = S.op /\ CutTo(S.cs, J.cs, j)
  <2>1. j \in 0..Len(S.cs)  BY <1>1, <1>3
  <2> QED  BY <1>2, <1>10, <2>1, JumpedFacts
<1>12. PICK W : W = With(J, w)  OBVIOUS
<1>13. W \in StateT /\ Moves(J, W, w) /\ W.cs = J.cs /\ W.cur = J.cur /\ W.L[J.cur] = w
  BY <1>9, <1>11, <1>12, WithFacts
<1>14. Moves(S, W, w) /\ CutTo(S.cs, W.cs, j) /\ w = W.L[W.cur]  BY <1>11, <1>13 DEF Moves
<1>15. SameTo(S.cs, W.cs, j) /\ Len(W.cs) = j /\ W.cs \in Seq(CFrame)  BY <1>2, <1>14, CutCounts
<1>16. W.cs[j] = f
  <2>1. j \in 1..j  BY <1>3
  <2> QED  BY <2>1, <1>14 DEF CutTo
<1>17. Core(W.L, W.cs, S.cur)
  <2>1. /\ f.nCcalls = Calls(S.cs, S.cur, j) /\ f.ci = Infos(S.cs, S.cur, j) /\ Catcher(S.cs, S.cur, j) = j
        /\ t.errfunc = HandlerOf(S.cs, S.cur, j)
    BY CaughtCounts
  <2>2. W.L[S.cur] = w  BY <1>14 DEF Moves
  <2>3. CutBack(t, w, S.cs, S.cur, j)  BY <1>2, <1>9, <2>1 DEF Cut, CutBack
  <2>4. \A o \in Thread : o # S.cur => W.L[o] = S.L[o]  BY <1>14 DEF Moves
  <2>5. CutBack(S.L[S.cur], W.L[S.cur], S.cs, S.cur, j)  BY <2>2, <2>3
  <2>6. j \in 1..Len(S.cs) /\ \A i \in j..Len(S.cs) : S.cs[i].th = S.cur  BY <1>1, <1>3
  <2> QED  BY <1>2, <1>14, <2>4, <2>5, <2>6, CoreCut
<1>18. Caught(w, W.cs, S.cur)
  <2>1. \A i \in (j + 1)..Len(W.cs) : W.cs[i].k # "pcall"  BY <1>3, <1>15
  <2>2. Older(S.cs, W.cs, S.cur)  BY <1>2, <1>15, <2>1, OlderSame
  <2> QED  BY <1>4, <1>9, <1>15, <2>2, CaughtRecover
<1>19. Good(W)
  <2>1. \A i \in (j + 1)..Len(W.cs) : W.cs[i].th = S.cur /\ W.cs[i].k # "resume"  BY <1>3, <1>15
  <2>2. w.nCcalls <= Limit
    <3>1. PICK k : k = f.nCcalls  OBVIOUS
    <3>2. k \in Nat /\ Limit \in Nat /\ k < Limit  BY <3>1, <1>5, Constants
    <3>3. k <= Limit  BY <3>2
    <3> QED  BY <3>1, <3>3, <1>9
  <2> QED  BY <1>9, <1>14, <1>15, <1>17, <1>18, <2>1, <2>2, GoodOwn
<1>20. PICK T : T = PcallLeave(W, f)  OBVIOUS
<1>21. PICK u : u = T.L[T.cur]  OBVIOUS
<1>22. PICK b : b = T.cs[Len(T.cs)]  OBVIOUS
<1>23. Good(T) /\ u.nCcalls = w.nCcalls /\ b.k = "c" /\ b.f \in {"host", "pcall", "xpcall"}
  <2>1. f = W.cs[Len(W.cs)]  BY <1>15, <1>16
  <2> QED  BY <1>14, <1>19, <1>20, <1>21, <1>22, <2>1, LeaveFacts
<1>24. u.nCcalls < Limit  BY <1>5, <1>9, <1>23
<1>25. IInv(PcallDone(T))  BY <1>21, <1>22, <1>23, <1>24, PcallDoneInv
<1>26. PcallRecover(J, f) = T
  <2>1. Cur(J) = t  BY <1>11 DEF Cur
  <2>2. PICK v : v = RestoreStackLimit([SetErrorObj(LuaFClose(t, f.oldtop), f.oldtop)
                                EXCEPT !.nCcalls = f.nCcalls, !.ci = SubSeq(@, 1, f.ci)])
    OBVIOUS
  <2>3. w = [v EXCEPT !.base = CI(v).base]  BY <1>8, <2>2 DEF Recovered
  <2>4. PcallRecover(J, f) = PcallLeave(With(J, [v EXCEPT !.base = CI(v).base]), f)  BY <2>1, <2>2 DEF PcallRecover
  <2> QED  BY <2>3, <2>4, <1>12, <1>20
<1> QED  BY <1>10, <1>25, <1>26

-----------------------------------------------------------------------------
(* Threads that do not run *)

\* Other values, or room, make no difference to what the C stack says of a thread.
LEMMA InStepAgain ==
    ASSUME NEW C \in Seq(CFrame), NEW th, NEW t \in ThreadT, NEW u, InStep(t, C, th), Len(t.ci) >= 1,
           Shares(t, u), SameInfos(t, u)
    PROVE  InStep(u, C, th)
<1>0. Len(t.ci) \in Nat /\ Len(u.ci) = Len(t.ci) /\ \A d \in 1..Len(t.ci) : u.ci[d].lua = t.ci[d].lua
  BY ThreadFacts DEF SameInfos
<1>1. CASE HasFrames(C, th)
  <2>1. Runner(t, C, th)  BY <1>1 DEF InStep
  <2>2. PICK n : n = Len(C)  OBVIOUS
  <2>3. n \in Nat /\ SameTo(C, C, n)  BY <2>2, LenProperties DEF SameTo
  <2>4. Infos(C, th, n) = Len(t.ci) /\ Kinds(t.ci, C, th)  BY <2>1, <2>2 DEF Runner
  <2>5. KindsFollow(t.ci, u.ci, Infos(C, th, n), C, n)  BY <1>0, <2>2, <2>3, <2>4 DEF KindsFollow
  <2>6. Kinds(u.ci, C, th)  BY <2>3, <2>4, <2>5, KindsStep
  <2>7. Runner(u, C, th)  BY <2>1, <2>6, <1>0 DEF Runner, Shares
  <2> QED  BY <2>7, <1>1 DEF InStep
<1>2. CASE ~ HasFrames(C, th)
  <2>1. Sleeper(t)  BY <1>2 DEF InStep
  <2>2. PICK n : n = Len(t.ci)  OBVIOUS
  <2>3. n \in Nat /\ n >= 1 /\ Len(u.ci) = n /\ \A d \in 1..n : u.ci[d].lua = t.ci[d].lua  BY <1>0, <2>2
  <2>4. 1 \in 1..n /\ n \in 1..n /\ \A d \in 2..(n - 1) : d \in 1..n  BY <2>3
  <2>5. u.ci[1].lua = t.ci[1].lua /\ u.ci[n].lua = t.ci[n].lua /\ \A d \in 2..(n - 1) : u.ci[d].lua = t.ci[d].lua
    BY <2>3, <2>4
  <2>6. Sleeper(u)  BY <2>1, <2>2, <2>3, <2>5 DEF Sleeper, Shares
  <2> QED  BY <2>6, <1>2 DEF InStep
<1> QED  BY <1>1, <1>2

\* A thread without frames has no luaD_pcall, and waits for no other.
LEMMA SleeperFine ==
    ASSUME NEW C \in Seq(CFrame), Shape(C), NEW th, ~ HasFrames(C, th), NEW t
    PROVE  Caught(t, C, th) /\ Waits(t, C, th)
<1>1. Pcalls(C, th) = {}  BY DEF Pcalls, HasFrames
<1>2. ASSUME NEW i \in 1..Len(C), C[i].k = "resume", C[i].from = th PROVE FALSE
  <2>1. i >= 2 /\ C[i - 1].th = C[i].from  BY <1>2, WaiterBelow
  <2>2. i - 1 \in 1..Len(C)  BY <2>1
  <2> QED  BY <2>1, <2>2, <1>2 DEF HasFrames
<1> QED  BY <1>1, <1>2 DEF Caught, Waits

\* Another thread is changed, as a coroutine that gives or gets values.
Alters(S, T, co) ==
    /\ T \in StateT /\ T.cs = S.cs /\ T.cur = S.cur /\ co \in Thread /\ co # S.cur
    /\ \A o \in Thread : o # co => T.L[o] = S.L[o]

\* That leaves the state good if the other thread is as good as before.
LEMMA GoodOther ==
    ASSUME NEW S, Good(S), NEW co, NEW T, Alters(S, T, co), InStep(T.L[co], S.cs, co), Fine(T.L[co], S.cs, co)
    PROVE  Good(T)
<1>1. \A o \in Thread : InStep(T.L[o], T.cs, o)
  <2> SUFFICES ASSUME NEW o \in Thread PROVE InStep(T.L[o], T.cs, o)  OBVIOUS
  <2>1. InStep(S.L[o], S.cs, o)  BY DEF Good, Core
  <2> QED  BY <2>1 DEF Alters
<1>2. \A o \in Thread : Fine(T.L[o], T.cs, o)
  <2> SUFFICES ASSUME NEW o \in Thread PROVE Fine(T.L[o], T.cs, o)  OBVIOUS
  <2>1. Fine(S.L[o], S.cs, o)  BY DEF Good
  <2> QED  BY <2>1 DEF Alters
<1>3. Shape(T.cs) /\ Saved(T.cs) /\ T.cs[Len(T.cs)].th = T.cur  BY DEF Alters, Good, Core
<1>4. T \in StateT  BY DEF Alters
<1> QED  BY <1>1, <1>2, <1>3, <1>4 DEF Good, Core

\* Two threads of a state are changed.
Both(S, co, z, cu, v) == [S EXCEPT !.L[co] = z, !.L[cu] = v]

\* The fields of the state then.
LEMMA TwoFacts ==
    ASSUME NEW S \in StateT, NEW co \in Thread, NEW cu \in Thread, co # cu, NEW z \in ThreadT, NEW v \in ThreadT,
           NEW T, T = Both(S, co, z, cu, v)
    PROVE  /\ T \in StateT /\ T.cs = S.cs /\ T.cur = S.cur /\ T.op = S.op /\ T.L[co] = z /\ T.L[cu] = v
           /\ \A o \in Thread : o # co /\ o # cu => T.L[o] = S.L[o]
<1>1. PICK M : M = [[S.L EXCEPT ![co] = z] EXCEPT ![cu] = v]  OBVIOUS
<1>2. M \in [Thread -> ThreadT] /\ M[co] = z /\ M[cu] = v /\ \A o \in Thread : o # co /\ o # cu => M[o] = S.L[o]
  <2>1. PICK K : K = [S.L EXCEPT ![co] = z]  OBVIOUS
  <2>2. K \in [Thread -> ThreadT] /\ K[co] = z /\ \A o \in Thread : o # co => K[o] = S.L[o]  BY <2>1, StateFacts
  <2> QED  BY <2>1, <2>2, <1>1
<1>3. T = [S EXCEPT !.L = M]  BY <1>1 DEF StateT, Both
<1> QED  BY <1>2, <1>3 DEF StateT

\* One thread of a state is changed.
One(S, co, z) == [S EXCEPT !.L[co] = z]

\* The fields of the state then.
LEMMA OneFacts ==
    ASSUME NEW S \in StateT, NEW co \in Thread, NEW z \in ThreadT, NEW T, T = One(S, co, z)
    PROVE  /\ T \in StateT /\ T.cs = S.cs /\ T.cur = S.cur /\ T.op = S.op /\ T.L[co] = z
           /\ \A o \in Thread : o # co => T.L[o] = S.L[o]
<1>1. PICK M : M = [S.L EXCEPT ![co] = z]  OBVIOUS
<1>2. M \in [Thread -> ThreadT] /\ M[co] = z /\ \A o \in Thread : o # co => M[o] = S.L[o]  BY <1>1, StateFacts
<1>3. T = [S EXCEPT !.L = M]  BY <1>1 DEF StateT, One
<1> QED  BY <1>2, <1>3 DEF StateT

\* A thread that has frames but does not run waits in the C function that resumed another one.
LEMMA WaiterFacts ==
    ASSUME NEW S, Good(S), NEW co \in Thread, co # S.cur, HasFrames(S.cs, co), NEW c, c = S.L[co]
    PROVE  /\ c.status = "ok" /\ ~ c.ci[Len(c.ci)].lua /\ Len(c.ci) >= 2
           /\ Len(c.stack) + 2 <= c.ci[Len(c.ci)].top /\ c.nCcalls < Limit
           /\ \A i \in Pcalls(S.cs, co) : S.cs[i].oldtop \in Nat /\ S.cs[i].oldtop <= c.ci[Len(c.ci)].func
<1>1. PICK n : n = Len(S.cs)  OBVIOUS
<1>2. PICK C : C = S.cs  OBVIOUS
<1>3. C \in Seq(CFrame) /\ n \in Nat /\ n >= 1 /\ Shape(C) /\ Saved(C) /\ C[n].th = S.cur /\ n = Len(C)
  BY <1>1, <1>2, GoodFacts
<1>4. InStep(c, C, co) /\ Fine(c, C, co) /\ c \in ThreadT
  BY <1>2, StateFacts DEF Good, Core
<1>5. Runner(c, C, co)  BY <1>2, <1>4 DEF InStep
\* the frame on top of it
<1>6. PICK m : m \in 1..n /\ C[m].th = co /\ \A i \in 1..n : C[i].th = co => i <= m
  <2> DEFINE F == {i \in 1..n : C[i].th = co}
  <2>1. F \subseteq 1..n /\ F # {}  BY <1>2, <1>3 DEF HasFrames
  <2>2. Max(F) \in F /\ \A x \in F : x <= Max(F)
    <3> HIDE DEF F
    <3> QED  BY <1>3, <2>1, MaxInSet
  <2>3. PICK m : m = Max(F)  OBVIOUS
  <2>4. m \in F /\ \A x \in F : x <= m  BY <2>2, <2>3
  <2> QED  BY <2>4
<1>7. m # n /\ m + 1 \in 2..n /\ m + 1 \in 1..n /\ m \in Nat  BY <1>3, <1>6
<1>8. C[m + 1].th # co
  <2> SUFFICES ASSUME C[m + 1].th = co PROVE FALSE  OBVIOUS
  <2>1. m + 1 <= m  BY <1>6, <1>7
  <2> QED  BY <2>1, <1>7
<1>9. CallsFrame(C[m], C[m + 1])
  <2>1. CallsFrame(C[m + 1 - 1], C[m + 1])  BY <1>3, <1>7 DEF Shape
  <2>2. m + 1 - 1 = m  BY <1>7
  <2> QED  BY <2>1, <2>2
<1>10. C[m + 1].k = "resume" /\ C[m + 1].from = co /\ C[m].k = "c" /\ C[m].f \in {"resume", "wrap"}
  BY <1>6, <1>8, <1>9 DEF CallsFrame
\* the functions it runs
<1>11. /\ Infos(C, co, n) = Infos(C, co, m)
  <2>1. \A i \in (m + 1)..n : C[i].th # co
    <3> SUFFICES ASSUME NEW i \in (m + 1)..n, C[i].th = co PROVE FALSE  OBVIOUS
    <3>1. i \in 1..n  BY <1>7
    <3>2. i <= m  BY <3>1, <1>6
    <3> QED  BY <3>2, <1>7
  <2>2. m <= n  BY <1>3, <1>6
  <2> QED  BY <2>1, <2>2, <1>3, <1>7, CountStill
<1>12. Infos(C, co, m) = Infos(C, co, m - 1) + 1
  <2>1. m \in 1..Len(C)  BY <1>3, <1>6
  <2>2. C[m] \in CFrame  BY <2>1, <1>3, ElementOfSeq
  <2>3. Runs(C[m]) = 1  BY <2>2, <1>10, FrameFacts
  <2> QED  BY <2>1, <2>3, <1>3, <1>6, CountStep
<1>13. Len(c.ci) = Infos(C, co, m)  BY <1>3, <1>5, <1>11 DEF Runner
<1>14. Infos(C, co, m - 1) \in Nat /\ Infos(C, co, m - 1) >= 1
  <2>1. m - 1 \in 0..Len(C)  BY <1>3, <1>6
  <2> QED  BY <2>1, <1>3, CountTypes
<1>15. Len(c.ci) >= 2  BY <1>12, <1>13, <1>14
<1>16. ~ c.ci[Len(c.ci)].lua
  <2>1. Kinds(c.ci, C, co) /\ m \in 1..Len(C) /\ C[m].f # "host"  BY <1>3, <1>5, <1>6, <1>10 DEF Runner
  <2>2. ~ c.ci[Infos(C, co, m)].lua  BY <2>1, <1>6, <1>10 DEF Kinds
  <2> QED  BY <2>2, <1>13
<1>17. Len(c.stack) + 2 <= c.ci[Len(c.ci)].top /\ c.nCcalls < Limit
  <2>1. m + 1 \in 1..Len(C)  BY <1>3, <1>7
  <2> QED  BY <2>1, <1>4, <1>10 DEF Fine, Waits
<1>18. ASSUME NEW i \in Pcalls(C, co)
       PROVE  C[i].oldtop \in Nat /\ C[i].oldtop <= c.ci[Len(c.ci)].func
  <2>1. i \in 1..n /\ C[i].k = "pcall" /\ C[i].th = co /\ i <= m  BY <1>3, <1>6 DEF Pcalls
  <2>2. C[i] \in CFrame  BY <2>1, <1>3, ElementOfSeq
  <2>3. C[i].oldtop \in Nat /\ C[i].ci \in Nat  BY <2>1, <2>2, FrameFacts
  <2>4. C[i].ci = Infos(C, co, i - 1)  BY <2>1, <1>3 DEF Saved, SavedFrame
  <2>5. i # m  BY <2>1, <1>10
  <2>6. Infos(C, co, i - 1) <= Infos(C, co, m - 1)
    <3>1. i - 1 \in 0..Len(C) /\ m - 1 \in 0..Len(C) /\ i - 1 <= m - 1  BY <2>1, <1>3, <1>6
    <3> QED  BY <3>1, <1>3, CountGrows
  <2>7. Len(c.ci) \in (C[i].ci + 1)..Len(c.ci)
    <3>1. PICK k : k = C[i].ci  OBVIOUS
    <3>2. PICK l : l = Len(c.ci)  OBVIOUS
    <3>3. PICK q : q = Infos(C, co, m - 1)  OBVIOUS
    <3>4. k \in Nat /\ q \in Nat /\ l = q + 1 /\ k <= q  BY <2>3, <2>4, <2>6, <1>12, <1>13, <1>14, <3>1, <3>2, <3>3
    <3>5. l \in (k + 1)..l  BY <3>4
    <3> QED  BY <3>1, <3>2, <3>5
  <2>8. C[i].oldtop <= c.ci[Len(c.ci)].func  BY <2>7, <1>4 DEF Fine, Caught
  <2> QED  BY <2>3, <2>8
<1>19. c.status = "ok"  BY <1>5 DEF Runner
<1> QED  BY <1>2, <1>15, <1>16, <1>17, <1>18, <1>19

\* What a coroutine gives goes onto the stack of the thread that resumed it.
LEMMA ReceiveSound ==
    ASSUME NEW t \in ThreadT, Sound(t), Fits(t), ~ t.ci[Len(t.ci)].lua, NEW vals \in Seq(Int), NEW ok \in BOOLEAN,
           ~ ok => Len(vals) = 1 /\ Len(t.stack) + 2 <= t.ci[Len(t.ci)].top,
           NEW v, v = Receive(t, vals, ok)
    PROVE  /\ v \in ThreadT /\ Sound(v) /\ Shares(t, v) /\ SameInfos(t, v)
           /\ Len(v.stack) + 1 <= StackLast(v) /\ v.base + Len(vals) <= Len(v.stack) + 1
<1>1. PICK n : n = Len(vals)  OBVIOUS
<1>2. PICK l : l = Len(t.stack)  OBVIOUS
<1>3. /\ n \in Nat /\ l \in Nat /\ t.base \in Nat /\ t.base <= l + 1 /\ Nested(t.ci) /\ Len(t.ci) >= 1
      /\ t.ci[Len(t.ci)].top <= StackLast(t) /\ t.ci[Len(t.ci)].top \in Nat /\ StackLast(t) \in Int
  BY <1>1, <1>2, LenProperties, ThreadFacts, BaseFacts DEF Sound
<1>4. PICK u : u = IF ok THEN CheckStackC(t, n) ELSE t  OBVIOUS
<1>5. /\ u \in ThreadT /\ Sound(u) /\ Shares(t, u) /\ SameInfos(t, u) /\ u.base = t.base /\ u.stack = t.stack
      /\ l + 1 + n <= StackLast(u)
  <2>1. CASE ok
    <3>1. u = CheckStackC(t, n)  BY <2>1, <1>4
    <3>a. Len(t.stack) <= StackLast(t)  BY ThreadFacts DEF Fits
    <3>2. /\ u \in ThreadT /\ Shares(t, u) /\ SameInfos(t, u) /\ u.base = t.base /\ u.stack = t.stack
          /\ l + 1 + n <= StackLast(u)
      BY <1>2, <1>3, <3>1, <3>a, CheckStackCFacts
    <3>3. Sound(u)  BY <1>3, <3>1, <3>a, CheckStackCSound
    <3> QED  BY <3>2, <3>3
  <2>2. CASE ~ ok
    <3>1. u = t  BY <2>2, <1>4
    <3>2. Regrown(t, t)
      <4>1. t.stacksize \in Nat  BY ThreadFacts
      <4> QED  BY <4>1 DEF Regrown, SameCalls
    <3>3. Shares(t, t) /\ SameInfos(t, t)  BY <3>2, RegrownSame
    <3>4. n = 1 /\ l + 2 <= t.ci[Len(t.ci)].top  BY <2>2, <1>1, <1>2
    <3>5. PICK p : p = t.ci[Len(t.ci)].top  OBVIOUS
    <3>6. PICK s : s = StackLast(t)  OBVIOUS
    <3>7. l \in Nat /\ n = 1 /\ l + 2 <= p /\ p <= s /\ p \in Nat /\ s \in Int  BY <1>3, <3>4, <3>5, <3>6
    <3>8. l + 1 + n <= s  BY <3>7
    <3> QED  BY <3>1, <3>3, <3>6, <3>8
  <2> QED  BY <2>1, <2>2
<1>6. v = [u EXCEPT !.stack = @ \o vals]  BY <1>1, <1>4 DEF Receive
<1>7. /\ v \in ThreadT /\ Sound(v) /\ Regrown(u, v) /\ Len(v.stack) = Len(u.stack) + Len(vals)
      /\ StackLast(v) = StackLast(u)
  BY <1>5, <1>6, ConcatSound
<1>8. Shares(t, v) /\ SameInfos(t, v) /\ v.base = t.base
  <2>1. v.ci = u.ci /\ v.base = u.base /\ Shares(u, v)  BY <1>7 DEF Regrown, SameCalls, Shares
  <2> QED  BY <2>1, <1>5 DEF Shares, SameInfos
<1>9. Len(v.stack) = l + n  BY <1>1, <1>2, <1>5, <1>7
<1>10. l + n + 1 <= StackLast(v)
  <2>1. PICK s : s = StackLast(u)  OBVIOUS
  <2>2. l + 1 + n <= s /\ l + 1 + n = l + n + 1  BY <2>1, <1>3, <1>5
  <2> QED  BY <2>1, <2>2, <1>7
<1>11. t.base + n <= l + n + 1  BY <1>3
<1> QED  BY <1>1, <1>7, <1>8, <1>9, <1>10, <1>11

\* The number of values, the frame on top and the thread v that it goes on with.
Given(S, W, v, n) ==
    LET t == S.L[S.cur]
        b == S.cs[Len(S.cs)]
    IN /\ b.k = "c" /\ b.f \in {"resume", "wrap"} /\ t.nCcalls < Limit
       /\ v \in ThreadT /\ Sound(v) /\ Shares(t, v) /\ SameInfos(t, v)
       /\ Len(v.stack) + 1 <= StackLast(v) /\ v.base + n <= Len(v.stack) + 1
       /\ Moves(S, W, v) /\ W.cs = S.cs /\ n \in Nat

\* coroutine.resume and coroutine.wrap return.
LEMMA EndResumeInv ==
    ASSUME NEW S, Good(S), NEW W, NEW v, NEW n, Given(S, W, v, n), NEW ok \in BOOLEAN, ~ ok => n >= 1
    PROVE  IInv(EndResume(W, n, ok))
<1>1. PICK t : t = S.L[S.cur]  OBVIOUS
<1>2. PICK b : b = S.cs[Len(S.cs)]  OBVIOUS
<1>3. /\ b.k = "c" /\ b.f \in {"resume", "wrap"} /\ b.f # "host" /\ t.nCcalls < Limit
      /\ v \in ThreadT /\ Sound(v) /\ Shares(t, v) /\ SameInfos(t, v) /\ v.base + n <= Len(v.stack) + 1
      /\ Moves(S, W, v) /\ W.cs = S.cs /\ n \in Nat
  BY <1>1, <1>2 DEF Given
<1>4. PICK l : l = Len(v.stack)  OBVIOUS
<1>5. PICK s : s = StackLast(v)  OBVIOUS
<1>6. l \in Nat /\ s \in Int /\ l + 1 <= s /\ v.base \in Nat /\ v.base + n <= l + 1 /\ Len(v.ci) >= 1 /\ Len(v.ci) \in Nat
  BY <1>3, <1>4, <1>5, ThreadFacts, BaseFacts DEF Given
<1>7. l <= s /\ l < s  BY <1>6
<1>8. Cur(W) = v /\ TopC(W) = b
  <2>1. Cur(W) = v  BY <1>3 DEF Cur, Moves
  <2>2. W \in StateT  BY <1>3 DEF Moves
  <2> QED  BY <2>1, <2>2, <1>2, <1>3, StateFacts
<1>9. t \in ThreadT /\ ~ t.ci[Len(t.ci)].lua /\ Len(t.ci) >= 2 /\ Len(t.ci) \in Nat
  <2>1. t \in ThreadT  BY <1>1, GoodFacts
  <2>2. ~ t.ci[Len(t.ci)].lua /\ Len(t.ci) >= 2  BY <1>1, <1>2, <1>3, TopFacts
  <2> QED  BY <2>1, <2>2, ThreadFacts
<1>10. ~ v.ci[Len(v.ci)].lua
  <2>1. Len(t.ci) \in 1..Len(t.ci)  BY <1>9
  <2> QED  BY <2>1, <1>3, <1>9 DEF SameInfos
<1>11. CASE b.f = "resume"
  <2>1. PICK w : w = PutStatus(v, n)  OBVIOUS
  <2>2. w \in ThreadT /\ Sound(w) /\ Regrown(v, w) /\ Len(w.stack) = l + 1 /\ StackLast(w) = s
    BY <1>3, <1>4, <1>5, <1>10, <2>1, StatusSound
  <2>3. Shares(t, w) /\ SameInfos(t, w) /\ w.base = v.base
    <3>1. w.ci = v.ci /\ w.base = v.base /\ Shares(v, w)  BY <2>2 DEF Regrown, SameCalls, Shares
    <3> QED  BY <3>1, <1>3 DEF Shares, SameInfos
  <2>4. PICK X : X = With(W, w)  OBVIOUS
  <2>5. Moves(S, X, w) /\ X.cs = S.cs
    <3>1. W \in StateT  BY <1>3 DEF Moves
    <3>2. Moves(W, X, w) /\ X.cs = W.cs  BY <3>1, <2>2, <2>4, WithFacts
    <3> QED  BY <3>2, <1>3 DEF Moves
  <2>6. n + 1 \in Nat /\ w.base + (n + 1) <= Len(w.stack) + 1
    <3>1. n + 1 \in Nat /\ v.base + (n + 1) <= l + 1 + 1  BY <1>3, <1>6
    <3> QED  BY <3>1, <2>2, <2>3
  <2>7. Len(w.stack) <= StackLast(w)  BY <2>2, <1>6
  <2>8. IInv(CReturn(X, n + 1))  BY <1>1, <1>2, <1>3, <2>2, <2>3, <2>5, <2>6, <2>7, CReturnInv
  <2>9. EndResume(W, n, ok) = CReturn(X, n + 1)  BY <1>8, <1>11, <2>1, <2>4 DEF EndResume
  <2> QED  BY <2>8, <2>9
<1>12. CASE b.f = "wrap" /\ ok
  <2>1. Len(v.stack) <= StackLast(v)  BY <1>4, <1>5, <1>7
  <2>2. IInv(CReturn(W, n))  BY <1>1, <1>2, <1>3, <2>1, CReturnInv
  <2>3. EndResume(W, n, ok) = CReturn(W, n)  BY <1>8, <1>12 DEF EndResume
  <2> QED  BY <2>2, <2>3
<1>13. CASE b.f = "wrap" /\ ~ ok
  <2>1. Fits(v)  BY <1>4, <1>5, <1>7 DEF Fits
  <2>2. Good(W)
    <3>1. S.cs[Len(S.cs)].k \in {"exec", "c"}  BY <1>2, <1>3
    <3> QED  BY <1>1, <1>3, <2>1, <3>1, GoodAgain
  <2>3. PICK E : E = Do(W, "error")  OBVIOUS
  <2>4. Good(E) /\ E.L = W.L /\ E.cs = W.cs /\ E.cur = W.cur /\ E.op = "error"  BY <2>2, <2>3, GoodDo DEF Ops
  <2>5. W.cur = S.cur /\ W.L[S.cur] = v  BY <1>3 DEF Moves
  <2>6. Raised(v, S.cs, S.cur)
    <3>1. v.base <= l  BY <1>3, <1>6, <1>13
    <3>2. ASSUME NEW i \in Pcalls(S.cs, S.cur) PROVE S.cs[i].oldtop <= l
      <4>1. /\ S.cs[i].oldtop \in Nat /\ S.cs[i].oldtop <= t.ci[Len(t.ci)].func
        BY <1>1, <1>2, <1>3, PcallFacts
      <4>2. t.ci[Len(t.ci)].func = v.ci[Len(v.ci)].func
        <5>1. Len(t.ci) \in 1..Len(t.ci)  BY <1>9
        <5> QED  BY <5>1, <1>3 DEF SameInfos
      <4>3. v.ci[Len(v.ci)].func < v.base /\ v.ci[Len(v.ci)].func \in Nat  BY <1>3, BaseFacts
      <4>4. PICK o : o = S.cs[i].oldtop  OBVIOUS
      <4>5. PICK g : g = v.ci[Len(v.ci)].func  OBVIOUS
      <4>6. o \in Nat /\ g \in Nat /\ o <= g /\ g < v.base /\ v.base <= l /\ v.base \in Nat /\ l \in Nat
        BY <1>6, <3>1, <4>1, <4>2, <4>3, <4>4, <4>5
      <4>7. o <= l  BY <4>6
      <4> QED  BY <4>4, <4>7
    <3> QED  BY <3>1, <3>2, <1>4, <1>10 DEF Raised
  <2>7. v.nCcalls < Limit  BY <1>3 DEF Shares
  <2>8. ErrorReady(b)  BY <1>3 DEF ErrorReady
  <2>9. Ready(E)  BY <1>2, <1>3, <2>4, <2>5, <2>6, <2>7, <2>8 DEF Ready
  <2>10. EndResume(W, n, ok) = E  BY <1>8, <1>13, <2>3 DEF EndResume
  <2> QED  BY <2>4, <2>9, <2>10 DEF IInv
<1> QED  BY <1>3, <1>11, <1>12, <1>13

\* A coroutine without frames: any thread that is asleep will do.
LEMMA SleeperGood ==
    ASSUME NEW S, Good(S), NEW co, NEW T, Alters(S, T, co), ~ HasFrames(S.cs, co), NEW z, z = T.L[co],
           Sleeper(z), Fits(z), z.status # "err" => Sound(z), z.status = "err" => Dead(z)
    PROVE  Good(T)
<1>1. S.cs \in Seq(CFrame) /\ Shape(S.cs)  BY GoodFacts
<1>2. Caught(z, S.cs, co) /\ Waits(z, S.cs, co)  BY <1>1, SleeperFine
<1>3. z.nCcalls <= Limit  BY DEF Sleeper
<1>4. Fine(z, S.cs, co)  BY <1>2, <1>3 DEF Fine
<1>5. InStep(z, S.cs, co)  BY DEF InStep
<1> QED  BY <1>4, <1>5, GoodOther

\* The thread that resumed a coroutine may go on.
Awaits(S) ==
    LET t == S.L[S.cur]
        b == S.cs[Len(S.cs)]
    IN /\ b.k = "c" /\ b.f \in {"resume", "wrap"} /\ t.nCcalls < Limit
       /\ Len(t.stack) + 2 <= t.ci[Len(t.ci)].top

\* The values of the coroutine co of P from first on are what it gives; Q is left.
Gives(P, Q, co, ok, first) ==
    LET c == P.L[co]
    IN /\ first \in Nat /\ first = (IF ok THEN c.base ELSE Len(c.stack)) /\ first >= 1 /\ first <= Len(c.stack) + 1
       /\ Q.L[co] = SetTop(c, first) /\ ok \in BOOLEAN

\* auxresume ends: values move from the coroutine co of P, which leaves Q.
LEMMA ResumedInv ==
    ASSUME NEW P \in StateT, NEW Q, Good(Q), NEW co, Alters(P, Q, co), Awaits(Q), NEW ok, NEW first,
           Gives(P, Q, co, ok, first)
    PROVE  IInv(Resumed(P, co, ok))
<1>0. PICK c : c = P.L[co]  OBVIOUS
<1>a. /\ first \in Nat /\ first = (IF ok THEN c.base ELSE Len(c.stack)) /\ first >= 1 /\ first <= Len(c.stack) + 1
      /\ Q.L[co] = SetTop(c, first) /\ ok \in BOOLEAN
  BY <1>0 DEF Gives
<1>1. /\ Q \in StateT /\ Q.cs = P.cs /\ Q.cur = P.cur /\ co \in Thread /\ co # P.cur
      /\ \A o \in Thread : o # co => Q.L[o] = P.L[o]
  BY DEF Alters
<1>2. P.cur \in Thread /\ c \in ThreadT /\ Q.L[co] \in ThreadT  BY <1>0, <1>1, StateFacts
<1>3. PICK t : t = Q.L[Q.cur]  OBVIOUS
<1>4. t \in ThreadT /\ Sound(t) /\ Fits(t) /\ t = P.L[P.cur]  BY <1>1, <1>2, <1>3, GoodFacts
<1>5. PICK b : b = Q.cs[Len(Q.cs)]  OBVIOUS
<1>6. b.k = "c" /\ b.f \in {"resume", "wrap"} /\ t.nCcalls < Limit /\ Len(t.stack) + 2 <= t.ci[Len(t.ci)].top
  BY <1>3, <1>5 DEF Awaits
<1>7. ~ t.ci[Len(t.ci)].lua  BY <1>3, <1>5, <1>6, HostFacts
<1>8. PICK vals : vals = SubSeq(c.stack, first, Len(c.stack))  OBVIOUS
<1>9. vals \in Seq(Int) /\ Len(vals) \in Nat /\ (~ ok => Len(vals) = 1)
  <2>1. c.stack \in Seq(Int) /\ Len(c.stack) \in Nat  BY <1>2, ThreadFacts
  <2>2. PICK m : m = Len(c.stack)  OBVIOUS
  <2>3. \A i \in first..m : i \in 1..m  BY <1>a, <2>1, <2>2
  <2>4. vals \in Seq(Int) /\ Len(vals) = IF first <= m THEN m - first + 1 ELSE 0
    BY <1>a, <2>1, <2>2, <2>3, <1>8, SubSeqProperties
  <2>5. ~ ok => first = m  BY <1>a, <2>2
  <2>6. m - m + 1 = 1 /\ m <= m  BY <2>1, <2>2
  <2>7. Len(vals) \in Nat  BY <2>4, LenProperties
  <2> QED  BY <2>4, <2>5, <2>6, <2>7
<1>10. PICK n : n = Len(vals)  OBVIOUS
<1>11. PICK v : v = Receive(t, vals, ok)  OBVIOUS
<1>12. /\ v \in ThreadT /\ Sound(v) /\ Shares(t, v) /\ SameInfos(t, v)
       /\ Len(v.stack) + 1 <= StackLast(v) /\ v.base + n <= Len(v.stack) + 1
  BY <1>a, <1>4, <1>6, <1>7, <1>9, <1>10, <1>11, ReceiveSound
<1>13. PICK z : z = SetTop(c, first)  OBVIOUS
<1>14. z \in ThreadT /\ z = Q.L[co]  BY <1>a, <1>2, <1>13
<1>15. PICK W : W = [P EXCEPT !.L[co] = z, !.L[P.cur] = v]  OBVIOUS
<1>16. /\ W \in StateT /\ W.cs = P.cs /\ W.cur = P.cur /\ W.L[co] = z /\ W.L[P.cur] = v
       /\ \A o \in Thread : o # co /\ o # P.cur => W.L[o] = P.L[o]
  <2>1. PICK cu : cu = P.cur  OBVIOUS
  <2>2. co \in Thread /\ cu \in Thread /\ co # cu /\ z \in ThreadT /\ v \in ThreadT
    BY <1>1, <1>2, <1>12, <1>14, <2>1
  <2>3. W = Both(P, co, z, cu, v)  BY <1>15, <2>1 DEF Both
  <2>4. W \in StateT  BY <2>2, <2>3, TwoFacts
  <2>5. W.cs = P.cs  BY <2>2, <2>3, TwoFacts
  <2>6. W.L[co] = z BY <2>2, <2>3, TwoFacts
  <2>7. \A o \in Thread : o # co /\ o # cu => W.L[o] = P.L[o] BY <2>2, <2>3, TwoFacts
  <2>8. W.L[cu] = v BY <2>2, <2>3, TwoFacts
  <2>9. W.cur = P.cur BY <2>2, <2>3, TwoFacts
  <2> QED  BY <2>1, <2>4,<2>5,<2>6,<2>7,<2>8,<2>9
<1>17. Moves(Q, W, v)  BY <1>1, <1>14, <1>16 DEF Moves
<1>18. Given(Q, W, v, n)  BY <1>1, <1>3, <1>5, <1>6, <1>9, <1>10, <1>12, <1>16, <1>17 DEF Given
<1>19. IInv(EndResume(W, n, ok))
  <2>1. ok \in BOOLEAN /\ (~ ok => n >= 1)  BY <1>a, <1>9, <1>10
  <2> QED  BY <2>1, <1>18, EndResumeInv
<1>20. Resumed(P, co, ok) = EndResume(W, n, ok)
  <2>1. W = [P EXCEPT !.L[co] = SetTop(@, first), !.L[P.cur] = Receive(@, vals, ok)]
    <3>1. P.L[co] = c /\ P.L[P.cur] = t /\ co # P.cur  BY <1>0, <1>1, <1>4
    <3>2. [[P.L EXCEPT ![co] = z] EXCEPT ![P.cur] = v]
          = [[P.L EXCEPT ![co] = SetTop(P.L[co], first)] EXCEPT ![P.cur] = Receive(P.L[P.cur], vals, ok)]
      BY <3>1, <1>11, <1>13
    <3>3. [P.L EXCEPT ![co] = SetTop(P.L[co], first)][P.cur] = P.L[P.cur]
      BY <3>1, <1>2, StateFacts
    <3> QED  BY <3>1, <3>2, <3>3, <1>15
  <2> QED  BY <2>1, <1>0, <1>a, <1>1, <1>8, <1>10 DEF Resumed
<1> QED  BY <1>19, <1>20

\* The thread of G ends in the frame of its resume at j: S is G, cut to that frame.
Ends(G, S, j) ==
    /\ j \in 1..Len(G.cs) /\ G.cs[j].k = "resume" /\ \A i \in j..Len(G.cs) : G.cs[i].th = G.cur
    /\ S \in StateT /\ S.cur = G.cur /\ CutTo(G.cs, S.cs, j)
    /\ \A o \in Thread : o # G.cur => S.L[o] = G.L[o]

\* A thread that nothing runs, and that may be looked at.
Asleep(z) == /\ z \in ThreadT /\ Sleeper(z) /\ Fits(z)
             /\ (z.status # "err" => Sound(z)) /\ (z.status = "err" => Dead(z))

\* Q is what is left of S when it has gone, as z.
Left(S, Q, z) ==
    /\ Q \in StateT /\ CutTo(S.cs, Q.cs, Len(S.cs) - 1) /\ Q.cur = S.cs[Len(S.cs)].from /\ Q.L[S.cur] = z
    /\ \A o \in Thread : o # S.cur => Q.L[o] = S.L[o]

\* The thread that resumed it is in step, and may go on.
LEMMA LeftGood ==
    ASSUME NEW G, Good(G), NEW j, NEW S, Ends(G, S, j), NEW z, Asleep(z), NEW Q, Left(S, Q, z)
    PROVE  Good(Q) /\ Awaits(Q) /\ Q.cur # G.cur
<1>1. PICK C : C = G.cs  OBVIOUS
<1>2. PICK D : D = Q.cs  OBVIOUS
<1>3. PICK th : th = G.cur  OBVIOUS
<1>4. C \in Seq(CFrame) /\ Shape(C) /\ Core(G.L, C, th) /\ th \in Thread /\ Len(C) \in Nat
  BY <1>1, <1>3, GoodFacts
<1>5. j \in 1..Len(C) /\ C[j].k = "resume" /\ \A i \in j..Len(C) : C[i].th = th  BY <1>1, <1>3 DEF Ends
<1>6. j \in Nat /\ j \in j..Len(C) /\ C[j].th = th  BY <1>4, <1>5
<1>7. Len(S.cs) = j /\ S.cs[j] = C[j] /\ \A i \in 1..j : S.cs[i] = C[i]
  BY <1>1, <1>5, <1>6 DEF Ends, CutTo
<1>8. D \in Seq(CFrame) /\ Len(D) = j - 1 /\ \A i \in 1..(j - 1) : D[i] = S.cs[i]
  BY <1>2, <1>7 DEF Left, CutTo
<1>9. \A i \in 1..(j - 1) : D[i] = C[i]
  <2> SUFFICES ASSUME NEW i \in 1..(j - 1) PROVE D[i] = C[i]  OBVIOUS
  <2>1. i \in 1..j  BY <1>6
  <2> QED  BY <2>1, <1>7, <1>8
<1>10. j - 1 \in 0..Len(C) /\ j - 1 \in 0..Len(D)  BY <1>4, <1>5, <1>8
<1>11. CutTo(C, D, j - 1) /\ SameTo(C, D, j - 1)  BY <1>8, <1>9, <1>10 DEF CutTo, SameTo
<1>12. /\ j >= 2 /\ C[j - 1].k = "c" /\ C[j - 1].f \in {"resume", "wrap"} /\ C[j - 1].th = C[j].from
       /\ \A m \in 1..(j - 1) : C[m].th # C[j].th
  BY <1>4, <1>5, WaiterBelow
<1>13. Q.cur = C[j].from /\ Q \in StateT /\ \A o \in Thread : o # th => Q.L[o] = G.L[o]
  BY <1>3, <1>7 DEF Left, Ends
<1>14. Q.L[th] = z  BY <1>3 DEF Left, Ends
<1>15. Sleeper(Q.L[th])  BY <1>14 DEF Asleep
<1>16. Core(Q.L, D, C[j].from) /\ C[j].from \in Thread /\ C[j].from # th
  BY SMTT(30), <1>4, <1>5, <1>11, <1>13, <1>15, CoreLeave
<1>17. Core(Q.L, D, Q.cur) /\ Q.cur \in Thread /\ Q.cur # th  BY <1>13, <1>16
<1>18. \A o \in Thread : Fine(Q.L[o], D, o)
  <2> SUFFICES ASSUME NEW o \in Thread PROVE Fine(Q.L[o], D, o)  OBVIOUS
  <2>1. CASE o # th
    <3>1. Fine(G.L[o], C, o)  BY <1>1 DEF Good
    <3>2. \A i \in (j - 1 + 1)..Len(D) : D[i].th # o /\ D[i].k # "resume"
      <4>1. Len(D) < j - 1 + 1  BY <1>6, <1>8
      <4> QED  BY <4>1, <1>6, <1>8
    <3>3. Fine(G.L[o], D, o)  BY <1>4, <1>8, <1>11, <3>1, <3>2, FineElsewhere
    <3> QED  BY <3>3, <2>1, <1>13
  <2>2. CASE o = th
    <3>1. ~ HasFrames(D, th)
      <4> SUFFICES ASSUME NEW i \in 1..Len(D), D[i].th = th PROVE FALSE  BY DEF HasFrames
      <4>1. i \in 1..(j - 1)  BY <1>8
      <4> QED  BY <4>1, <1>6, <1>9, <1>12
    <3>2. Shape(D)  BY <1>17 DEF Core
    <3>3. Caught(z, D, th) /\ Waits(z, D, th)  BY <1>8, <3>1, <3>2, SleeperFine
    <3>4. Fine(z, D, th)  BY <3>3 DEF Asleep, Sleeper, Fine
    <3> QED  BY <3>4, <2>2, <1>14
  <2> QED  BY <2>1, <2>2
<1>19. Good(Q)  BY <1>2, <1>13, <1>17, <1>18 DEF Good
<1>20. Awaits(Q)
  <2>1. PICK cu : cu = Q.cur  OBVIOUS
  <2>2. D[Len(D)] = C[j - 1]
    <3>1. j - 1 \in 1..(j - 1)  BY <1>6, <1>12
    <3> QED  BY <3>1, <1>8, <1>9
  <2>3. Waits(G.L[cu], C, cu)  BY <1>1, <1>17, <2>1 DEF Good, Fine
  <2>4. Q.L[cu] = G.L[cu]  BY <1>13, <1>17, <2>1
  <2>5. Len(G.L[cu].stack) + 2 <= G.L[cu].ci[Len(G.L[cu].ci)].top /\ G.L[cu].nCcalls < Limit
    BY <1>5, <1>13, <2>1, <2>3 DEF Waits
  <2> QED  BY <1>2, <1>12, <2>1, <2>2, <2>4, <2>5 DEF Awaits
<1> QED  BY <1>3, <1>17, <1>19, <1>20

\* lua_resume returns to auxresume, with the values from first on.
LEMMA ResumeReturnsInv ==
    ASSUME NEW G, Good(G), NEW j, NEW S, Ends(G, S, j), NEW status, NEW ok \in BOOLEAN,
           NEW c \in ThreadT, c = [S.L[S.cur] EXCEPT !.status = status, !.jmp = 0],
           NEW first \in Nat, first = IF ok THEN c.base ELSE Len(c.stack), first >= 1, first <= Len(c.stack) + 1,
           NEW z, z = SetTop(c, first), Asleep(z)
    PROVE  IInv(ResumeReturns(S, status, ok))
<1>1. PICK f : f = S.cs[j]  OBVIOUS
<1>2. PICK th : th = G.cur  OBVIOUS
<1>3. S \in StateT /\ S.cur = th /\ th \in Thread /\ Len(S.cs) = j /\ j \in Nat /\ j >= 1 /\ j \in 1..Len(G.cs)
      /\ f = G.cs[j] /\ f.k = "resume"
  <2>1. S \in StateT /\ S.cur = th /\ CutTo(G.cs, S.cs, j) /\ j \in 1..Len(G.cs) /\ G.cs[j].k = "resume"
    BY <1>2 DEF Ends
  <2>2. j \in Nat /\ j >= 1 /\ j \in 1..j  BY <2>1, GoodFacts
  <2>3. Len(S.cs) = j /\ S.cs[j] = G.cs[j]  BY <2>1, <2>2 DEF CutTo
  <2> QED  BY <2>1, <2>2, <2>3, <1>1, StateFacts
<1>4. f \in CFrame /\ f.from \in Thread
  <2>1. S.cs \in Seq(CFrame) /\ j \in 1..Len(S.cs)  BY <1>3, StateFacts
  <2>2. f \in CFrame  BY <2>1, <1>1, ElementOfSeq
  <2> QED  BY <2>2, <1>3, FrameFacts
<1>5. f.jmp = 0
  <2>1. Saved(G.cs)  BY GoodFacts
  <2> QED  BY <2>1, <1>3 DEF Saved, SavedFrame
<1>6. PICK W : W = With(S, c)  OBVIOUS
<1>7. W \in StateT /\ Moves(S, W, c) /\ W.cs = S.cs /\ W.cur = S.cur  BY <1>3, <1>6, WithFacts
<1>8. PICK V : V = PopC(W)  OBVIOUS
<1>9. V \in StateT /\ V.L = W.L /\ V.cur = W.cur /\ CutTo(W.cs, V.cs, Len(W.cs) - 1)
  BY <1>3, <1>7, <1>8, PopCFacts
<1>10. PICK P : P = [V EXCEPT !.cur = f.from]  OBVIOUS
<1>11. P \in StateT /\ P.L = W.L /\ P.cur = f.from /\ P.cs = V.cs
  BY <1>4, <1>9, <1>10 DEF StateT
<1>12. PICK Q : Q = [P EXCEPT !.L[th] = z]  OBVIOUS
<1>13. z \in ThreadT  BY DEF Asleep
<1>14. /\ Q \in StateT /\ Q.cs = P.cs /\ Q.cur = P.cur /\ Q.L[th] = z
       /\ \A o \in Thread : o # th => Q.L[o] = P.L[o]
  <2>1. Q = One(P, th, z)  BY <1>12 DEF One
  <2>2. th \in Thread /\ P \in StateT  BY <1>3, <1>11
  <2>3. Q \in StateT  BY <2>1, <2>2, <1>13, OneFacts
  <2>4. Q.cs = P.cs /\ Q.cur = P.cur  BY <2>1, <2>2, <1>13, OneFacts
  <2>5. Q.L[th] = z  BY SMTT(30), <2>1, <2>2, <1>13, OneFacts
  <2>6. \A o \in Thread : o # th => Q.L[o] = P.L[o]  BY SMTT(30), <2>1, <2>2, <1>13, OneFacts
  <2> QED  BY <2>3, <2>4, <2>5, <2>6
<1>15. Left(S, Q, z)
  <2>1. CutTo(S.cs, Q.cs, Len(S.cs) - 1)  BY <1>7, <1>9, <1>11, <1>14
  <2>2. \A o \in Thread : o # th => Q.L[o] = S.L[o]  BY <1>3, <1>7, <1>11, <1>14 DEF Moves
  <2> QED  BY <2>1, <2>2, <1>1, <1>3, <1>11, <1>14 DEF Left
<1>16. Good(Q) /\ Awaits(Q) /\ Q.cur # th  BY <1>2, <1>15, LeftGood
<1>17. Alters(P, Q, th)  BY <1>3, <1>11, <1>14, <1>16 DEF Alters
<1>18. c = P.L[th]  BY <1>3, <1>7, <1>11 DEF Moves
<1>19. IInv(Resumed(P, th, ok))
  <2>1. Gives(P, Q, th, ok, first)  BY <1>14, <1>18 DEF Gives
  <2> QED  BY <2>1, <1>11, <1>16, <1>17, ResumedInv
<1>20. ResumeReturns(S, status, ok) = Resumed(P, th, ok)
  <2>1. TopC(S) = f /\ Cur(S) = S.L[S.cur]  BY <1>1, <1>3, StateFacts
  <2> QED  BY <2>1, <1>3, <1>5, <1>6, <1>8, <1>10 DEF ResumeReturns
<1> QED  BY <1>19, <1>20

\* A coroutine that may yield: a C function, called by the luaV_execute of its resume.
Yielding(C, th, n, q) ==
    /\ n \in Nat /\ n >= 4 /\ n = Len(C) /\ q \in Nat /\ q >= 1
    /\ C[n - 1].k = "exec" /\ C[n - 1].th = th /\ C[n - 1].n = q
    /\ C[n - 2].k = "resume" /\ C[n - 2].th = th /\ C[n].th = th

\* Where nCcalls is zero, no luaD_call is below.
LEMMA YieldFrames ==
    ASSUME NEW S, Good(S), NEW t, t = S.L[S.cur], NEW n, n = Len(S.cs), S.cs[n].k = "c", S.cs[n].f = "yield",
           t.nCcalls = 0
    PROVE  \E q \in Nat : Yielding(S.cs, S.cur, n, q)
<1>1. PICK C : C = S.cs  OBVIOUS
<1>2. PICK th : th = S.cur  OBVIOUS
<1>3. C \in Seq(CFrame) /\ n \in Nat /\ n >= 1 /\ Shape(C) /\ C[n].th = th /\ Runner(t, C, th) /\ n = Len(C)
  BY <1>1, <1>2, GoodFacts
<1>4. n # 1
  <2>1. C[n].f # "host"  BY <1>1
  <2> QED  BY <2>1, <1>3 DEF Shape, Host
<1>5. n \in 2..Len(C) /\ n - 1 \in 1..Len(C) /\ n \in 1..Len(C)  BY <1>3, <1>4
<1>6. CallsFrame(C[n - 1], C[n])  BY <1>3, <1>5 DEF Shape
<1>7. C[n - 1].k \in {"exec", "call"} /\ C[n - 1].th = th  BY <1>1, <1>3, <1>6 DEF CallsFrame
<1>8. Calls(C, th, n) = 0  BY <1>1, <1>3 DEF Runner
\* a luaD_call below would be counted
<1>9. ASSUME NEW m \in 1..Len(C), C[m].th = th, C[m].k = "call" PROVE FALSE
  <2>1. m \in 0..Len(C) /\ m - 1 \in 0..Len(C) /\ n \in 0..Len(C) /\ m <= n  BY <1>1, <1>3
  <2>2. Calls(C, th, m) = Calls(C, th, m - 1) + 1  BY <1>3, <1>9, CountStep
  <2>3. Calls(C, th, m) <= Calls(C, th, n)  BY <2>1, <1>3, CountGrows
  <2>4. Calls(C, th, m - 1) \in Nat  BY <2>1, <1>3, CountTypes
  <2> QED  BY <2>2, <2>3, <2>4, <1>8
<1>10. C[n - 1].k = "exec"  BY <1>5, <1>7, <1>9
<1>11. n - 1 # 1
  <2> SUFFICES ASSUME n - 1 = 1 PROVE FALSE  OBVIOUS
  <2>1. C[1].k = "exec"  BY <1>10
  <2>2. C[1].k = "c"  BY <1>3 DEF Shape, Host
  <2> QED  BY <2>1, <2>2
<1>12. n - 1 \in 2..Len(C) /\ n - 2 \in 1..Len(C) /\ n - 1 - 1 = n - 2  BY <1>3, <1>5, <1>11
<1>13. CallsFrame(C[n - 2], C[n - 1])
  <2>1. CallsFrame(C[n - 1 - 1], C[n - 1])  BY <1>3, <1>12 DEF Shape
  <2> QED  BY <2>1, <1>12
<1>14. C[n - 2].k \in {"call", "resume"} /\ C[n - 2].th = th  BY <1>7, <1>10, <1>13 DEF CallsFrame
<1>15. C[n - 2].k = "resume"  BY <1>9, <1>12, <1>14
<1>16. n - 2 >= 2  BY <1>3, <1>12, <1>15, WaiterBelow
<1>17. n >= 4  BY <1>3, <1>16
<1>18. C[n - 1].n \in Nat /\ C[n - 1].n >= 1
  <2>1. C[n - 1] \in CFrame  BY <1>3, <1>5, ElementOfSeq
  <2> QED  BY <2>1, <1>10, FrameFacts
<1> QED  BY <1>1, <1>2, <1>3, <1>7, <1>10, <1>14, <1>15, <1>17, <1>18 DEF Yielding

\* The coroutine that yields has no handler, and its calls are the body's and its own.
LEMMA YieldThread ==
    ASSUME NEW S, Good(S), NEW t, t = S.L[S.cur], NEW n, n = Len(S.cs), S.cs[n].k = "c", S.cs[n].f = "yield",
           NEW q \in Nat, Yielding(S.cs, S.cur, n, q)
    PROVE  /\ t.errfunc = 0 /\ Len(t.ci) = q + 2 /\ ~ t.ci[1].lua /\ ~ t.ci[Len(t.ci)].lua
           /\ \A d \in 2..(Len(t.ci) - 1) : t.ci[d].lua
<1>1. PICK C : C = S.cs  OBVIOUS
<1>2. PICK th : th = S.cur  OBVIOUS
<1>3. C \in Seq(CFrame) /\ Shape(C) /\ Runner(t, C, th) /\ n = Len(C)  BY <1>1, <1>2, GoodFacts
<1>4. /\ n \in Nat /\ n >= 4 /\ q \in Nat /\ q >= 1
      /\ C[n - 1].k = "exec" /\ C[n - 1].th = th /\ C[n - 1].n = q
      /\ C[n - 2].k = "resume" /\ C[n - 2].th = th /\ C[n].th = th
  BY <1>1, <1>2 DEF Yielding
<1>5. /\ n \in 1..Len(C) /\ n - 1 \in 1..Len(C) /\ n - 2 \in 1..Len(C) /\ n - 3 \in 0..Len(C) /\ n - 3 \in Nat
      /\ n - 2 - 1 = n - 3 /\ n - 1 - 1 = n - 2 /\ n - 2 \in Nat
  BY <1>3, <1>4
<1>6. \A m \in 1..(n - 2 - 1) : C[m].th # C[n - 2].th  BY <1>3, <1>4, <1>5, WaiterBelow
\* below the resume nothing counts
<1>7. Infos(C, th, n - 3) = 1 /\ HandlerOf(C, th, n - 3) = 0
  <2>1. \A m \in (0 + 1)..(n - 3) : C[m].th # th  BY <1>4, <1>5, <1>6
  <2>2. 0 \in Nat /\ 0 <= n - 3  BY <1>5
  <2>3. Infos(C, th, n - 3) = Infos(C, th, 0) /\ HandlerOf(C, th, n - 3) = HandlerOf(C, th, 0)
    BY <2>1, <2>2, <1>5, CountStill
  <2> QED  BY <2>3, CountNone
<1>8. Runs(C[n - 2]) = 0 /\ Runs(C[n - 1]) = q /\ Runs(C[n]) = 1
  <2>1. C[n] \in CFrame /\ C[n - 1] \in CFrame /\ C[n - 2] \in CFrame  BY <1>3, <1>5, ElementOfSeq
  <2>2. C[n].k = "c" /\ C[n].f = "yield"  BY <1>1
  <2> QED  BY <2>1, <2>2, <1>4, FrameFacts
<1>9. Infos(C, th, n - 2) = 1 /\ HandlerOf(C, th, n - 2) = 0
  <2>1. /\ Infos(C, th, n - 2) = Infos(C, th, n - 3) + 0
        /\ HandlerOf(C, th, n - 2) = HandlerOf(C, th, n - 3)
    BY Zenon, <1>3, <1>4, <1>5, <1>8, CountStep
  <2> QED  BY <2>1, <1>7
<1>10. Infos(C, th, n - 1) = 1 + q /\ HandlerOf(C, th, n - 1) = 0
  <2>1. /\ Infos(C, th, n - 1) = Infos(C, th, n - 2) + q
        /\ HandlerOf(C, th, n - 1) = HandlerOf(C, th, n - 2)
    BY <1>3, <1>4, <1>5, <1>8, CountStep
  <2> QED  BY <2>1, <1>9
<1>11. Infos(C, th, n) = 2 + q /\ HandlerOf(C, th, n) = 0
  <2>0. C[n].k = "c"  BY <1>1
  <2>1. /\ Infos(C, th, n) = Infos(C, th, n - 1) + 1
        /\ HandlerOf(C, th, n) = HandlerOf(C, th, n - 1)
    BY <2>0, <1>3, <1>4, <1>5, <1>8, CountStep
  <2>2. 1 + q + 1 = 2 + q  BY <1>4
  <2> QED  BY <2>1, <2>2, <1>10
<1>12. t.errfunc = 0 /\ Len(t.ci) = q + 2
  <2>1. q + 2 = 2 + q  BY <1>4
  <2> QED  BY <2>1, <1>3, <1>11 DEF Runner
<1>13. Kinds(t.ci, C, th)  BY <1>3 DEF Runner
<1>14. ~ t.ci[1].lua  BY <1>13 DEF Kinds
<1>15. \A d \in (1 + 1)..(1 + q) : t.ci[d].lua
  <2>1. Infos(C, th, n - 1 - 1) = 1  BY <1>5, <1>9
  <2> QED  BY <2>1, <1>4, <1>5, <1>10, <1>13 DEF Kinds
<1>16. \A d \in 2..(Len(t.ci) - 1) : t.ci[d].lua
  <2>1. Len(t.ci) - 1 = 1 + q /\ 1 + 1 = 2  BY <1>4, <1>12
  <2> QED  BY <2>1, <1>15
<1>17. ~ t.ci[Len(t.ci)].lua  BY <1>1, TopFacts
<1> QED  BY <1>12, <1>14, <1>16, <1>17

\* lua_yield.
LEMMA YieldInv ==
    ASSUME NEW S, Good(S), NEW t, t = S.L[S.cur], NEW n, n = Len(S.cs), S.cs[n].k = "c", S.cs[n].f = "yield",
           t.nCcalls < Limit
    PROVE  IInv(LuaYield(S))
<1>1. S \in StateT /\ t \in ThreadT /\ Sound(t) /\ Fits(t) /\ Cur(S) = t /\ n \in Nat /\ n >= 1 /\ S.cur \in Thread
      /\ t.jmp \in Nat /\ t.nCcalls \in Nat
  <2>1. S \in StateT /\ t \in ThreadT /\ Sound(t) /\ Fits(t) /\ Cur(S) = t /\ n \in Nat /\ n >= 1 /\ S.cur \in Thread
    BY GoodFacts
  <2> QED  BY <2>1, ThreadFacts
<1>2. CASE t.nCcalls > 0
  <2>1. ErrorReady(S.cs[n])  BY DEF ErrorReady
  <2>2. IInv(RunError(S))  BY <2>1, RunErrorInv
  <2>3. LuaYield(S) = RunError(S)  BY <1>1, <1>2 DEF LuaYield
  <2> QED  BY <2>2, <2>3
<1>3. CASE ~ (t.nCcalls > 0)
  <2>1. t.nCcalls = 0  BY <1>1, <1>3
  <2>2. PICK q \in Nat : Yielding(S.cs, S.cur, n, q)  BY <2>1, YieldFrames
  <2>3. /\ n >= 4 /\ S.cs[n - 1].th = S.cur /\ S.cs[n - 2].k = "resume" /\ S.cs[n - 2].th = S.cur /\ S.cs[n].th = S.cur
        /\ q >= 1
    BY <2>2 DEF Yielding
  <2>4. /\ t.errfunc = 0 /\ Len(t.ci) = q + 2 /\ ~ t.ci[1].lua /\ ~ t.ci[Len(t.ci)].lua
        /\ \A d \in 2..(Len(t.ci) - 1) : t.ci[d].lua
    BY <2>1, <2>2, YieldThread
  <2>5. PICK V : V = PopC(S)  OBVIOUS
  <2>6. V \in StateT /\ V.L = S.L /\ V.cur = S.cur /\ CutTo(S.cs, V.cs, n - 1)  BY <1>1, <2>5, PopCFacts
  <2>7. Len(V.cs) = n - 1 /\ Len(V.cs) >= 1
    <3>1. Len(V.cs) = n - 1  BY <2>6 DEF CutTo
    <3> QED  BY <3>1, <1>1, <2>3
  <2>8. PICK W : W = PopC(V)  OBVIOUS
  <2>9. W \in StateT /\ W.L = V.L /\ W.cur = V.cur /\ CutTo(V.cs, W.cs, Len(V.cs) - 1)  BY <2>6, <2>7, <2>8, PopCFacts
  <2>10. CutTo(S.cs, W.cs, n - 2)
    <3>1. Len(V.cs) - 1 = n - 2 /\ n - 2 \in 0..Len(S.cs)  BY <1>1, <2>3, <2>7
    <3>2. W.cs \in Seq(CFrame) /\ Len(W.cs) = n - 2 /\ \A i \in 1..(n - 2) : W.cs[i] = V.cs[i]
      BY <2>9, <3>1 DEF CutTo
    <3>3. \A i \in 1..(n - 1) : V.cs[i] = S.cs[i]  BY <2>6 DEF CutTo
    <3>4. \A i \in 1..(n - 2) : W.cs[i] = S.cs[i]
      <4> SUFFICES ASSUME NEW i \in 1..(n - 2) PROVE W.cs[i] = S.cs[i]  OBVIOUS
      <4>1. i \in 1..(n - 1)  BY <1>1
      <4> QED  BY <4>1, <3>2, <3>3
    <3> QED  BY <3>1, <3>2, <3>4 DEF CutTo
  <2>11. Ends(S, W, n - 2)
    <3>1. n - 2 \in 1..Len(S.cs)  BY <1>1, <2>3
    <3>2. \A i \in (n - 2)..Len(S.cs) : S.cs[i].th = S.cur
      <4> SUFFICES ASSUME NEW i \in (n - 2)..Len(S.cs) PROVE S.cs[i].th = S.cur  OBVIOUS
      <4>1. i \in {n - 2, n - 1, n}  BY <1>1
      <4> QED  BY <4>1, <2>3
    <3>3. W.cur = S.cur /\ \A o \in Thread : o # S.cur => W.L[o] = S.L[o]  BY <2>6, <2>9
    <3> QED  BY <3>1, <3>2, <3>3, <2>3, <2>9, <2>10 DEF Ends
  <2>12. PICK c : c = [t EXCEPT !.status = "yield", !.jmp = 0]  OBVIOUS
  <2>13. /\ c \in ThreadT /\ SameStack(t, c) /\ c.status = "yield" /\ c.jmp = 0 /\ c.nCcalls = t.nCcalls
         /\ c.errfunc = t.errfunc
    BY <1>1, <2>12 DEF ThreadT, SameStack, Statuses
  <2>14. Sound(c) /\ Fits(c) /\ StackLast(c) = StackLast(t)  BY <1>1, <2>13, SoundSame
  <2>15. c.ci = t.ci /\ c.base = t.base /\ c.stack = t.stack  BY <2>13 DEF SameStack
  <2>16. c.base \in Nat /\ c.base >= 2 /\ c.base <= Len(c.stack) + 1 /\ Len(c.stack) \in Nat /\ StackLast(c) \in Int
    BY <2>13, <2>14, BaseFacts, ThreadFacts
  <2>a. PICK first : first = c.base  OBVIOUS
  <2>17. PICK z : z = SetTop(c, first)  OBVIOUS
  <2>18. z \in ThreadT /\ Sound(z) /\ Regrown(c, z) /\ Len(z.stack) = c.base - 1 /\ StackLast(z) = StackLast(c)
    <3>1. ~ c.ci[Len(c.ci)].lua  BY <2>4, <2>15
    <3>2. first \in Nat /\ c.base <= first  BY <2>16, <2>a
    <3>3. /\ z \in ThreadT /\ Sound(z) /\ Regrown(c, z) /\ Len(z.stack) = first - 1 /\ StackLast(z) = StackLast(c)
      BY <3>1, <3>2, <2>13, <2>14, <2>17, SetTopSound
    <3> QED  BY <3>3, <2>a
  <2>19. Fits(z)
    <3>1. Len(c.stack) < StackLast(c)  BY <2>14 DEF Fits
    <3>2. c.base - 1 < StackLast(c)  BY <2>16, <3>1
    <3> QED  BY <3>2, <2>18 DEF Fits
  <2>20. /\ z.ci = t.ci /\ z.status = "yield" /\ z.jmp = 0 /\ z.nCcalls = 0 /\ z.errfunc = 0
    BY <2>1, <2>4, <2>13, <2>15, <2>18 DEF Regrown, SameCalls
  <2>21. Sleeper(z)
    <3>1. Len(z.ci) >= 3  BY <2>3, <2>4, <2>20
    <3>2. 0 <= Limit  BY Constants
    <3> QED  BY <3>1, <3>2, <2>4, <2>20 DEF Sleeper
  <2>22. Asleep(z)  BY <2>18, <2>19, <2>20, <2>21 DEF Asleep
  <2>23. c = [W.L[W.cur] EXCEPT !.status = "yield", !.jmp = 0]  BY <2>6, <2>9, <2>12
  <2>24. IInv(ResumeReturns(W, "yield", TRUE))
    <3>2. TRUE \in BOOLEAN  OBVIOUS
    <3>3. first \in Nat /\ first = (IF TRUE THEN c.base ELSE Len(c.stack)) /\ first >= 1 /\ first <= Len(c.stack) + 1
      BY <2>16, <2>a
    <3> QED  BY <2>11, <2>13, <2>22, <2>17, <2>23, <3>2, <3>3, ResumeReturnsInv
  <2>25. LuaYield(S) = ResumeReturns(W, "yield", TRUE)  BY <1>1, <1>3, <2>5, <2>8 DEF LuaYield
  <2> QED  BY <2>24, <2>25
<1> QED  BY <1>2, <1>3

\* What luaD_pcall saved of a thread is within its calls.
LEMMA PcallRange ==
    ASSUME NEW S, Good(S), NEW co \in Thread, NEW c, c = S.L[co], NEW i \in Pcalls(S.cs, co)
    PROVE  S.cs[i].ci \in 1..Len(c.ci) /\ S.cs[i].oldtop \in Nat
<1>1. PICK C : C = S.cs  OBVIOUS
<1>2. PICK n : n = Len(C)  OBVIOUS
<1>3. C \in Seq(CFrame) /\ n \in Nat /\ Saved(C) /\ InStep(c, C, co)  BY <1>1, <1>2, GoodFacts DEF Good, Core
<1>4. i \in 1..n /\ C[i].k = "pcall" /\ C[i].th = co  BY <1>1, <1>2 DEF Pcalls
<1>5. Len(c.ci) = Infos(C, co, n)  BY <1>2, <1>3, <1>4 DEF InStep, HasFrames, Runner
<1>6. C[i].ci = Infos(C, co, i - 1)  BY <1>2, <1>3, <1>4 DEF Saved, SavedFrame
<1>7. i - 1 \in 0..Len(C) /\ n \in 0..Len(C) /\ i - 1 <= n  BY <1>2, <1>3, <1>4
<1>8. Infos(C, co, i - 1) <= Infos(C, co, n)  BY <1>3, <1>7, CountGrows
<1>9. Infos(C, co, i - 1) \in Nat /\ Infos(C, co, i - 1) >= 1 /\ Infos(C, co, n) \in Nat  BY <1>3, <1>7, CountTypes
<1>10. C[i].ci \in 1..Len(c.ci)  BY <1>5, <1>6, <1>8, <1>9
<1>11. C[i] \in CFrame  BY <1>2, <1>3, <1>4, ElementOfSeq
<1>12. C[i].oldtop \in Nat  BY <1>4, <1>11, FrameFacts
<1> QED  BY <1>1, <1>10, <1>12

\* A thread with the same values and more room.
Roomier(t, u) ==
    /\ u \in ThreadT /\ Shares(t, u) /\ SameInfos(t, u) /\ u.base = t.base /\ u.stack = t.stack /\ u.open = t.open
    /\ Fits(u) /\ (t.status # "err" => Sound(u)) /\ (t.status = "err" => Dead(u))

\* It is as good as before.
LEMMA GoodRoomier ==
    ASSUME NEW S, Good(S), NEW co \in Thread, NEW c, c = S.L[co], NEW u, Roomier(c, u), Len(c.ci) >= 1,
           NEW T, T \in StateT, T.cs = S.cs, T.cur = S.cur, T.L[co] = u, \A o \in Thread : o # co => T.L[o] = S.L[o]
    PROVE  Good(T)
<1>1. PICK C : C = S.cs  OBVIOUS
<1>2. C \in Seq(CFrame) /\ S.cur \in Thread /\ c \in ThreadT
  BY <1>1, GoodFacts, StateFacts
<1>3. /\ u \in ThreadT /\ Shares(c, u) /\ SameInfos(c, u) /\ u.stack = c.stack
      /\ Fits(u) /\ (c.status # "err" => Sound(u)) /\ (c.status = "err" => Dead(u))
  BY DEF Roomier
<1>4. Fine(c, C, co) /\ InStep(c, C, co)  BY <1>1 DEF Good, Core
<1>5. PICK k : k = Len(c.ci)  OBVIOUS
<1>6. k \in Nat /\ k >= 1 /\ Len(u.ci) = k  BY <1>2, <1>3, <1>5, ThreadFacts DEF SameInfos
<1>7. \A d \in 1..k : u.ci[d].func = c.ci[d].func /\ u.ci[d].base = c.ci[d].base /\ u.ci[d].top >= c.ci[d].top
                      /\ u.ci[d].top \in Nat /\ c.ci[d].top \in Nat
  <2>1. \A d \in 1..k : u.ci[d].func = c.ci[d].func /\ u.ci[d].base = c.ci[d].base /\ u.ci[d].top >= c.ci[d].top
    BY <1>3, <1>5 DEF SameInfos
  <2>2. \A d \in 1..k : u.ci[d].top \in Nat  BY <1>3, <1>6, ThreadFacts
  <2>3. \A d \in 1..k : c.ci[d].top \in Nat  BY <1>2, <1>5, ThreadFacts
  <2> QED  BY <2>1, <2>2, <2>3
<1>8. Caught(u, C, co)
  <2> SUFFICES ASSUME NEW i \in Pcalls(C, co)
               PROVE  /\ C[i].oldtop <= Len(u.stack) + 1 /\ u.ci[C[i].ci].base <= C[i].oldtop
                      /\ C[i].oldtop < u.ci[C[i].ci].top
                      /\ \A d \in (C[i].ci + 1)..Len(u.ci) : C[i].oldtop <= u.ci[d].func
    BY DEF Caught
  <2>1. C[i].ci \in 1..k /\ C[i].oldtop \in Nat  BY <1>1, <1>5, PcallRange
  <2>2. /\ C[i].oldtop <= Len(c.stack) + 1 /\ c.ci[C[i].ci].base <= C[i].oldtop
        /\ C[i].oldtop < c.ci[C[i].ci].top
        /\ \A d \in (C[i].ci + 1)..k : C[i].oldtop <= c.ci[d].func
    BY <1>4, <1>5 DEF Fine, Caught
  <2>3. u.ci[C[i].ci].base <= C[i].oldtop  BY <2>1, <2>2, <1>7
  <2>4. C[i].oldtop < u.ci[C[i].ci].top
    <3>1. PICK p : p = c.ci[C[i].ci].top  OBVIOUS
    <3>2. PICK q : q = u.ci[C[i].ci].top  OBVIOUS
    <3>3. p \in Nat /\ q \in Nat /\ q >= p  BY <2>1, <1>7, <3>1, <3>2
    <3> QED  BY SMTT(30), <2>1, <2>2, <3>1, <3>2, <3>3
  <2>5. \A d \in (C[i].ci + 1)..k : d \in 1..k  BY <2>1, <1>6
  <2>6. \A d \in (C[i].ci + 1)..k : C[i].oldtop <= u.ci[d].func  BY <2>2, <2>5, <1>7
  <2> QED  BY <2>2, <2>3, <2>4, <2>6, <1>3, <1>6
<1>9. Waits(u, C, co)
  <2> SUFFICES ASSUME NEW i \in 1..Len(C), C[i].k = "resume", C[i].from = co
               PROVE  Len(u.stack) + 2 <= u.ci[Len(u.ci)].top /\ u.nCcalls < Limit
    BY DEF Waits
  <2>1. Len(c.stack) + 2 <= c.ci[k].top /\ c.nCcalls < Limit  BY <1>4, <1>5 DEF Fine, Waits
  <2>2. PICK p : p = c.ci[k].top  OBVIOUS
  <2>3. PICK q : q = u.ci[k].top  OBVIOUS
  <2>4. k \in 1..k  BY <1>6
  <2>5. p \in Nat /\ q \in Nat /\ q >= p /\ Len(c.stack) + 2 <= p  BY <1>7, <2>1, <2>2, <2>3, <2>4
  <2>6. Len(c.stack) \in Nat  BY <1>2, ThreadFacts
  <2>7. Len(c.stack) + 2 <= q  BY <2>5, <2>6
  <2> QED  BY <2>1, <2>3, <2>7, <1>3, <1>6 DEF Shares
<1>10. u.status = c.status /\ u.nCcalls = c.nCcalls  BY <1>3 DEF Shares
<1>11. Fine(u, C, co)  BY <1>3, <1>4, <1>8, <1>9, <1>10 DEF Fine
<1>12. InStep(u, C, co)  BY <1>2, <1>3, <1>4, InStepAgain
<1>13. CASE co # S.cur
  <2>1. Alters(S, T, co)  BY <1>13 DEF Alters
  <2> QED  BY <2>1, <1>1, <1>11, <1>12, GoodOther
<1>14. CASE co = S.cur
  <2>1. Moves(S, T, u)  BY <1>14 DEF Moves
  <2>2. c = S.L[S.cur]  BY <1>14
  <2>3. c.status = "ok"  BY <2>2, GoodFacts
  <2>4. Sound(u)  BY <2>3, <1>10, <1>11 DEF Fine
  <2>5. Len(u.stack) >= Len(c.stack)
    <3>1. Len(c.stack) \in Nat  BY <1>2, ThreadFacts
    <3> QED  BY <3>1, <1>3
  <2> QED  BY <2>1, <2>2, <2>4, <2>5, <1>3, GoodAgain
<1> QED  BY <1>13, <1>14

\* What is known of a thread that auxresume is called for.
LEMMA SubjectFacts ==
    ASSUME NEW S, Good(S), NEW b, b = S.cs[Len(S.cs)], b.k = "c", b.f \in {"resume", "wrap"},
           NEW co \in Thread, NEW c, c = S.L[co]
    PROVE  /\ c \in ThreadT /\ Fits(c) /\ Nested(c.ci) /\ Len(c.ci) >= 1
           /\ c.status # "err" => Sound(c) /\ ~ c.ci[Len(c.ci)].lua
           /\ c.status = "err" => Dead(c)
           /\ HasFrames(S.cs, co) => c.status = "ok" /\ Len(c.ci) >= 2
           /\ ~ HasFrames(S.cs, co) => Sleeper(c) /\ co # S.cur
<1>1. c \in ThreadT /\ S.cur \in Thread  BY StateFacts, GoodFacts
<1>2. Fine(c, S.cs, co) /\ InStep(c, S.cs, co)  BY DEF Good, Core
<1>3. Nested(c.ci) /\ Fits(c) /\ Len(c.ci) >= 1  BY <1>2 DEF Fine, Sound, Dead, Nested
<1>4. CASE HasFrames(S.cs, co)
  <2>1. c.status = "ok"  BY <1>2, <1>4 DEF InStep, Runner
  <2>2. Sound(c)  BY <1>2, <2>1 DEF Fine
  <2>3. ~ c.ci[Len(c.ci)].lua /\ Len(c.ci) >= 2
    <3>1. CASE co = S.cur
      <4>1. b.f # "host"  OBVIOUS
      <4> QED  BY <4>1, <3>1, TopFacts
    <3>2. CASE co # S.cur  BY <3>2, <1>4, WaiterFacts
    <3> QED  BY <3>1, <3>2
  <2> QED  BY <1>1, <1>3, <1>4, <2>1, <2>2, <2>3
<1>5. CASE ~ HasFrames(S.cs, co)
  <2>1. Sleeper(c)  BY <1>2, <1>5 DEF InStep
  <2>2. co # S.cur
    <3>1. S.cs[Len(S.cs)].th = S.cur /\ Len(S.cs) \in 1..Len(S.cs)  BY GoodFacts
    <3> QED  BY <3>1, <1>5 DEF HasFrames
  <2>3. ASSUME c.status # "err" PROVE ~ c.ci[Len(c.ci)].lua
    <3>1. c.status \in Statuses  BY <1>1, ThreadFacts
    <3>2. CASE c.status = "yield"  BY <3>2, <2>1 DEF Sleeper
    <3>3. CASE c.status \in {"none", "ok"}  BY <3>3, <2>1 DEF Sleeper
    <3> QED  BY <2>3, <3>1, <3>2, <3>3 DEF Statuses
  <2> QED  BY <1>1, <1>2, <1>3, <1>5, <2>1, <2>2, <2>3 DEF Fine
<1> QED  BY <1>4, <1>5

\* What is said of a thread that died does not depend on its values.
LEMMA DeadRegrown ==
    ASSUME NEW t \in ThreadT, Dead(t), NEW u \in ThreadT, Regrown(t, u)
    PROVE  Dead(u)
<1>1. u.ci = t.ci /\ u.open = t.open /\ u.stacksize >= t.stacksize  BY DEF Regrown, SameCalls
<1>2. StackLast(t) <= StackLast(u) /\ StackLast(t) \in Int /\ StackLast(u) \in Int
  BY <1>1, ThreadFacts, Constants
<1>3. ASSUME NEW d \in 1..Len(t.ci) PROVE t.ci[d].top - 1 <= StackLast(u)
  <2>1. t.ci[d].top \in Nat  BY ThreadFacts
  <2>2. t.ci[d].top - 1 <= StackLast(t)  BY DEF Dead
  <2> QED  BY <2>1, <2>2, <1>2
<1>4. Nested(u.ci) /\ Owned(u)  BY <1>1 DEF Dead, Owned
<1> QED  BY <1>1, <1>3, <1>4 DEF Dead

\* One change of the values after another.
LEMMA RegrownTwice ==
    ASSUME NEW t \in ThreadT, NEW u \in ThreadT, NEW v \in ThreadT, Regrown(t, u), Regrown(u, v)
    PROVE  Regrown(t, v)
<1>1. t.stacksize \in Nat /\ u.stacksize \in Nat /\ v.stacksize \in Nat  BY ThreadFacts
<1>2. t.stacksize <= u.stacksize /\ u.stacksize <= v.stacksize  BY DEF Regrown
<1>3. t.stacksize <= v.stacksize  BY <1>1, <1>2
<1> QED  BY <1>3 DEF Regrown, SameCalls

\* resume_error: r is e with the message and no other values, and z without.
Fails(e, p, r, z) ==
    /\ Nested(e.ci) /\ p = e.ci[Len(e.ci)].base /\ (Dead(e) \/ (Sound(e) /\ ~ e.ci[Len(e.ci)].lua))
    /\ r = Push(SetTop(e, p), Value) /\ z = SetTop(r, Len(r.stack))

\* Both are as sound as the thread was.
LEMMA ErrorThread ==
    ASSUME NEW e \in ThreadT, NEW p, NEW r, NEW z, Fails(e, p, r, z)
    PROVE  /\ r \in ThreadT /\ Regrown(e, r) /\ Len(r.stack) = p /\ p \in Nat /\ p >= 2 /\ p + 1 <= StackLast(r)
           /\ Sound(e) /\ ~ e.ci[Len(e.ci)].lua => Sound(r) /\ Sound(z)
           /\ z \in ThreadT /\ Regrown(e, z) /\ Len(z.stack) = p - 1 /\ Fits(z)
           /\ Dead(e) => Dead(z)
<1>0. /\ Nested(e.ci) /\ p = e.ci[Len(e.ci)].base /\ (Dead(e) \/ (Sound(e) /\ ~ e.ci[Len(e.ci)].lua))
      /\ r = Push(SetTop(e, p), Value) /\ z = SetTop(r, Len(r.stack))
  BY DEF Fails
<1>1. p \in Nat /\ p >= 2 /\ p < e.ci[Len(e.ci)].top /\ e.ci[Len(e.ci)].top \in Nat /\ Len(e.ci) \in 1..Len(e.ci)
  <2>1. e.ci \in Seq(CallInfo)  BY ThreadFacts
  <2> QED  BY <2>1, <1>0, NestedFacts
<1>2. e.stack \in Seq(Int) /\ Len(e.stack) \in Nat /\ StackLast(e) \in Int /\ e.stacksize \in Nat  BY ThreadFacts
<1>3. p <= StackLast(e)
  <2>1. PICK q : q = e.ci[Len(e.ci)].top  OBVIOUS
  <2>2. PICK s : s = StackLast(e)  OBVIOUS
  <2>3. q - 1 <= s
    <3>1. CASE Dead(e)  BY <3>1, <1>1, <2>1, <2>2 DEF Dead
    <3>2. CASE Sound(e)
      <4>1. q <= s  BY <3>2, <1>1, <2>1, <2>2 DEF Sound
      <4> QED  BY <4>1, <1>1, <1>2, <2>1, <2>2
    <3> QED  BY <3>1, <3>2, <1>0
  <2> QED  BY <2>1, <2>2, <2>3, <1>1, <1>2
<1>4. PICK a : a = SetTop(e, p)  OBVIOUS
<1>5. a \in ThreadT /\ Regrown(e, a) /\ Len(a.stack) = p - 1 /\ StackLast(a) = StackLast(e)
  <2>1. PICK l : l = Len(e.stack)  OBVIOUS
  <2>2. l \in 0..Len(e.stack) /\ a = Fill(e, l, p) /\ p >= 1  BY <1>1, <1>2, <1>4, <2>1 DEF SetTop
  <2> QED  BY <2>2, <1>1, FillFacts
<1>6. Len(a.stack) <= StackLast(a) /\ Fits(a)
  <2>1. p - 1 < StackLast(e)  BY <1>1, <1>2, <1>3
  <2>2. p - 1 <= StackLast(e)  BY <1>1, <1>2, <1>3
  <2> QED  BY <2>1, <2>2, <1>5 DEF Fits
<1>7. PICK b : b = CheckStack(a, 1)  OBVIOUS
<1>8. b \in ThreadT /\ Regrown(a, b) /\ b.stack = a.stack /\ p - 1 + 1 < StackLast(b)
  <2>1. 1 \in Nat  OBVIOUS
  <2> QED  BY <2>1, <1>5, <1>6, <1>7, CheckStackFacts
<1>9. r = Put(b, Value)  BY <1>0, <1>4, <1>7 DEF Push
<1>10. PICK s : s = Append(b.stack, Value)  OBVIOUS
<1>11. s \in Seq(Int) /\ Len(s) = p
  <2>1. b.stack \in Seq(Int) /\ Value \in Int  BY <1>8, ThreadFacts DEF Value
  <2>2. s \in Seq(Int) /\ Len(s) = Len(b.stack) + 1  BY <2>1, <1>10, AppendFacts
  <2>3. p - 1 + 1 = p  BY <1>1
  <2> QED  BY <2>2, <2>3, <1>5, <1>8
<1>12. r \in ThreadT /\ Regrown(b, r) /\ r.stack = s /\ StackLast(r) = StackLast(b)
  <2>1. r = [b EXCEPT !.stack = s]  BY <1>9, <1>10 DEF Put
  <2> QED  BY <2>1, <1>8, <1>11, Restacked
<1>13. Regrown(e, r)
  <2>1. Regrown(e, b)  BY <1>5, <1>8, RegrownTwice
  <2> QED  BY <2>1, <1>8, <1>12, RegrownTwice
<1>14. p + 1 <= StackLast(r)
  <2>1. PICK sl : sl = StackLast(b)  OBVIOUS
  <2>2. sl \in Int /\ p - 1 + 1 < sl  BY <2>1, <1>8, ThreadFacts
  <2>3. p + 1 <= sl  BY <2>2, <1>1
  <2> QED  BY <2>1, <2>3, <1>12
<1>15. z \in ThreadT /\ Regrown(r, z) /\ Len(z.stack) = p - 1 /\ StackLast(z) = StackLast(r)
  <2>1. Len(r.stack) = p  BY <1>11, <1>12
  <2>2. p \in 0..Len(r.stack) /\ z = Fill(r, p, p) /\ p >= 1  BY <2>1, <1>0, <1>1 DEF SetTop
  <2> QED  BY <2>2, <1>1, <1>12, FillFacts
<1>16. Regrown(e, z)  BY <1>12, <1>13, <1>15, RegrownTwice
<1>17. Fits(z)
  <2>1. PICK sl : sl = StackLast(r)  OBVIOUS
  <2>2. sl \in Int /\ p + 1 <= sl  BY <2>1, <1>12, <1>14, ThreadFacts
  <2>3. p - 1 < sl  BY <2>2, <1>1
  <2> QED  BY <2>1, <2>3, <1>15 DEF Fits
<1>18. ASSUME Sound(e), ~ e.ci[Len(e.ci)].lua PROVE Sound(r) /\ Sound(z)
  <2>1. p = e.base /\ e.base <= p  BY <1>0, <1>1, <1>18 DEF Sound
  <2>2. Sound(a)  BY <2>1, <1>1, <1>4, <1>18, SetTopSound
  <2>3. Value \in Int  BY DEF Value
  <2>4. Sound(r)  BY <2>2, <2>3, <1>0, <1>4, <1>5, <1>6, PushSound
  <2>5. r.base <= p /\ ~ r.ci[Len(r.ci)].lua  BY <2>1, <1>13, <1>18 DEF Regrown, SameCalls
  <2>6. z = SetTop(r, p)  BY <1>0, <1>11, <1>12
  <2>7. Sound(z)  BY <2>4, <2>5, <2>6, <1>1, <1>12, SetTopSound
  <2> QED  BY <2>4, <2>7
<1>19. Dead(e) => Dead(z)  BY <1>15, <1>16, DeadRegrown
<1> QED  BY <1>1, <1>11, <1>12, <1>13, <1>14, <1>15, <1>16, <1>17, <1>18, <1>19

\* A running coroutine resumes itself: there is only an error message to return.
LEMMA ResumeErrorSelf ==
    ASSUME NEW S, Good(S), NEW t, t = S.L[S.cur], NEW b, b = S.cs[Len(S.cs)], b.k = "c", b.f \in {"resume", "wrap"},
           t.nCcalls < Limit
    PROVE  IInv(ResumeError(S, S.cur))
<1>1. S \in StateT /\ S.cur \in Thread /\ t \in ThreadT /\ Sound(t)  BY GoodFacts
<1>2. ~ t.ci[Len(t.ci)].lua /\ Nested(t.ci)  BY <1>1, HostFacts DEF Sound
<1>3. PICK p : p = t.ci[Len(t.ci)].base  OBVIOUS
<1>4. PICK r : r = Push(SetTop(t, p), Value)  OBVIOUS
<1>5. PICK z : z = SetTop(r, Len(r.stack))  OBVIOUS
<1>6. /\ r \in ThreadT /\ Regrown(t, r) /\ Len(r.stack) = p /\ p \in Nat /\ p >= 2 /\ p + 1 <= StackLast(r)
      /\ Sound(r)
  <2>1. Fails(t, p, r, z)  BY <1>1, <1>2, <1>3, <1>4, <1>5 DEF Fails
  <2> QED  BY <2>1, <1>1, <1>2, ErrorThread
<1>7. PICK W : W = With(S, r)  OBVIOUS
<1>8. W \in StateT /\ Moves(S, W, r) /\ W.cs = S.cs /\ W.cur = S.cur /\ W.L[S.cur] = r
  BY <1>1, <1>6, <1>7, WithFacts
<1>9. Shares(t, r) /\ SameInfos(t, r)  BY <1>1, <1>6, RegrownSame
<1>10. r.base + 1 <= Len(r.stack) + 1
  <2>1. r.base = p  BY <1>1, <1>3, <1>6 DEF Regrown, SameCalls, Sound
  <2> QED  BY <2>1, <1>6
<1>11. Given(S, W, r, 1)  BY <1>6, <1>8, <1>9, <1>10 DEF Given
<1>12. IInv(EndResume(W, 1, FALSE))
  <2>1. FALSE \in BOOLEAN /\ 1 >= 1  OBVIOUS
  <2> QED  BY <2>1, <1>11, EndResumeInv
<1>13. ResumeError(S, S.cur) = EndResume(W, 1, FALSE)
  <2>1. PICK cu : cu = S.cur  OBVIOUS
  <2>2. [S EXCEPT !.L[cu] = Push(SetTop(t, CI(t).base), Value)] = W
    <3>1. CI(t) = t.ci[Len(t.ci)]  BY DEF CI, Last
    <3> QED  BY <3>1, <2>1, <1>3, <1>4, <1>7 DEF With
  <2>3. ResumeError(S, cu) = Resumed(W, cu, FALSE)  BY <2>1, <2>2 DEF ResumeError
  <2>4. W.L[cu] = r /\ W.cur = cu  BY <2>1, <1>8
  <2>5. PICK vals : vals = SubSeq(r.stack, Len(r.stack), Len(r.stack))  OBVIOUS
  <2>6. Len(vals) = 1
    <3>1. r.stack \in Seq(Int) /\ p \in 1..Len(r.stack)  BY <1>6, ThreadFacts
    <3>2. \A i \in p..p : i \in 1..Len(r.stack)  BY <3>1, <1>6
    <3>3. Len(SubSeq(r.stack, p, p)) = p - p + 1  BY <3>1, <3>2, <1>6, SubSeqProperties
    <3> QED  BY <3>3, <2>5, <1>6
  <2>7. Resumed(W, cu, FALSE) = EndResume(W, Len(vals), FALSE)  BY <2>4, <2>5 DEF Resumed
  <2> QED  BY <2>1, <2>3, <2>6, <2>7
<1> QED  BY <1>12, <1>13

\* A thread that does not run, and cannot be resumed.
LEMMA ResumeErrorOther ==
    ASSUME NEW D, Good(D), Awaits(D), NEW co, NEW X, Alters(D, X, co), NEW c, c = D.L[co], NEW e, e = X.L[co],
           Regrown(c, e), Sound(c) => Sound(e), Dead(c) => Dead(e)
    PROVE  IInv(ResumeError(X, co))
<1>1. X \in StateT /\ X.cs = D.cs /\ X.cur = D.cur /\ co \in Thread /\ co # D.cur
      /\ \A o \in Thread : o # co => X.L[o] = D.L[o]
  BY DEF Alters
<1>2. e \in ThreadT /\ D \in StateT /\ c \in ThreadT /\ X.cur \in Thread
  <2>1. e \in ThreadT  BY <1>1, StateFacts
  <2>2. D \in StateT  BY GoodFacts
  <2>3. c \in ThreadT /\ D.cur \in Thread  BY <2>2, <1>1, StateFacts
  <2> QED  BY <2>1, <2>2, <2>3, <1>1
<1>3. PICK b : b = D.cs[Len(D.cs)]  OBVIOUS
<1>4. b.k = "c" /\ b.f \in {"resume", "wrap"}  BY <1>3 DEF Awaits
<1>5. /\ Nested(c.ci) /\ Len(c.ci) >= 1
      /\ c.status # "err" => Sound(c) /\ ~ c.ci[Len(c.ci)].lua
      /\ c.status = "err" => Dead(c)
  BY <1>1, <1>3, <1>4, SubjectFacts
<1>6. e.ci = c.ci /\ e.status = c.status  BY DEF Regrown, SameCalls
<1>7. Nested(e.ci) /\ (Dead(e) \/ (Sound(e) /\ ~ e.ci[Len(e.ci)].lua))  BY <1>5, <1>6
<1>8. PICK p : p = e.ci[Len(e.ci)].base  OBVIOUS
<1>9. PICK r : r = Push(SetTop(e, p), Value)  OBVIOUS
<1>10. PICK z : z = SetTop(r, Len(r.stack))  OBVIOUS
<1>11. /\ r \in ThreadT /\ Regrown(e, r) /\ Len(r.stack) = p /\ p \in Nat /\ p >= 2
       /\ Sound(e) /\ ~ e.ci[Len(e.ci)].lua => Sound(r) /\ Sound(z)
       /\ z \in ThreadT /\ Regrown(e, z) /\ Len(z.stack) = p - 1 /\ Fits(z)
       /\ Dead(e) => Dead(z)
  <2>1. Fails(e, p, r, z)  BY <1>7, <1>8, <1>9, <1>10 DEF Fails
  <2> QED  BY <2>1, <1>2, ErrorThread
<1>12. Regrown(c, z)  BY <1>2, <1>11, RegrownTwice
<1>13. Shares(c, z) /\ SameInfos(c, z) /\ z.ci = c.ci /\ z.status = c.status /\ z.nCcalls = c.nCcalls
  BY <1>2, <1>12, RegrownSame DEF Regrown, SameCalls
<1>14. PICK P : P = [X EXCEPT !.L[co] = r]  OBVIOUS
<1>15. P \in StateT /\ P.cs = X.cs /\ P.cur = X.cur /\ P.L[co] = r /\ \A o \in Thread : o # co => P.L[o] = X.L[o]
  <2>1. P = One(X, co, r)  BY <1>14 DEF One
  <2>2. co \in Thread /\ X \in StateT /\ r \in ThreadT  BY <1>1, <1>11
  <2>3. P \in StateT  BY <2>1, <2>2, OneFacts
  <2>4. P.cs = X.cs /\ P.cur = X.cur  BY <2>1, <2>2, OneFacts
  <2>5. P.L[co] = r  BY <2>1, <2>2, OneFacts
  <2>6. \A o \in Thread : o # co => P.L[o] = X.L[o]  BY <2>1, <2>2, OneFacts
  <2> QED  BY <2>3, <2>4, <2>5, <2>6
<1>16. PICK Q : Q = [X EXCEPT !.L[co] = z]  OBVIOUS
<1>17. Q \in StateT /\ Q.cs = X.cs /\ Q.cur = X.cur /\ Q.L[co] = z /\ \A o \in Thread : o # co => Q.L[o] = X.L[o]
  <2>1. Q = One(X, co, z)  BY <1>16 DEF One
  <2>2. co \in Thread /\ X \in StateT /\ z \in ThreadT  BY <1>1, <1>11
  <2>3. Q \in StateT  BY <2>1, <2>2, OneFacts
  <2>4. Q.cs = X.cs /\ Q.cur = X.cur  BY <2>1, <2>2, OneFacts
  <2>5. Q.L[co] = z  BY <2>1, <2>2, OneFacts
  <2>6. \A o \in Thread : o # co => Q.L[o] = X.L[o]  BY <2>1, <2>2, OneFacts
  <2> QED  BY <2>3, <2>4, <2>5, <2>6
<1>18. PICK C : C = D.cs  OBVIOUS
<1>19. C \in Seq(CFrame) /\ Shape(C) /\ InStep(c, C, co) /\ Fine(c, C, co)
  BY <1>1, <1>18, GoodFacts DEF Good, Core
<1>20. InStep(z, C, co)  BY <1>2, <1>5, <1>13, <1>19, InStepAgain
<1>21. Caught(z, C, co) /\ Waits(z, C, co)
  <2>1. CASE HasFrames(C, co)
    <3>1. /\ c.nCcalls < Limit
          /\ \A i \in Pcalls(C, co) : C[i].oldtop \in Nat /\ C[i].oldtop <= c.ci[Len(c.ci)].func
      BY <1>1, <1>18, <2>1, WaiterFacts
    <3>2. c.ci \in Seq(CallInfo)  BY <1>2, ThreadFacts
    <3>3. c.ci[Len(c.ci)].func \in Nat /\ c.ci[Len(c.ci)].func < p /\ p < c.ci[Len(c.ci)].top
          /\ c.ci[Len(c.ci)].top \in Nat /\ Len(c.ci) \in 1..Len(c.ci) /\ Len(c.ci) \in Nat
      BY <3>2, <1>5, <1>6, <1>8, NestedFacts
    <3>4. Waits(z, C, co)
      <4>1. p - 1 + 2 <= c.ci[Len(c.ci)].top
        <5>1. PICK q : q = c.ci[Len(c.ci)].top  OBVIOUS
        <5> QED  BY <5>1, <3>3, <1>11
      <4> QED  BY <4>1, <3>1, <1>11, <1>13 DEF Waits
    <3>5. Caught(z, C, co)
      <4> SUFFICES ASSUME NEW i \in Pcalls(C, co)
                   PROVE  /\ C[i].oldtop <= Len(z.stack) + 1 /\ z.ci[C[i].ci].base <= C[i].oldtop
                          /\ C[i].oldtop < z.ci[C[i].ci].top
                          /\ \A d \in (C[i].ci + 1)..Len(z.ci) : C[i].oldtop <= z.ci[d].func
        BY DEF Caught
      <4>1. PICK q : q = c.ci[Len(c.ci)].func  OBVIOUS
      <4>2. PICK o : o = C[i].oldtop  OBVIOUS
      <4>3. o \in Nat /\ o <= q /\ q \in Nat /\ q < p  BY <3>1, <3>3, <4>1, <4>2
      <4>4. o <= p - 1 + 1  BY <4>3, <1>11
      <4> QED  BY <4>2, <4>4, <1>11, <1>13, <1>19 DEF Fine, Caught
    <3> QED  BY <3>4, <3>5
  <2>2. CASE ~ HasFrames(C, co)  BY <2>2, <1>19, SleeperFine
  <2> QED  BY <2>1, <2>2
<1>22. Fine(z, C, co)
  <2>1. c.status # "err" => Sound(z)  BY <1>5, <1>6, <1>11
  <2>2. c.status = "err" => Dead(z)  BY <1>5, <1>11
  <2>3. z.nCcalls <= Limit  BY <1>13, <1>19 DEF Fine
  <2> QED  BY <2>1, <2>2, <2>3, <1>11, <1>13, <1>21 DEF Fine
<1>23. Good(Q) /\ Q.cur = D.cur /\ Q.cs = D.cs
  <2>1. Alters(D, Q, co)  BY <1>1, <1>17 DEF Alters
  <2> QED  BY <2>1, <1>17, <1>18, <1>20, <1>22, <1>1, GoodOther
<1>24. Awaits(Q)
  <2>1. Q.L[Q.cur] = D.L[D.cur]
    <3>1. D.cur \in Thread  BY <1>2, StateFacts
    <3> QED  BY <3>1, <1>1, <1>17
  <2> QED  BY <2>1, <1>23 DEF Awaits
<1>25. Alters(P, Q, co)  BY <1>1, <1>15, <1>17 DEF Alters
<1>26. Gives(P, Q, co, FALSE, p)
  <2>1. p >= 1 /\ p <= Len(r.stack) + 1 /\ p = Len(r.stack)  BY <1>11
  <2>2. z = SetTop(r, p)  BY <1>10, <2>1
  <2> QED  BY <2>1, <2>2, <1>11, <1>15, <1>17 DEF Gives
<1>27. IInv(Resumed(P, co, FALSE))  BY <1>15, <1>23, <1>24, <1>25, <1>26, ResumedInv
<1>28. ResumeError(X, co) = Resumed(P, co, FALSE)
  <2>1. CI(e) = e.ci[Len(e.ci)]  BY DEF CI, Last
  <2> QED  BY <2>1, <1>8, <1>9, <1>14 DEF ResumeError
<1> QED  BY <1>27, <1>28

\* The setjmp of a resume is added: the thread that resumed waits, as it may.
LEMMA EnterFine ==
    ASSUME NEW C \in Seq(CFrame), NEW f \in CFrame, f.k = "resume", NEW o, f.th # o, NEW t, Fine(t, C, o),
           f.from = o => Len(t.stack) + 2 <= t.ci[Len(t.ci)].top /\ t.nCcalls < Limit
    PROVE  Fine(t, Append(C, f), o)
<1>1. PICK E : E = Append(C, f)  OBVIOUS
<1>2. PICK n : n = Len(C)  OBVIOUS
<1>3. E \in Seq(CFrame) /\ Len(E) = n + 1 /\ E[n + 1] = f /\ n \in Nat /\ \A i \in 1..n : E[i] = C[i]
  BY <1>1, <1>2, AppendFacts
<1>4. Pcalls(E, o) = Pcalls(C, o)
  <2>1. \A i : i \in 1..(n + 1) <=> i \in 1..n \/ i = n + 1  BY <1>3
  <2> QED  BY <2>1, <1>2, <1>3 DEF Pcalls
<1>5. \A i \in Pcalls(C, o) : E[i] = C[i]  BY <1>2, <1>3 DEF Pcalls
<1>6. Caught(t, E, o)  BY <1>4, <1>5 DEF Fine, Caught
<1>7. Waits(t, E, o)
  <2> SUFFICES ASSUME NEW i \in 1..(n + 1), E[i].k = "resume", E[i].from = o
               PROVE  Len(t.stack) + 2 <= t.ci[Len(t.ci)].top /\ t.nCcalls < Limit
    BY <1>3 DEF Waits
  <2>1. CASE i \in 1..n  BY <2>1, <1>2, <1>3 DEF Fine, Waits
  <2>2. CASE i = n + 1  BY <2>2, <1>3
  <2> QED  BY <2>1, <2>2, <1>3
<1>8. Fine(t, E, o)  BY <1>6, <1>7 DEF Fine
<1> QED  BY <1>1, <1>8

\* The coroutine co of D comes in with the frame f.
Enters(D, T, co, f) ==
    /\ T \in StateT /\ T.cur = co /\ co \in Thread /\ ~ HasFrames(D.cs, co)
    /\ f \in CFrame /\ f.k = "resume" /\ f.th = co /\ f.from = D.cur /\ f.jmp = 0
    /\ \A o \in Thread : o # co => T.L[o] = D.L[o]
\* Nothing runs in it but its body, which has not begun.
Fresh(h, n) ==
    /\ h \in ThreadT /\ h.status = "ok" /\ h.nCcalls = 0 /\ h.errfunc = 0
    /\ Len(h.ci) = 1 /\ ~ h.ci[1].lua /\ h.jmp = n + 1

\* Who has frames below the new one.
LEMMA EntersFacts ==
    ASSUME NEW D, Good(D), Awaits(D), NEW co, NEW f, NEW T, Enters(D, T, co, f), NEW n, n = Len(D.cs)
    PROVE  /\ D.cs \in Seq(CFrame) /\ n \in Nat /\ n >= 1 /\ D.cur \in Thread /\ Core(D.L, D.cs, D.cur) /\ co # D.cur
           /\ D.cs[n].k = "c" /\ D.cs[n].f \in {"resume", "wrap"}
           /\ Pcalls(Append(D.cs, f), co) = {}
           /\ \A o \in Thread : o # co => Fine(T.L[o], Append(D.cs, f), o)
<1>1. /\ D.cs \in Seq(CFrame) /\ n \in Nat /\ n >= 1 /\ D.cur \in Thread /\ Core(D.L, D.cs, D.cur)
      /\ D.cs[n].th = D.cur
  BY GoodFacts
<1>2. D.cs[n].k = "c" /\ D.cs[n].f \in {"resume", "wrap"}  BY DEF Awaits
<1>3. /\ co \in Thread /\ ~ HasFrames(D.cs, co)
      /\ f \in CFrame /\ f.k = "resume" /\ f.th = co /\ f.from = D.cur
      /\ \A o \in Thread : o # co => T.L[o] = D.L[o]
  BY DEF Enters
<1>4. co # D.cur
  <2>1. n \in 1..Len(D.cs)  BY <1>1
  <2> QED  BY <2>1, <1>1, <1>3 DEF HasFrames
<1>5. Pcalls(Append(D.cs, f), co) = {}
  <2>1. PICK E : E = Append(D.cs, f)  OBVIOUS
  <2>2. Len(E) = n + 1 /\ E[n + 1] = f /\ \A i \in 1..n : E[i] = D.cs[i]  BY <1>1, <1>3, <2>1, AppendFacts
  <2>3. ASSUME NEW i \in 1..(n + 1), E[i].k = "pcall", E[i].th = co PROVE FALSE
    <3>1. CASE i = n + 1  BY <3>1, <2>2, <2>3, <1>3
    <3>2. CASE i \in 1..n  BY <3>2, <2>2, <2>3, <1>3 DEF HasFrames
    <3> QED  BY <3>1, <3>2, <1>1
  <2>4. Pcalls(E, co) = {}  BY <2>2, <2>3 DEF Pcalls
  <2> QED  BY <2>1, <2>4
<1>6. ASSUME NEW o \in Thread, o # co PROVE Fine(T.L[o], Append(D.cs, f), o)
  <2>1. Fine(D.L[o], D.cs, o)  BY DEF Good
  <2>2. PICK t : t = D.L[o]  OBVIOUS
  <2>3. f.from = o => Len(t.stack) + 2 <= t.ci[Len(t.ci)].top /\ t.nCcalls < Limit
    BY <2>2, <1>3 DEF Awaits
  <2>4. f.th # o  BY <1>3, <1>6
  <2>5. Fine(t, Append(D.cs, f), o)  BY <2>1, <2>2, <2>3, <2>4, <1>1, <1>3, EnterFine
  <2> QED  BY <2>2, <2>5, <1>3, <1>6
<1> QED  BY <1>1, <1>2, <1>4, <1>5, <1>6

\* Its stack of frames is in step.
LEMMA FreshCore ==
    ASSUME NEW D, Good(D), Awaits(D), NEW co, NEW f, NEW T, Enters(D, T, co, f),
           NEW after, \A o \in Thread : o # co => after[o] = D.L[o], NEW h, h = after[co], Fresh(h, Len(D.cs))
    PROVE  Core(after, Append(D.cs, f), co)
<1>1. PICK C : C = D.cs  OBVIOUS
<1>2. PICK n : n = Len(C)  OBVIOUS
<1>3. /\ C \in Seq(CFrame) /\ n \in Nat /\ n >= 1 /\ D.cur \in Thread /\ Core(D.L, C, D.cur)
      /\ C[n].k = "c" /\ C[n].f \in {"resume", "wrap"}
  BY <1>1, <1>2, EntersFacts
<1>4. /\ co \in Thread /\ ~ HasFrames(C, co)
      /\ f \in CFrame /\ f.k = "resume" /\ f.th = co /\ f.from = D.cur /\ f.jmp = 0
  BY <1>1 DEF Enters
<1>5. after[co].status = "ok" /\ after[co].nCcalls = 0 /\ after[co].errfunc = 0
      /\ Len(after[co].ci) = 1 /\ ~ after[co].ci[1].lua /\ after[co].jmp = Len(C) + 1
  BY <1>1 DEF Fresh
<1>6. Core(after, Append(C, f), co)  BY <1>2, <1>3, <1>4, <1>5, CoreEnter
<1> QED  BY <1>1, <1>6

\* The body may begin.
LEMMA FreshGood ==
    ASSUME NEW D, Good(D), Awaits(D), NEW co, NEW f, NEW T, Enters(D, T, co, f), T.cs = Append(D.cs, f),
           NEW h, h = T.L[co], Fresh(h, Len(D.cs)), Sound(h), Fits(h)
    PROVE  Good(T)
<1>1. PICK E : E = Append(D.cs, f)  OBVIOUS
<1>2. T \in StateT /\ T.cur = co /\ co \in Thread /\ \A o \in Thread : o # co => T.L[o] = D.L[o]  BY DEF Enters
<1>3. Pcalls(E, co) = {} /\ \A o \in Thread : o # co => Fine(T.L[o], E, o)
  <2>1. PICK n : n = Len(D.cs)  OBVIOUS
  <2>2. Pcalls(E, co) = {}  BY <2>1, <1>1, EntersFacts
  <2>3. \A o \in Thread : o # co => Fine(T.L[o], Append(D.cs, f), o)  BY <2>1, EntersFacts
  <2> QED  BY <2>2, <2>3, <1>1
<1>4. Core(T.L, E, co)  BY <1>1, <1>2, FreshCore
<1>5. Caught(h, E, co)  BY <1>3 DEF Caught
<1>6. E \in Seq(CFrame) /\ Shape(E) /\ E[Len(E)].th = co
  <2>1. T.cs \in Seq(CFrame)  BY <1>2, StateFacts
  <2> QED  BY <2>1, <1>1, <1>4 DEF Core
<1>7. Waits(h, E, co)  BY <1>6, RunnerAwake
<1>8. Fine(h, E, co)
  <2>1. h.status = "ok" /\ h.nCcalls = 0 /\ 0 <= Limit  BY Constants DEF Fresh
  <2> QED  BY <2>1, <1>5, <1>7 DEF Fine
<1>9. \A o \in Thread : Fine(T.L[o], E, o)  BY <1>3, <1>8
<1> QED  BY <1>1, <1>2, <1>4, <1>9 DEF Good

\* resume: the body is called.
LEMMA ResumeFresh ==
    ASSUME NEW D, Good(D), Awaits(D), NEW co, NEW f, NEW T, Enters(D, T, co, f), T.cs = Append(D.cs, f),
           NEW h, h = T.L[co], Fresh(h, Len(D.cs)), Sound(h), Fits(h), h.base <= Len(h.stack) - 1
    PROVE  IInv(ResumeBody(T))
<1>1. Good(T)  BY FreshGood
<1>2. T.cur = co /\ f.k = "resume" /\ f \in CFrame  BY DEF Enters
<1>3. h \in ThreadT /\ h.status = "ok" /\ h.nCcalls = 0 /\ Len(h.ci) = 1 /\ ~ h.ci[1].lua  BY DEF Fresh
<1>4. Cur(T) = h  BY <1>2 DEF Cur
<1>5. PICK l : l = Len(h.stack)  OBVIOUS
<1>6. l \in Nat /\ h.base \in Nat /\ h.base >= 2 /\ h.base <= l - 1 /\ Top(h) = l + 1  BY <1>3, <1>5, BaseFacts, ThreadFacts
<1>7. PICK func : func = l - 1  OBVIOUS
<1>8. func \in Nat /\ h.base <= func /\ func <= l /\ func = l + 1 - 2  BY <1>6, <1>7
<1>9. Callable(h, func)
  <2>1. ~ h.ci[Len(h.ci)].lua  BY <1>3
  <2> QED  BY <2>1, <1>5, <1>8 DEF Callable
<1>10. Above(T.cs, co, func)
  <2>1. PICK n : n = Len(D.cs)  OBVIOUS
  <2>2. Pcalls(Append(D.cs, f), co) = {}  BY <2>1, EntersFacts
  <2> QED  BY <2>2 DEF Above
<1>11. T.cs[Len(T.cs)].k = "resume"
  <2>1. PICK n : n = Len(D.cs)  OBVIOUS
  <2>2. D.cs \in Seq(CFrame) /\ n \in Nat  BY <2>1, EntersFacts
  <2>3. Len(T.cs) = n + 1 /\ T.cs[n + 1] = f  BY <2>1, <2>2, <1>2, AppendFacts
  <2> QED  BY <2>3, <1>2
<1>12. Calling(T, "lua", func)
  <2>1. h.nCcalls < Limit  BY <1>3, Constants
  <2> QED  BY <2>1, <1>2, <1>9, <1>10, <1>11 DEF Calling, LuaFunctions
<1>13. IInv(Precall(T, "lua", func, MULTRET))
  <2>1. MULTRET \in {0, 1, MULTRET}  OBVIOUS
  <2> QED  BY <2>1, <1>1, <1>12, PrecallInv
<1>14. ResumeBody(T) = Precall(T, "lua", func, MULTRET)
  <2>1. Top(h) - 2 = func  BY <1>6, <1>8
  <2>2. h.status # "yield"  BY <1>3
  <2> QED  BY <2>1, <2>2, <1>4 DEF ResumeBody
<1> QED  BY <1>13, <1>14

\* A coroutine that has yielded, with the values that resume gives it.
Yielded(h, n) ==
    /\ h \in ThreadT /\ h.status = "yield" /\ h.nCcalls = 0 /\ h.errfunc = 0 /\ h.jmp = n + 1
    /\ Len(h.ci) >= 3 /\ ~ h.ci[1].lua /\ ~ h.ci[Len(h.ci)].lua /\ \A d \in 2..(Len(h.ci) - 1) : h.ci[d].lua
    /\ Sound(h) /\ Len(h.stack) <= StackLast(h) /\ h.base <= Len(h.stack)

\* w is h when its functions go on.
GoesOn(h, w) ==
    /\ w \in ThreadT /\ Sound(w) /\ Fits(w) /\ w.status = "ok" /\ w.nCcalls = 0 /\ w.errfunc = 0 /\ w.jmp = h.jmp
    /\ Len(w.ci) = Len(h.ci) - 1 /\ ~ w.ci[1].lua /\ \A d \in 2..Len(w.ci) : w.ci[d].lua

\* The end of the OP_CALL that yielded.
LEMMA GoesOnSound ==
    ASSUME NEW h, NEW n, Yielded(h, n), NEW u, u = Poscall(h, Top(h) - 1),
           NEW v, v = IF CI(h).nres = MULTRET THEN u ELSE Continue(u), NEW w, w = [v EXCEPT !.status = "ok"]
    PROVE  GoesOn(h, w) /\ Len(u.ci) = Len(h.ci) - 1
<1>1. /\ h \in ThreadT /\ h.status = "yield" /\ h.nCcalls = 0 /\ h.errfunc = 0
      /\ Len(h.ci) >= 3 /\ ~ h.ci[1].lua /\ ~ h.ci[Len(h.ci)].lua
      /\ Sound(h) /\ Len(h.stack) <= StackLast(h) /\ h.base <= Len(h.stack)
  BY DEF Yielded
<1>2. \A d \in 2..(Len(h.ci) - 1) : h.ci[d].lua  BY DEF Yielded
<1>3. PICK first : first = Len(h.stack)  OBVIOUS
<1>4. first \in Nat /\ h.base <= first /\ first <= Len(h.stack) + 1 /\ Top(h) - 1 = first
  <2>1. Len(h.stack) \in Nat /\ Top(h) = Len(h.stack) + 1  BY <1>1, ThreadFacts
  <2> QED  BY <2>1, <1>1, <1>3
<1>5. u \in ThreadT /\ Sound(u) /\ Fits(u) /\ Shares(h, u) /\ u.ci = Front(h.ci)
  <2>1. u = Poscall(h, first)  BY <1>4
  <2>2. Len(h.ci) >= 2
    <3>1. Len(h.ci) \in Nat  BY <1>1, ThreadFacts
    <3> QED  BY <3>1, <1>1
  <2> QED  BY <2>1, <2>2, <1>1, <1>4, PoscallSound
<1>6. PICK k : k = Len(h.ci)  OBVIOUS
<1>7. k \in Nat /\ k >= 3  BY <1>1, <1>6, ThreadFacts
<1>8. Len(u.ci) = k - 1 /\ \A i \in 1..(k - 1) : u.ci[i] = h.ci[i]
  <2>1. h.ci \in Seq(CallInfo) /\ Len(h.ci) >= 1  BY <1>1, <1>6, <1>7, ThreadFacts
  <2>2. PICK c : c = h.ci  OBVIOUS
  <2>3. c \in Seq(CallInfo) /\ Len(c) >= 1 /\ Len(c) = k  BY <2>1, <2>2, <1>6
  <2>4. Len(Front(c)) = Len(c) - 1 /\ \A i \in 1..(Len(c) - 1) : Front(c)[i] = c[i]  BY <2>3, FrontFacts
  <2> QED  BY <2>2, <2>3, <2>4, <1>5
<1>9. ~ u.ci[1].lua /\ \A d \in 2..(k - 1) : u.ci[d].lua
  <2>1. 1 \in 1..(k - 1) /\ \A d \in 2..(k - 1) : d \in 1..(k - 1)  BY <1>7
  <2>2. ~ h.ci[1].lua /\ \A d \in 2..(k - 1) : h.ci[d].lua  BY <1>1, <1>2, <1>6
  <2> QED  BY <2>1, <2>2, <1>8
<1>10. u.ci[Len(u.ci)].lua
  <2>1. k - 1 \in 2..(k - 1)  BY <1>7
  <2> QED  BY <2>1, <1>8, <1>9
<1>11. v \in ThreadT /\ Sound(v) /\ Fits(v) /\ v.ci = u.ci /\ Shares(u, v)
  <2>1. CASE CI(h).nres = MULTRET
    <3>1. v = u  BY <2>1
    <3> QED  BY <3>1, <1>5 DEF Shares
  <2>2. CASE CI(h).nres # MULTRET
    <3>1. v = Continue(u)  BY <2>2
    <3>2. v \in ThreadT /\ Sound(v) /\ Regrown(u, v) /\ Fits(v)  BY <3>1, <1>5, <1>10, ContinueSound
    <3> QED  BY <3>2 DEF Regrown, SameCalls, Shares
  <2> QED  BY <2>1, <2>2
<1>12. w \in ThreadT /\ SameStack(v, w) /\ w.status = "ok" /\ w.nCcalls = v.nCcalls /\ w.errfunc = v.errfunc /\ w.jmp = v.jmp
  BY <1>11 DEF ThreadT, SameStack, Statuses
<1>13. Sound(w) /\ Fits(w) /\ w.ci = u.ci  BY <1>11, <1>12, SoundSame DEF SameStack
<1>14. w.nCcalls = 0 /\ w.errfunc = 0 /\ w.jmp = h.jmp  BY <1>1, <1>5, <1>11, <1>12 DEF Shares
<1> QED  BY <1>6, <1>8, <1>9, <1>12, <1>13, <1>14 DEF GoesOn

\* A luaV_execute that runs q functions.
LEMMA ExecFrame ==
    ASSUME NEW th \in Thread, NEW q \in Nat \ {0}, NEW x, x = [k |-> "exec", th |-> th, n |-> q]
    PROVE  x \in CFrame /\ x.k = "exec" /\ x.th = th /\ x.n = q
  BY DEF CFrame

\* The frames of it, in step.
LEMMA YieldedCore ==
    ASSUME NEW D, Good(D), Awaits(D), NEW co, NEW f, NEW T, Enters(D, T, co, f),
           NEW h, Yielded(h, Len(D.cs)), NEW w, GoesOn(h, w),
           NEW x \in CFrame, x.k = "exec", x.th = co, x.n = Len(h.ci) - 2,
           NEW after, \A o \in Thread : o # co => after[o] = D.L[o], after[co] = w
    PROVE  Core(after, Append(Append(D.cs, f), x), co)
<1>1. PICK n : n = Len(D.cs)  OBVIOUS
<1>2. PICK q : q = Len(h.ci) - 2  OBVIOUS
<1>3. /\ w \in ThreadT /\ w.status = "ok" /\ w.nCcalls = 0 /\ w.errfunc = 0 /\ w.jmp = h.jmp
      /\ Len(w.ci) = Len(h.ci) - 1 /\ ~ w.ci[1].lua
  BY DEF GoesOn
<1>4. \A d \in 2..Len(w.ci) : w.ci[d].lua  BY DEF GoesOn
<1>5. h.jmp = n + 1 /\ Len(h.ci) >= 3 /\ h \in ThreadT  BY <1>1 DEF Yielded
<1>6. q \in Nat /\ q >= 1 /\ Len(w.ci) = 1 + q
  <2>1. Len(h.ci) \in Nat  BY <1>5, ThreadFacts
  <2> QED  BY <2>1, <1>2, <1>3, <1>5
<1>7. co \in Thread /\ f.k = "resume" /\ f.th = co /\ f \in CFrame /\ T \in StateT  BY DEF Enters
<1>8. x \in CFrame /\ x.k = "exec" /\ x.th = co /\ x.n = q  BY <1>2
\* the thread without the functions
<1>9. PICK s : s = SubSeq(w.ci, 1, 1)  OBVIOUS
<1>10. s \in Seq(CallInfo) /\ Len(s) = 1 /\ s[1] = w.ci[1]
  <2>1. w.ci \in Seq(CallInfo) /\ 1 \in 0..Len(w.ci)  BY <1>3, <1>6, ThreadFacts
  <2>2. s \in Seq(CallInfo) /\ Len(s) = 1 /\ \A i \in 1..1 : s[i] = w.ci[i]  BY <2>1, <1>9, PrefixFacts
  <2> QED  BY <2>2
<1>11. PICK g : g = [w EXCEPT !.ci = s]  OBVIOUS
<1>12. /\ g \in ThreadT /\ g.ci = s /\ g.status = "ok" /\ g.nCcalls = 0 /\ g.errfunc = 0 /\ g.jmp = n + 1
  BY <1>3, <1>5, <1>10, <1>11 DEF ThreadT
<1>13. Fresh(g, n)  BY <1>3, <1>10, <1>12 DEF Fresh
<1>14. PICK M : M = [o \in Thread |-> IF o = co THEN g ELSE D.L[o]]  OBVIOUS
<1>15. M[co] = g /\ \A o \in Thread : o # co => M[o] = D.L[o]  BY <1>7, <1>14
<1>16. PICK C : C = Append(D.cs, f)  OBVIOUS
<1>17. Core(M, C, co)  BY <1>1, <1>13, <1>15, <1>16, FreshCore
<1>18. C \in Seq(CFrame) /\ Len(C) = n + 1 /\ C[n + 1] = f
  <2>1. D.cs \in Seq(CFrame)  BY <1>1, EntersFacts
  <2> QED  BY <2>1, <1>1, <1>7, <1>16, AppendFacts
<1>19. CallsFrame(C[Len(C)], x)  BY <1>7, <1>8, <1>18 DEF CallsFrame
<1>20. Pushed(g, w, x, Len(C))
  <2>1. Runs(x) = q  BY <1>8 DEF Runs
  <2>2. Len(w.ci) = Len(g.ci) + Runs(x)  BY <2>1, <1>6, <1>10, <1>12
  <2>3. \A d \in 1..Len(g.ci) : w.ci[d].lua = g.ci[d].lua
    <3>1. \A d \in 1..1 : d = 1  OBVIOUS
    <3> QED  BY <3>1, <1>10, <1>12
  <2>4. \A d \in (Len(g.ci) + 1)..(Len(g.ci) + x.n) : w.ci[d].lua
    <3>1. Len(g.ci) = 1 /\ x.n = q /\ 1 + 1 = 2  BY <1>8, <1>10, <1>12
    <3> QED  BY <3>1, <1>4, <1>6
  <2>5. w.nCcalls = g.nCcalls + 0 /\ w.errfunc = g.errfunc /\ w.jmp = g.jmp  BY <1>3, <1>5, <1>12
  <2> QED  BY <2>2, <2>3, <2>4, <2>5, <1>3, <1>8 DEF Pushed
<1>21. \A o \in Thread : o # co => after[o] = M[o]  BY <1>15
<1>22. Pushed(M[co], after[co], x, Len(C))  BY <1>15, <1>20
<1>23. Core(after, Append(C, x), co)
  <2>1. x.k # "resume"  BY <1>8
  <2> QED  BY <2>1, <1>7, <1>8, <1>17, <1>18, <1>19, <1>21, <1>22, CorePush
<1> QED  BY <1>16, <1>23

\* resume: luaV_execute goes on.
LEMMA ResumeYielded ==
    ASSUME NEW D, Good(D), Awaits(D), NEW co, NEW f, NEW T, Enters(D, T, co, f), T.cs = Append(D.cs, f),
           NEW h, h = T.L[co], Yielded(h, Len(D.cs))
    PROVE  IInv(ResumeBody(T))
<1>1. T \in StateT /\ T.cur = co /\ co \in Thread /\ f \in CFrame /\ \A o \in Thread : o # co => T.L[o] = D.L[o]
  BY DEF Enters
<1>2. Cur(T) = h /\ h.status = "yield" /\ h \in ThreadT /\ Len(h.ci) \in Nat
  <2>1. Cur(T) = h /\ h.status = "yield" /\ h \in ThreadT  BY <1>1 DEF Cur, Yielded
  <2> QED  BY <2>1, ThreadFacts
<1>3. PICK u : u = Poscall(h, Top(h) - 1)  OBVIOUS
<1>4. PICK v : v = IF CI(h).nres = MULTRET THEN u ELSE Continue(u)  OBVIOUS
<1>5. PICK w : w = [v EXCEPT !.status = "ok"]  OBVIOUS
<1>6. GoesOn(h, w) /\ Len(u.ci) = Len(h.ci) - 1  BY <1>3, <1>4, <1>5, GoesOnSound
<1>7. w \in ThreadT /\ Sound(w) /\ Fits(w) /\ w.status = "ok" /\ w.nCcalls = 0  BY <1>6 DEF GoesOn
<1>8. PICK x : x = [k |-> "exec", th |-> co, n |-> Len(h.ci) - 2]  OBVIOUS
<1>9. PICK W : W = With(T, w)  OBVIOUS
<1>10. W \in StateT /\ Moves(T, W, w) /\ W.cs = T.cs /\ W.cur = co /\ W.L[co] = w
  BY <1>1, <1>7, <1>9, WithFacts
<1>11. \A o \in Thread : o # co => W.L[o] = D.L[o]  BY <1>1, <1>10 DEF Moves
<1>12. PICK C : C = Append(D.cs, f)  OBVIOUS
<1>13. PICK E : E = Append(C, x)  OBVIOUS
<1>14. Core(W.L, E, co) /\ x \in CFrame
  <2>1. PICK q : q = Len(h.ci) - 2  OBVIOUS
  <2>2. q \in Nat \ {0}
    <3>1. Len(h.ci) >= 3  BY DEF Yielded
    <3>2. PICK k : k = Len(h.ci)  OBVIOUS
    <3>3. k \in Nat /\ k >= 3 /\ q = k - 2  BY <3>1, <3>2, <2>1, <1>2
    <3> QED  BY <3>3
  <2>3. x \in CFrame /\ x.k = "exec" /\ x.th = co /\ x.n = q  BY <2>1, <2>2, <1>1, <1>8, ExecFrame
  <2>4. PICK M : M = W.L  OBVIOUS
  <2>5. M[co] = w /\ \A o \in Thread : o # co => M[o] = D.L[o]  BY <2>4, <1>10, <1>11
  <2>6. Core(M, Append(Append(D.cs, f), x), co)  BY <2>1, <2>3, <2>5, <1>6, YieldedCore
  <2> QED  BY <2>3, <2>4, <2>6, <1>12, <1>13
<1>15. PICK X : X = PushC(W, x)  OBVIOUS
<1>16. X \in StateT /\ X.L = W.L /\ X.cur = co /\ X.cs = E
  BY SMTT(30), <1>10, <1>12, <1>13, <1>14, <1>15, PushCFacts
<1>17. PICK m : m = Len(C)  OBVIOUS
<1>18. C \in Seq(CFrame) /\ m \in Nat /\ Len(E) = m + 1 /\ E[m + 1] = x /\ E \in Seq(CFrame) /\ \A i \in 1..m : E[i] = C[i]
  <2>1. C \in Seq(CFrame)  BY <1>1, <1>12, StateFacts
  <2>2. m \in Nat  BY <2>1, <1>17, LenProperties
  <2>3. E \in Seq(CFrame) /\ Len(E) = m + 1 /\ E[m + 1] = x /\ \A i \in 1..m : E[i] = C[i]
    BY <2>1, <1>13, <1>14, <1>17, AppendFacts
  <2> QED  BY <2>1, <2>2, <2>3
<1>19. x.k = "exec" /\ x.th = co  BY <1>8
<1>20. \A o \in Thread : Fine(X.L[o], E, o)
  <2> SUFFICES ASSUME NEW o \in Thread PROVE Fine(X.L[o], E, o)  OBVIOUS
  <2>0. PICK n : n = Len(D.cs)  OBVIOUS
  <2>1. CASE o # co
    <3>1. Fine(T.L[o], Append(D.cs, f), o)  BY <2>0, <2>1, EntersFacts
    <3>2. SameTo(C, E, m)  BY <1>17, <1>18 DEF SameTo
    <3>3. \A i \in (m + 1)..Len(E) : E[i].th # o /\ E[i].k # "resume"
      <4> SUFFICES ASSUME NEW i \in (m + 1)..Len(E) PROVE E[i].th # o /\ E[i].k # "resume"  OBVIOUS
      <4>1. i = m + 1  BY <1>18
      <4> QED  BY <4>1, <2>1, <1>18, <1>19
    <3>4. Fine(T.L[o], E, o)  BY <3>1, <3>2, <3>3, <1>12, <1>18, FineElsewhere
    <3> QED  BY <3>4, <2>1, <1>1, <1>11, <1>16
  <2>2. CASE o = co
    <3>1. Pcalls(C, co) = {}  BY <2>0, <1>12, EntersFacts
    <3>2. ASSUME NEW i \in 1..(m + 1), E[i].k = "pcall", E[i].th = co PROVE FALSE
      <4>1. CASE i = m + 1  BY <4>1, <3>2, <1>18, <1>19
      <4>2. CASE i \in 1..m  BY <4>2, <3>1, <3>2, <1>17, <1>18 DEF Pcalls
      <4> QED  BY <4>1, <4>2, <1>18
    <3>3. Pcalls(E, co) = {}  BY <3>2, <1>18 DEF Pcalls
    <3>4. Caught(w, E, co)  BY <3>3 DEF Caught
    <3>5. Shape(E) /\ E[Len(E)].th = co  BY <1>14 DEF Core
    <3>6. Waits(w, E, co)  BY <3>5, <1>18, RunnerAwake
    <3>7. 0 <= Limit  BY Constants
    <3>8. Fine(w, E, co)  BY <3>4, <3>6, <3>7, <1>7 DEF Fine
    <3> QED  BY <3>8, <2>2, <1>10, <1>16
  <2> QED  BY <2>1, <2>2
<1>21. Good(X)
  <2>1. Core(X.L, X.cs, X.cur)  BY <1>14, <1>16
  <2>2. \A o \in Thread : Fine(X.L[o], X.cs, o)  BY <1>16, <1>20
  <2> QED  BY <2>1, <2>2, <1>16 DEF Good
<1>22. PICK Y : Y = Do(X, "run")  OBVIOUS
<1>23. Good(Y) /\ Y.L = X.L /\ Y.cs = X.cs /\ Y.cur = X.cur /\ Y.op = "run"  BY <1>21, <1>22, GoodDo DEF Ops
<1>24. Ready(Y)
  <2>1. Y.cs[Len(Y.cs)] = x /\ Y.L[Y.cur] = w  BY <1>10, <1>16, <1>18, <1>23
  <2>2. RunReady(x, w)  BY <1>19 DEF RunReady
  <2>3. w.nCcalls < Limit  BY <1>7, Constants
  <2> QED  BY <2>1, <2>2, <2>3, <1>23 DEF Ready
<1>25. ResumeBody(T) = Y
  <2>1. Len(u.ci) - 1 = Len(h.ci) - 2  BY <1>2, <1>6
  <2>2. PICK q : q = Len(u.ci) - 1  OBVIOUS
  <2>3. x = [k |-> "exec", th |-> co, n |-> q]  BY <2>1, <2>2, <1>8
  <2>4. ResumeBody(T) = Do(PushC(With(T, [v EXCEPT !.status = "ok"]), [k |-> "exec", th |-> co, n |-> q]), "run")
    BY <2>2, <1>1, <1>2, <1>3, <1>4 DEF ResumeBody
  <2> QED  BY <2>3, <2>4, <1>5, <1>9, <1>15, <1>22
<1> QED  BY <1>23, <1>24, <1>25 DEF IInv

\* A setjmp of lua_resume.
LEMMA ResumeFrame ==
    ASSUME NEW th \in Thread, NEW o \in Thread, NEW f, f = [k |-> "resume", th |-> th, from |-> o, jmp |-> 0]
    PROVE  f \in CFrame /\ f.k = "resume" /\ f.th = th /\ f.from = o /\ f.jmp = 0
  BY DEF CFrame

\* lua_resume of another thread, with one value more on its stack.
Resumable(D, X, co) ==
    LET c == D.L[co]
        e == X.L[co]
    IN /\ Good(D) /\ Awaits(D) /\ Alters(D, X, co)
       /\ Regrown(c, e) /\ (Sound(c) => Sound(e)) /\ (Dead(c) => Dead(e)) /\ Fits(e)
       /\ Len(e.stack) = Len(c.stack) + 1 /\ (c.status = "ok" => c.base # Len(c.stack) + 1)

\* lua_resume: the body is called, the yield ends, or there is an error.
LEMMA LuaResumeInv ==
    ASSUME NEW D, NEW X, NEW co, Resumable(D, X, co)
    PROVE  IInv(LuaResume(X, co))
<1>1. PICK c : c = D.L[co]  OBVIOUS
<1>2. PICK e : e = X.L[co]  OBVIOUS
<1>3. /\ Good(D) /\ Awaits(D) /\ Alters(D, X, co)
      /\ Regrown(c, e) /\ (Sound(c) => Sound(e)) /\ (Dead(c) => Dead(e)) /\ Fits(e)
      /\ Len(e.stack) = Len(c.stack) + 1 /\ (c.status = "ok" => c.base # Len(c.stack) + 1)
  BY <1>1, <1>2 DEF Resumable
<1>4. X \in StateT /\ X.cs = D.cs /\ X.cur = D.cur /\ co \in Thread /\ co # D.cur
      /\ \A o \in Thread : o # co => X.L[o] = D.L[o]
  BY <1>3 DEF Alters
<1>5. D \in StateT /\ D.cur \in Thread /\ D.cs \in Seq(CFrame)
  <2>1. PICK n : n = Len(D.cs)  OBVIOUS
  <2> QED  BY <2>1, <1>3, GoodFacts
<1>6. e \in ThreadT /\ c \in ThreadT  BY <1>1, <1>2, <1>4, <1>5, StateFacts
<1>7. e.status = c.status /\ e.ci = c.ci /\ e.jmp = c.jmp /\ e.nCcalls = c.nCcalls /\ e.errfunc = c.errfunc /\ e.base = c.base
  BY <1>3 DEF Regrown, SameCalls
<1>8. CASE e.status # "yield" /\ (e.status # "ok" \/ Len(e.ci) > 1)
  <2>1. IInv(ResumeError(X, co))  BY <1>1, <1>2, <1>3, ResumeErrorOther
  <2>2. LuaResume(X, co) = ResumeError(X, co)  BY <1>2, <1>8 DEF LuaResume
  <2> QED  BY <2>1, <2>2
<1>9. CASE ~ (e.status # "yield" /\ (e.status # "ok" \/ Len(e.ci) > 1))
  <2>1. PICK b : b = D.cs[Len(D.cs)]  OBVIOUS
  <2>2. b.k = "c" /\ b.f \in {"resume", "wrap"}  BY <2>1, <1>3 DEF Awaits
  <2>3. /\ Len(c.ci) >= 1 /\ (c.status # "err" => Sound(c) /\ ~ c.ci[Len(c.ci)].lua)
        /\ (HasFrames(D.cs, co) => c.status = "ok" /\ Len(c.ci) >= 2)
        /\ (~ HasFrames(D.cs, co) => Sleeper(c))
    BY <1>1, <1>3, <1>4, <2>1, <2>2, SubjectFacts
  <2>4. Len(c.ci) \in Nat /\ Len(c.stack) \in Nat /\ Len(e.stack) \in Nat /\ c.base \in Nat /\ StackLast(e) \in Int
    BY <1>6, ThreadFacts
  <2>5. ~ HasFrames(D.cs, co)
    <3> SUFFICES ASSUME HasFrames(D.cs, co) PROVE FALSE  OBVIOUS
    <3>1. c.status = "ok" /\ Len(c.ci) >= 2  BY <2>3
    <3>2. Len(c.ci) > 1  BY <3>1, <2>4
    <3> QED  BY <3>1, <3>2, <1>7, <1>9
  <2>6. Sleeper(c)  BY <2>3, <2>5
  <2>7. c.status = "yield" \/ (c.status = "ok" /\ Len(c.ci) = 1)
    <3>1. c.status = "yield" \/ (c.status = "ok" /\ ~ (Len(c.ci) > 1))  BY <1>7, <1>9
    <3>2. ~ (Len(c.ci) > 1) => Len(c.ci) = 1
      <4>1. PICK k : k = Len(c.ci)  OBVIOUS
      <4>2. k \in Nat /\ k >= 1  BY <4>1, <2>3, <2>4
      <4>3. ~ (k > 1) => k = 1  BY <4>2
      <4> QED  BY <4>1, <4>3
    <3> QED  BY <3>1, <3>2
  <2>8. e.jmp = 0 /\ e.nCcalls = 0 /\ e.errfunc = 0 /\ ~ c.ci[1].lua  BY <1>7, <2>6, <2>7 DEF Sleeper
  <2>9. Sound(e) /\ ~ e.ci[Len(e.ci)].lua /\ Sound(c)  BY <1>3, <1>7, <2>3, <2>7
  <2>10. PICK n : n = Len(D.cs)  OBVIOUS
  <2>11. n \in Nat  BY <1>5, <2>10, LenProperties
  <2>12. PICK f : f = [k |-> "resume", th |-> co, from |-> D.cur, jmp |-> 0]  OBVIOUS
  <2>13. f \in CFrame /\ f.k = "resume" /\ f.th = co /\ f.from = D.cur /\ f.jmp = 0
    BY <1>4, <1>5, <2>12, ResumeFrame
  <2>14. PICK R : R = PushC(X, f)  OBVIOUS
  <2>15. R \in StateT /\ R.L = X.L /\ R.cur = X.cur /\ R.cs = Append(X.cs, f) /\ Len(R.cs) = n + 1
    BY <1>4, <2>10, <2>13, <2>14, PushCFacts
  <2>16. PICK h : h = [e EXCEPT !.jmp = n + 1]  OBVIOUS
  <2>17. /\ h \in ThreadT /\ SameStack(e, h) /\ h.status = e.status /\ h.jmp = n + 1 /\ h.nCcalls = e.nCcalls
         /\ h.errfunc = e.errfunc
    <3>1. PICK m : m = n + 1  OBVIOUS
    <3>2. m \in Nat  BY <2>11, <3>1
    <3>3. h = [e EXCEPT !.jmp = m]  BY <2>16, <3>1
    <3>4. e \in ThreadT  BY <1>6
    <3>5. h \in ThreadT /\ h.jmp = m  BY <3>2, <3>3, <3>4 DEF ThreadT
    <3>6. h.stack = e.stack /\ h.ci = e.ci /\ h.base = e.base /\ h.open = e.open /\ h.stacksize = e.stacksize
          /\ h.status = e.status /\ h.nCcalls = e.nCcalls /\ h.errfunc = e.errfunc
      BY <3>3, <3>4 DEF ThreadT
    <3> QED  BY <3>1, <3>5, <3>6 DEF SameStack
  <2>18. Sound(h) /\ Fits(h) /\ StackLast(h) = StackLast(e)  BY <1>3, <2>9, <2>17, SoundSame
  <2>19. h.ci = c.ci /\ h.stack = e.stack /\ h.base = c.base  BY <1>7, <2>17 DEF SameStack
  <2>20. PICK T : T = [[R EXCEPT !.cur = co] EXCEPT !.L[co] = h]  OBVIOUS
  <2>21. T \in StateT /\ T.cur = co /\ T.cs = R.cs /\ T.L[co] = h /\ \A o \in Thread : o # co => T.L[o] = R.L[o]
    <3>1. PICK V : V = [R EXCEPT !.cur = co]  OBVIOUS
    <3>2. V \in StateT /\ V.L = R.L /\ V.cs = R.cs /\ V.cur = co  BY <3>1, <1>4, <2>15 DEF StateT
    <3>3. T = One(V, co, h)  BY <3>1, <2>20 DEF One
    <3>4. T \in StateT  BY <3>2, <3>3, <1>4, <2>17, OneFacts
    <3>5. T.cs = V.cs /\ T.cur = V.cur  BY <3>2, <3>3, <1>4, <2>17, OneFacts
    <3>6. T.L[co] = h  BY <3>2, <3>3, <1>4, <2>17, OneFacts
    <3>7. \A o \in Thread : o # co => T.L[o] = V.L[o]  BY <3>2, <3>3, <1>4, <2>17, OneFacts
    <3> QED  BY <3>2, <3>4, <3>5, <3>6, <3>7
  <2>22. Enters(D, T, co, f)  BY <1>4, <2>5, <2>13, <2>15, <2>21 DEF Enters
  <2>23. T.cs = Append(D.cs, f)  BY <1>4, <2>15, <2>21
  <2>24. IInv(ResumeBody(T))
    <3>1. CASE c.status = "yield"
      <4>1. Len(h.ci) >= 3 /\ \A d \in 2..(Len(h.ci) - 1) : h.ci[d].lua  BY <3>1, <2>6, <2>19 DEF Sleeper
      <4>2. Len(h.stack) <= StackLast(h)
        <5>1. Len(e.stack) < StackLast(e)  BY <1>3 DEF Fits
        <5> QED  BY <5>1, <2>4, <2>18, <2>19
      <4>3. h.base <= Len(h.stack)
        <5>1. c.base <= Len(c.stack) + 1  BY <1>6, <2>9, BaseFacts
        <5> QED  BY <5>1, <1>3, <2>19
      <4>4. ~ h.ci[1].lua /\ ~ h.ci[Len(h.ci)].lua  BY <1>7, <2>8, <2>9, <2>19
      <4>5. h.status = "yield" /\ h.nCcalls = 0 /\ h.errfunc = 0 /\ h.jmp = n + 1  BY <1>7, <3>1, <2>8, <2>17
      <4>6. Yielded(h, n)  BY <4>1, <4>2, <4>3, <4>4, <4>5, <2>17, <2>18 DEF Yielded
      <4> QED  BY <4>6, <1>3, <2>10, <2>21, <2>22, <2>23, ResumeYielded
    <3>2. CASE c.status = "ok" /\ Len(c.ci) = 1
      <4>1. h.status = "ok" /\ h.nCcalls = 0 /\ h.errfunc = 0 /\ h.jmp = n + 1  BY <1>7, <3>2, <2>8, <2>17
      <4>2. Fresh(h, n)  BY <4>1, <3>2, <2>8, <2>17, <2>19 DEF Fresh
      <4>3. h.base <= Len(h.stack) - 1
        <5>1. c.base <= Len(c.stack) + 1 /\ c.base # Len(c.stack) + 1  BY <1>3, <1>6, <2>9, <3>2, BaseFacts
        <5>2. c.base <= Len(c.stack) + 1 - 1  BY <5>1, <2>4
        <5> QED  BY <5>2, <1>3, <2>19
      <4> QED  BY <4>2, <4>3, <1>3, <2>10, <2>18, <2>21, <2>22, <2>23, ResumeFresh
    <3> QED  BY <3>1, <3>2, <2>7
  <2>25. LuaResume(X, co) = ResumeBody(T)
    <3>1. R = PushC(X, [k |-> "resume", th |-> co, from |-> X.cur, jmp |-> e.jmp])  BY <1>4, <2>8, <2>12, <2>14
    <3>2. T = [R EXCEPT !.cur = co, !.L[co].jmp = Len(R.cs)]
      <4>1. R.L[co] = e  BY <1>2, <2>15
      <4>2. PICK V : V = [R EXCEPT !.cur = co]  OBVIOUS
      <4>3. V.L[co] = e  BY <4>1, <4>2, <2>15 DEF StateT
      <4>4. [V EXCEPT !.L[co].jmp = n + 1] = [V EXCEPT !.L[co] = h]  BY <4>3, <2>16
      <4> QED  BY <4>2, <4>4, <2>15, <2>20
    <3> QED  BY <3>1, <3>2, <1>2, <1>9 DEF LuaResume
  <2> QED  BY <2>24, <2>25
<1> QED  BY <1>8, <1>9

\* auxresume, with one argument for the coroutine.
LEMMA AuxResumeInv ==
    ASSUME NEW S, Good(S), NEW t, t = S.L[S.cur], NEW b, b = S.cs[Len(S.cs)], b.k = "c", b.f \in {"resume", "wrap"},
           RunReady(b, t), t.nCcalls < Limit, NEW co \in Thread
    PROVE  IInv(AuxResume(S, co))
<1>1. S \in StateT /\ S.cur \in Thread /\ t \in ThreadT /\ Sound(t) /\ Fits(t) /\ t.status = "ok"  BY GoodFacts
<1>2. PICK l : l = Len(t.stack)  OBVIOUS
<1>3. t.base + 1 <= l + 1 /\ l + 2 <= t.ci[Len(t.ci)].top  BY <1>2 DEF RunReady, Arity
<1>4. l \in Nat /\ t.base \in Nat /\ t.base >= 2 /\ t.base <= l
  <2>1. l \in Nat /\ t.base \in Nat /\ t.base >= 2  BY <1>1, <1>2, ThreadFacts, BaseFacts
  <2> QED  BY <2>1, <1>3
<1>5. l + 2 <= StackLast(t)
  <2>1. PICK p : p = t.ci[Len(t.ci)].top  OBVIOUS
  <2>2. PICK s : s = StackLast(t)  OBVIOUS
  <2>3. p \in Nat /\ s \in Int /\ p <= s /\ l + 2 <= p  BY <1>1, <1>3, <2>1, <2>2, ThreadFacts, BaseFacts
  <2> QED  BY <2>2, <2>3, <1>4
\* the thread to be resumed, with room for one more value
<1>6. PICK z : z = S.L[co]  OBVIOUS
<1>7. /\ z \in ThreadT /\ Fits(z) /\ Nested(z.ci) /\ Len(z.ci) >= 1
      /\ z.status # "err" => Sound(z) /\ ~ z.ci[Len(z.ci)].lua
      /\ z.status = "err" => Dead(z)
      /\ HasFrames(S.cs, co) => z.status = "ok" /\ Len(z.ci) >= 2
      /\ ~ HasFrames(S.cs, co) => Sleeper(z) /\ co # S.cur
  BY <1>6, SubjectFacts
<1>8. PICK c : c = CheckStackC(z, 1)  OBVIOUS
<1>9. /\ c \in ThreadT /\ Shares(z, c) /\ c.base = z.base /\ c.stack = z.stack /\ c.open = z.open
      /\ SameInfos(z, c) /\ Fits(c) /\ Len(z.stack) + 1 + 1 <= StackLast(c)
  <2>1. 1 \in Nat /\ Len(z.stack) <= StackLast(z)  BY <1>7, ThreadFacts DEF Fits
  <2> QED  BY <2>1, <1>7, <1>8, CheckStackCFacts
<1>10. (z.status # "err" => Sound(c)) /\ (z.status = "err" => Dead(c))
  <2>1. 1 \in Nat /\ Len(z.stack) <= StackLast(z)  BY <1>7, ThreadFacts DEF Fits
  <2> QED  BY <2>1, <1>7, <1>8, CheckStackCSound
<1>11. Roomier(z, c)  BY <1>9, <1>10 DEF Roomier
<1>12. PICK C : C = [S EXCEPT !.L[co] = c]  OBVIOUS
<1>13. C \in StateT /\ C.cs = S.cs /\ C.cur = S.cur /\ C.L[co] = c /\ \A o \in Thread : o # co => C.L[o] = S.L[o]
  <2>1. C = One(S, co, c)  BY <1>12 DEF One
  <2>2. S \in StateT /\ c \in ThreadT  BY <1>1, <1>9
  <2>3. C \in StateT  BY <2>1, <2>2, OneFacts
  <2>4. C.cs = S.cs /\ C.cur = S.cur  BY <2>1, <2>2, OneFacts
  <2>5. C.L[co] = c  BY <2>1, <2>2, OneFacts
  <2>6. \A o \in Thread : o # co => C.L[o] = S.L[o]  BY <2>1, <2>2, OneFacts
  <2> QED  BY <2>3, <2>4, <2>5, <2>6
<1>14. Good(C)  BY <1>6, <1>7, <1>11, <1>13, GoodRoomier
<1>15. C.cs[Len(C.cs)] = b  BY <1>13
<1>16. c.status = z.status /\ c.nCcalls = z.nCcalls /\ Len(c.ci) = Len(z.ci)  BY <1>9 DEF Shares, SameInfos
\* it runs already
<1>17. CASE co = S.cur
  <2>1. z = t /\ c.stack = t.stack /\ c.base = t.base /\ c.status = "ok" /\ c.nCcalls = t.nCcalls
    BY <1>1, <1>6, <1>9, <1>16, <1>17
  <2>2. Len(c.ci) > 1
    <3>1. Len(z.ci) >= 2  BY <1>7, <1>17
    <3>2. PICK k : k = Len(z.ci)  OBVIOUS
    <3>3. k \in Nat /\ k >= 2  BY <1>7, <3>1, <3>2, ThreadFacts
    <3>4. k > 1  BY <3>3
    <3> QED  BY <3>2, <3>4, <1>16
  <2>3. IInv(ResumeError(C, C.cur))
    <3>1. C.L[C.cur] = c /\ c.nCcalls < Limit  BY <1>13, <1>17, <2>1
    <3> QED  BY <3>1, <1>14, <1>15, ResumeErrorSelf
  <2>4. ~ (c.status = "ok" /\ Top(c) = c.base)
    <3>1. Top(c) = l + 1  BY <1>2, <2>1 DEF Top
    <3>2. l + 1 # t.base  BY <1>4
    <3> QED  BY <3>1, <3>2, <2>1
  <2>5. AuxResume(S, co) = LuaResume(C, co)  BY <1>6, <1>8, <1>12, <1>17, <2>4 DEF AuxResume
  <2>6. LuaResume(C, co) = ResumeError(C, co)  BY <1>13, <2>1, <2>2 DEF LuaResume
  <2> QED  BY <1>13, <1>17, <2>3, <2>5, <2>6
\* it has no body to call
<1>18. CASE co # S.cur /\ c.status = "ok" /\ Top(c) = c.base
  <2>1. C.L[C.cur] = t  BY <1>1, <1>13, <1>18
  <2>2. PICK v : v = Put(t, Value)  OBVIOUS
  <2>3. /\ v \in ThreadT /\ Sound(v) /\ Regrown(t, v) /\ Len(v.stack) = l + 1 /\ StackLast(v) = StackLast(t)
    <3>1. Value \in Int  BY DEF Value
    <3> QED  BY <3>1, <1>1, <1>2, <2>2, PutSound
  <2>4. Shares(t, v) /\ SameInfos(t, v) /\ v.base = t.base  BY <1>1, <2>3, RegrownSame DEF Regrown, SameCalls
  <2>5. PICK W : W = With(C, v)  OBVIOUS
  <2>6. W \in StateT /\ Moves(C, W, v) /\ W.cs = C.cs  BY <1>13, <2>3, <2>5, WithFacts
  <2>7. l + 1 + 1 <= StackLast(v) /\ v.base + 1 <= l + 1 + 1
    <3>1. PICK s : s = StackLast(t)  OBVIOUS
    <3>2. s \in Int /\ l + 2 <= s  BY <1>1, <1>5, <3>1, ThreadFacts
    <3>3. l + 1 + 1 <= s  BY <3>2, <1>4
    <3>4. t.base + 1 <= l + 1 + 1  BY <1>4
    <3> QED  BY <3>1, <3>3, <3>4, <2>3, <2>4
  <2>8. Given(C, W, v, 1)  BY <1>15, <2>1, <2>3, <2>4, <2>6, <2>7 DEF Given
  <2>9. IInv(EndResume(W, 1, FALSE))
    <3>1. FALSE \in BOOLEAN /\ 1 >= 1  BY DEF Given
    <3> QED  BY <3>1, <1>14, <2>8, EndResumeInv
  <2>10. AuxResume(S, co) = EndResume(W, 1, FALSE)
    <3>1. PICK cu : cu = S.cur  OBVIOUS
    <3>2. [C EXCEPT !.L[cu] = Put(@, Value)] = W  BY <3>1, <1>13, <2>1, <2>2, <2>5 DEF With
    <3>3. AuxResume(S, co) = EndResume([C EXCEPT !.L[cu] = Put(@, Value)], 1, FALSE)
      BY <3>1, <1>6, <1>8, <1>12, <1>18 DEF AuxResume
    <3> QED  BY <3>2, <3>3
  <2> QED  BY <2>9, <2>10
\* the argument moves
<1>19. CASE co # S.cur /\ ~ (c.status = "ok" /\ Top(c) = c.base)
  <2>1. C.L[C.cur] = t  BY <1>1, <1>13, <1>19
  <2>2. PICK s : s = Front(t.stack)  OBVIOUS
  <2>3. s \in Seq(Int) /\ Len(s) = l - 1 /\ \A i \in 1..(l - 1) : s[i] = t.stack[i]
    <3>1. t.stack \in Seq(Int) /\ Len(t.stack) >= 1
      <4>1. t.stack \in Seq(Int)  BY <1>1, ThreadFacts
      <4>2. l >= 1  BY <1>4
      <4> QED  BY <4>1, <4>2, <1>2
    <3> QED  BY <3>1, <1>2, <2>2, FrontFacts
  <2>4. PICK v : v = [t EXCEPT !.stack = s]  OBVIOUS
  <2>5. v \in ThreadT /\ v.stack = s /\ Regrown(t, v) /\ StackLast(v) = StackLast(t)
    <3>1. s \in Seq(Int)  BY <2>3
    <3> QED  BY <3>1, <1>1, <2>4, Restacked
  <2>6. Shares(t, v) /\ SameInfos(t, v) /\ v.base = t.base /\ v.ci = t.ci /\ v.nCcalls = t.nCcalls
    BY <1>1, <2>5, RegrownSame DEF Regrown, SameCalls
  <2>7. Sound(v)
    <3>1. v.base <= Len(v.stack) + 1
      <4>1. t.base <= l - 1 + 1  BY <1>4
      <4> QED  BY <4>1, <2>3, <2>5, <2>6
    <3>2. ~ t.ci[Len(t.ci)].lua  BY HostFacts
    <3>3. \A i \in 1..Len(t.stack) : i < t.base => i <= Len(v.stack) /\ v.stack[i] = t.stack[i]
      <4> SUFFICES ASSUME NEW i \in 1..l, i < t.base PROVE i <= l - 1 /\ s[i] = t.stack[i]  BY <1>2, <2>3, <2>5
      <4>1. i <= l - 1 /\ i \in 1..(l - 1)  BY <1>4
      <4> QED  BY <4>1, <2>3
    <3> QED  BY <3>1, <3>2, <3>3, <1>1, <2>5, SoundRestack
  <2>8. Fits(v) /\ Len(v.stack) + 2 <= v.ci[Len(v.ci)].top
    <3>1. PICK q : q = t.ci[Len(t.ci)].top  OBVIOUS
    <3>2. PICK sl : sl = StackLast(t)  OBVIOUS
    <3>3. q \in Nat /\ sl \in Int /\ l + 2 <= q /\ l + 2 <= sl
      BY <1>1, <1>3, <1>5, <3>1, <3>2, ThreadFacts, BaseFacts
    <3>4. l - 1 + 2 <= q /\ l - 1 < sl  BY <3>3, <1>4
    <3> QED  BY <3>1, <3>2, <3>4, <2>3, <2>5, <2>6 DEF Fits
  <2>9. PICK D : D = With(C, v)  OBVIOUS
  <2>10. D \in StateT /\ Moves(C, D, v) /\ D.cs = C.cs /\ D.cur = C.cur /\ D.L[C.cur] = v
    BY <1>13, <2>5, <2>9, WithFacts
  <2>11. Good(D)
    <3>1. C.cs[Len(C.cs)].k \in {"exec", "c"}  BY <1>15
    <3> QED  BY <3>1, <1>14, <2>1, <2>6, <2>7, <2>8, <2>10, GoodAgain
  <2>12. Awaits(D)  BY <1>15, <2>6, <2>8, <2>10 DEF Awaits
  <2>13. D.L[co] = c  BY <1>13, <1>19, <2>10 DEF Moves
  <2>14. PICK e : e = Put(c, Value)  OBVIOUS
  <2>15. e \in ThreadT /\ Regrown(c, e) /\ Len(e.stack) = Len(c.stack) + 1 /\ StackLast(e) = StackLast(c)
    <3>1. PICK w : w = Append(c.stack, Value)  OBVIOUS
    <3>2. c.stack \in Seq(Int) /\ Value \in Int  BY <1>9, ThreadFacts DEF Value
    <3>3. w \in Seq(Int) /\ Len(w) = Len(c.stack) + 1  BY <3>1, <3>2, AppendFacts
    <3>4. e = [c EXCEPT !.stack = w]  BY <2>14, <3>1 DEF Put
    <3>5. e \in ThreadT /\ e.stack = w /\ Regrown(c, e) /\ StackLast(e) = StackLast(c)  BY <3>3, <3>4, <1>9, Restacked
    <3> QED  BY <3>3, <3>5
  <2>16. Sound(c) => Sound(e)
    <3>1. Value \in Int  BY DEF Value
    <3> QED  BY <3>1, <1>9, <2>14, PutSound
  <2>17. Dead(c) => Dead(e)  BY <1>9, <2>15, DeadRegrown
  <2>18. Fits(e)
    <3>1. PICK m : m = Len(c.stack)  OBVIOUS
    <3>2. PICK sl : sl = StackLast(c)  OBVIOUS
    <3>3. m \in Nat /\ sl \in Int /\ m + 1 + 1 <= sl  BY <1>9, <3>1, <3>2, ThreadFacts
    <3>4. m + 1 < sl  BY <3>3
    <3> QED  BY <3>1, <3>2, <3>4, <2>15 DEF Fits
  <2>19. PICK X : X = [C EXCEPT !.L[co] = e, !.L[C.cur] = v]  OBVIOUS
  <2>20. X \in StateT /\ X.cs = C.cs /\ X.cur = C.cur /\ X.L[co] = e /\ X.L[C.cur] = v
         /\ \A o \in Thread : o # co /\ o # C.cur => X.L[o] = C.L[o]
    <3>1. PICK cu : cu = C.cur  OBVIOUS
    <3>2. cu \in Thread /\ co # cu /\ e \in ThreadT /\ v \in ThreadT /\ C \in StateT
      BY <3>1, <1>1, <1>13, <1>19, <2>5, <2>15
    <3>3. X = Both(C, co, e, cu, v)  BY <3>1, <2>19 DEF Both
    <3>4. X \in StateT  BY <3>2, <3>3, TwoFacts
    <3>5. X.cs = C.cs  BY <3>2, <3>3, TwoFacts
    <3>6. X.cur = C.cur  BY <3>2, <3>3, TwoFacts
    <3>7. X.L[co] = e  BY <3>2, <3>3, TwoFacts
    <3>8. X.L[cu] = v  BY <3>2, <3>3, TwoFacts
    <3>9. \A o \in Thread : o # co /\ o # cu => X.L[o] = C.L[o]  BY SMTT(30), <3>2, <3>3, TwoFacts
    <3> QED  BY <3>1, <3>4, <3>5, <3>6, <3>7, <3>8, <3>9
  <2>21. Alters(D, X, co)
    <3>1. \A o \in Thread : o # co => X.L[o] = D.L[o]
      <4> SUFFICES ASSUME NEW o \in Thread, o # co PROVE X.L[o] = D.L[o]  OBVIOUS
      <4>1. CASE o = C.cur  BY <4>1, <2>10, <2>20
      <4>2. CASE o # C.cur  BY <4>2, <2>10, <2>20 DEF Moves
      <4> QED  BY <4>1, <4>2
    <3> QED  BY <3>1, <1>13, <1>19, <2>10, <2>20 DEF Alters
  <2>22. c.status = "ok" => c.base # Len(c.stack) + 1  BY <1>19 DEF Top
  <2>23. Resumable(D, X, co)
    BY <2>11, <2>12, <2>13, <2>15, <2>16, <2>17, <2>18, <2>20, <2>21, <2>22 DEF Resumable
  <2>24. IInv(LuaResume(X, co))  BY <2>23, LuaResumeInv
  <2>25. AuxResume(S, co) = LuaResume(X, co)
    <3>1. PICK cu : cu = S.cur  OBVIOUS
    <3>2. X = [C EXCEPT !.L[co] = Put(c, Value), !.L[cu].stack = Front(@)]
      <4>1. PICK M : M = [C EXCEPT !.L[co] = e]  OBVIOUS
      <4>2. M.L[cu] = t
        <5>1. M = One(C, co, e)  BY <4>1 DEF One
        <5>2. \A o \in Thread : o # co => M.L[o] = C.L[o]  BY <5>1, <1>13, <2>15, OneFacts
        <5> QED  BY <5>2, <3>1, <1>1, <1>13, <1>19, <2>1
      <4>3. C.L[cu] = t  BY <3>1, <1>1, <1>13, <1>19, <2>1
      <4>4. PICK w : w = Front(C.L[cu].stack)  OBVIOUS
      <4>5. X = [M EXCEPT !.L[cu] = v]  BY <4>1, <3>1, <1>13, <2>19
      <4>6. [M EXCEPT !.L[cu].stack = w] = [M EXCEPT !.L[cu] = v]  BY <4>2, <4>3, <4>4, <2>2, <2>4
      <4>7. [C EXCEPT !.L[co] = e, !.L[cu].stack = w] = [M EXCEPT !.L[cu].stack = w]  BY <4>1
      <4>8. [C EXCEPT !.L[co] = Put(c, Value), !.L[cu].stack = Front(@)]
              = [C EXCEPT !.L[co] = e, !.L[cu].stack = w]
        BY <4>4, <2>14
      <4> QED  BY <4>5, <4>6, <4>7, <4>8
    <3>3. AuxResume(S, co) = LuaResume([C EXCEPT !.L[co] = Put(c, Value), !.L[cu].stack = Front(@)], co)
      BY <3>1, <1>6, <1>8, <1>12, <1>19 DEF AuxResume
    <3> QED  BY <3>2, <3>3
  <2> QED  BY <2>24, <2>25
<1> QED  BY <1>17, <1>18, <1>19
=============================================================================
