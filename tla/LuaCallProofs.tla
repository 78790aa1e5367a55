--------------------------- MODULE LuaCallProofs ----------------------------
(***************************************************************************)
(* The specification of calls, errors and coroutines: what a program may do*)
(* at any point keeps every thread in step with the C stack, and with that *)
(* the properties hold.                                                    *)
(***************************************************************************)
EXTENDS LuaCallStepProofs

-----------------------------------------------------------------------------
(* Steps of a program *)

\* The thread that stack_init makes.
LEMMA StackInitFacts ==
    ASSUME NEW t, t = StackInit
    PROVE  /\ t \in ThreadT /\ t.status = "ok" /\ t.base = 2 /\ t.nCcalls = 0 /\ t.errfunc = 0 /\ t.jmp = 0
           /\ t.stack = <<Nil>> /\ Len(t.stack) = 1 /\ Len(t.ci) = 1 /\ ~ t.ci[1].lua
           /\ Sound(t) /\ StackLast(t) >= 3
<1>1. PICK c : c = [func |-> 1, base |-> 2, top |-> 2 + MinStack, nres |-> 0, lua |-> FALSE]  OBVIOUS
<1>2. c \in CallInfo /\ c.func = 1 /\ c.base = 2 /\ c.top = 2 + MinStack /\ c.lua = FALSE
  <2>1. 2 + MinStack \in Nat  BY Constants
  <2> QED  BY <1>1, <2>1 DEF CallInfo
<1>3. PICK ci : ci = <<c>>  OBVIOUS
<1>4. ci \in Seq(CallInfo) /\ Len(ci) = 1 /\ ci[1] = c  BY <1>2, <1>3
<1>5. PICK s : s = <<Nil>>  OBVIOUS
<1>6. s \in Seq(Int) /\ Len(s) = 1
  <2>1. Nil \in Int  BY DEF Nil
  <2> QED  BY <1>5, <2>1
<1>7. PICK size : size = BasicStack + ExtraStack  OBVIOUS
<1>8. size \in Nat  BY <1>7, Constants
<1>9. t = [status |-> "ok", base |-> 2, nCcalls |-> 0, errfunc |-> 0, jmp |-> 0, sizeci |-> BasicCI,
           stacksize |-> size, open |-> {}, stack |-> s, ci |-> ci]
  BY <1>1, <1>3, <1>5, <1>7 DEF StackInit
<1>10. t \in ThreadT
  <2>1. {} \in SUBSET Nat /\ BasicCI \in Nat /\ "ok" \in Statuses  BY Constants DEF Statuses
  <2> QED  BY <1>4, <1>6, <1>8, <1>9, <2>1 DEF ThreadT
<1>11. /\ t.status = "ok" /\ t.base = 2 /\ t.nCcalls = 0 /\ t.errfunc = 0 /\ t.jmp = 0 /\ t.open = {}
       /\ t.stack = s /\ t.ci = ci /\ t.stacksize = size
  BY <1>9
<1>12. StackLast(t) >= 3 /\ StackLast(t) >= 2 + MinStack
  <2>1. StackLast(t) = BasicStack - 1  BY <1>7, <1>8, <1>11, Constants DEF StackLast
  <2> QED  BY <2>1, Constants
<1>13. Sound(t)
  <2>1. Nested(ci)
    <3>1. 2 < 2 + MinStack  BY Constants
    <3> QED  BY <1>2, <1>4, <3>1 DEF Nested
  <2>2. Owned(t)  BY <1>11 DEF Owned
  <2>3. Locals(t)  BY <1>2, <1>4, <1>11 DEF Locals
  <2>4. \A d \in 1..Len(t.ci) : t.ci[d].top <= StackLast(t)
    <3>1. t.ci[1].top <= StackLast(t)
      <4>1. PICK sl : sl = StackLast(t)  OBVIOUS
      <4>2. sl \in Int  BY <1>10, <4>1, ThreadFacts
      <4>3. 2 + MinStack <= sl  BY <1>12, <4>1, <4>2, Constants
      <4> QED  BY <1>2, <1>4, <1>11, <4>1, <4>3
    <3>2. \A d \in 1..1 : d = 1  OBVIOUS
    <3>3. Len(t.ci) = 1  BY <1>4, <1>11
    <3> QED  BY <3>1, <3>2, <3>3
  <2>5. t.base = t.ci[Len(t.ci)].base /\ t.base <= Len(t.stack) + 1
    <3>1. t.base = 2 /\ t.ci[Len(t.ci)].base = 2  BY <1>2, <1>4, <1>11
    <3>2. Len(t.stack) = 1  BY <1>6, <1>11
    <3> QED  BY <3>1, <3>2
  <2>6. Nested(t.ci)  BY <2>1, <1>11
  <2> QED  BY <2>2, <2>3, <2>4, <2>5, <2>6 DEF Sound
<1> QED  BY <1>2, <1>4, <1>5, <1>6, <1>10, <1>11, <1>12, <1>13

\* lua_newthread, with the body on its stack.
LEMMA NewThread ==
    ASSUME NEW z, z = Put(StackInit, Value)
    PROVE  z \in ThreadT /\ Sound(z) /\ Fits(z) /\ Sleeper(z) /\ z.status = "ok"
<1>1. PICK t : t = StackInit  OBVIOUS
<1>2. /\ t \in ThreadT /\ t.status = "ok" /\ t.nCcalls = 0 /\ t.errfunc = 0 /\ t.jmp = 0
      /\ Len(t.stack) = 1 /\ Len(t.ci) = 1 /\ ~ t.ci[1].lua /\ Sound(t) /\ StackLast(t) >= 3
  BY <1>1, StackInitFacts
<1>3. z \in ThreadT /\ Sound(z) /\ Regrown(t, z) /\ Len(z.stack) = 1 + 1 /\ StackLast(z) = StackLast(t)
  <2>1. Value \in Int  BY DEF Value
  <2> QED  BY <1>1, <1>2, <2>1, PutSound
<1>4. Fits(z)
  <2>1. PICK sl : sl = StackLast(z)  OBVIOUS
  <2>2. sl \in Int /\ sl >= 3  BY <1>2, <1>3, <2>1, ThreadFacts
  <2>3. 1 + 1 < sl  BY <2>2
  <2> QED  BY <1>3, <2>1, <2>3 DEF Fits
<1>5. z.status = "ok" /\ z.nCcalls = 0 /\ z.errfunc = 0 /\ z.jmp = 0 /\ z.ci = t.ci
  BY <1>2, <1>3 DEF Regrown, SameCalls
<1>6. Sleeper(z)
  <2>1. 0 <= Limit  BY Constants
  <2> QED  BY <1>2, <1>5, <2>1 DEF Sleeper
<1> QED  BY <1>3, <1>4, <1>5, <1>6

\* luaB_cocreate: the thread it makes is asleep.
LEMMA CoCreateInv ==
    ASSUME NEW S, Good(S), NEW t, t = S.L[S.cur], NEW b, b = S.cs[Len(S.cs)], b.k = "c", b.f = "create",
           t.nCcalls < Limit, NEW co \in Thread, S.L[co].status = "none"
    PROVE  IInv(CoCreate(S, co))
<1>1. PICK n : n = Len(S.cs)  OBVIOUS
<1>2. /\ S \in StateT /\ S.cur \in Thread /\ t \in ThreadT /\ Core(S.L, S.cs, S.cur) /\ t.status = "ok"
      /\ Sound(t) /\ Fits(t) /\ Cur(S) = t
  BY <1>1, GoodFacts
<1>3. co # S.cur  BY <1>2
<1>4. ~ HasFrames(S.cs, co)
  <2>1. InStep(S.L[co], S.cs, co)  BY <1>2 DEF Core
  <2> QED  BY <2>1 DEF InStep, Runner
<1>5. PICK z : z = Put(StackInit, Value)  OBVIOUS
<1>6. z \in ThreadT /\ Sound(z) /\ Fits(z) /\ Sleeper(z) /\ z.status = "ok"  BY <1>5, NewThread
<1>7. PICK G : G = [S EXCEPT !.L[co] = z]  OBVIOUS
<1>8. G \in StateT /\ G.cs = S.cs /\ G.cur = S.cur /\ G.L[co] = z /\ \A o \in Thread : o # co => G.L[o] = S.L[o]
  <2>1. G = One(S, co, z)  BY <1>7 DEF One
  <2>2. G \in StateT  BY <2>1, <1>2, <1>6, OneFacts
  <2>3. G.cs = S.cs /\ G.cur = S.cur  BY <2>1, <1>2, <1>6, OneFacts
  <2>4. G.L[co] = z  BY <2>1, <1>2, <1>6, OneFacts
  <2>5. \A o \in Thread : o # co => G.L[o] = S.L[o]
    <3>1. S \in StateT /\ z \in ThreadT  BY <1>2, <1>6
    <3> QED  BY <3>1, <2>1, OneFacts
  <2> QED  BY <2>2, <2>3, <2>4, <2>5
<1>9. Good(G)
  <2>1. Alters(S, G, co)  BY <1>3, <1>8 DEF Alters
  <2> QED  BY <1>4, <1>6, <1>8, <2>1, SleeperGood
<1>10. G.L[G.cur] = t /\ G.cs[Len(G.cs)] = b  BY <1>2, <1>3, <1>8
<1>11. PICK v : v = Put(t, Value)  OBVIOUS
<1>12. v \in ThreadT /\ Sound(v) /\ Regrown(t, v) /\ Len(v.stack) = Len(t.stack) + 1 /\ StackLast(v) = StackLast(t)
  <2>1. Value \in Int  BY DEF Value
  <2> QED  BY <1>2, <1>11, <2>1, PutSound
<1>13. Shares(t, v) /\ SameInfos(t, v) /\ v.base = t.base
  BY <1>2, <1>12, RegrownSame DEF Regrown, SameCalls
<1>14. PICK W : W = With(G, v)  OBVIOUS
<1>15. Moves(G, W, v) /\ W.cs = G.cs  BY <1>8, <1>12, <1>14, WithFacts
<1>16. Len(v.stack) <= StackLast(v) /\ v.base + 1 <= Len(v.stack) + 1
  <2>1. PICK l : l = Len(t.stack)  OBVIOUS
  <2>2. PICK sl : sl = StackLast(t)  OBVIOUS
  <2>3. l \in Nat /\ sl \in Int /\ l < sl  BY <1>2, <2>1, <2>2, ThreadFacts DEF Fits
  <2>4. t.base \in Nat /\ t.base <= l + 1  BY <1>2, <2>1, BaseFacts
  <2>5. l + 1 <= sl /\ t.base + 1 <= l + 1 + 1  BY <2>3, <2>4
  <2> QED  BY <1>12, <1>13, <2>1, <2>2, <2>5
<1>17. b.f # "host" /\ 1 \in Nat  OBVIOUS
<1>18. IInv(CReturn(W, 1))  BY <1>9, <1>10, <1>12, <1>13, <1>15, <1>16, <1>17, CReturnInv
<1>19. CoCreate(S, co) = CReturn(W, 1)
  <2>1. CoCreate(S, co) = CReturn(With([S EXCEPT !.L[co] = z], Put(t, Value)), 1)
    BY <1>2, <1>5 DEF CoCreate
  <2> QED  BY <2>1, <1>7, <1>11, <1>14
<1> QED  BY <1>18, <1>19

-----------------------------------------------------------------------------
(* luaD_throw *)

\* Another top for the last CallInfo.
Retop(t, v) == [t EXCEPT !.ci[Len(t.ci)].top = v]
TopIs(t, u, v) ==
    /\ u \in ThreadT /\ Shares(t, u) /\ u.base = t.base /\ u.stack = t.stack /\ u.open = t.open
    /\ u.stacksize = t.stacksize /\ Len(u.ci) = Len(t.ci)
    /\ \A d \in 1..Len(t.ci) : /\ u.ci[d].func = t.ci[d].func /\ u.ci[d].base = t.ci[d].base
                               /\ u.ci[d].lua = t.ci[d].lua
                               /\ u.ci[d].top = IF d = Len(t.ci) THEN v ELSE t.ci[d].top

\* The rest of the thread stays.
LEMMA TopOf ==
    ASSUME NEW t \in ThreadT, Len(t.ci) >= 1, NEW v \in Nat
    PROVE  TopIs(t, Retop(t, v), v)
<1> DEFINE n == Len(t.ci)
           e == [t.ci[n] EXCEPT !.top = v]
           c == [t.ci EXCEPT ![n] = e]
           x == [t EXCEPT !.ci = c]
<1>1. n \in 1..Len(t.ci) /\ t.ci \in Seq(CallInfo) /\ t.ci[n] \in CallInfo  BY ThreadFacts
<1>2. e \in CallInfo /\ e.func = t.ci[n].func /\ e.base = t.ci[n].base /\ e.lua = t.ci[n].lua /\ e.top = v
  BY <1>1 DEF CallInfo
<1> HIDE DEF e
<1>3. c \in Seq(CallInfo) /\ Len(c) = Len(t.ci) /\ \A d \in 1..Len(t.ci) : c[d] = IF d = n THEN e ELSE t.ci[d]
  BY <1>1, <1>2, ExceptSeq
<1> HIDE DEF c
<1>4. x \in ThreadT /\ x.ci = c /\ Shares(t, x) /\ x.base = t.base /\ x.stack = t.stack /\ x.open = t.open
      /\ x.stacksize = t.stacksize
  BY <1>3 DEF ThreadT, Shares
<1>5. Retop(t, v) = x  BY DEF c, e, ThreadT, Retop
<1> HIDE DEF x
<1>6. TopIs(t, x, v)  BY <1>2, <1>3, <1>4 DEF TopIs
<1> QED  BY <1>5, <1>6

\* A coroutine that dies: r has the error on its stack, z gave it away.
Dies(t, z) ==
    /\ z \in ThreadT /\ z.status = "err" /\ z.jmp = 0 /\ z.nCcalls = t.nCcalls /\ Len(z.stack) = Len(t.stack)
    /\ StackLast(z) = StackLast(t) /\ z.open = t.open /\ Len(z.ci) = Len(t.ci)
    /\ \A d \in 1..Len(t.ci) : /\ z.ci[d].func = t.ci[d].func /\ z.ci[d].base = t.ci[d].base
                               /\ z.ci[d].lua = t.ci[d].lua
                               /\ z.ci[d].top = IF d = Len(t.ci) THEN Len(t.stack) + 2 ELSE t.ci[d].top

\* It may be looked at.
LEMMA DeadAsleep ==
    ASSUME NEW t \in ThreadT, Sound(t), Fits(t), t.nCcalls <= Limit, NEW z, Dies(t, z)
    PROVE  Asleep(z)
<1>1. /\ z \in ThreadT /\ z.status = "err" /\ z.jmp = 0 /\ z.nCcalls = t.nCcalls /\ Len(z.stack) = Len(t.stack)
      /\ StackLast(z) = StackLast(t) /\ z.open = t.open /\ Len(z.ci) = Len(t.ci)
  BY DEF Dies
<1>2. Sleeper(z)  BY <1>1 DEF Sleeper
<1>3. Fits(z)  BY <1>1 DEF Fits
<1>4. PICK l : l = Len(t.stack)  OBVIOUS
<1>5. PICK k : k = Len(t.ci)  OBVIOUS
<1>6. l \in Nat /\ k \in Nat /\ k >= 1 /\ t.base \in Nat /\ t.base <= l + 1 /\ t.base = t.ci[k].base
  BY <1>4, <1>5, ThreadFacts, BaseFacts
<1>7. \A d \in 1..k : /\ z.ci[d].func = t.ci[d].func /\ z.ci[d].base = t.ci[d].base /\ z.ci[d].lua = t.ci[d].lua
                      /\ z.ci[d].top = IF d = k THEN l + 2 ELSE t.ci[d].top
  BY <1>4, <1>5 DEF Dies
<1>8. Nested(t.ci)  BY DEF Sound
<1>9. Nested(z.ci)
  <2>1. \A d \in 1..k : 1 <= z.ci[d].func /\ z.ci[d].func < z.ci[d].base
    BY <1>5, <1>7, <1>8 DEF Nested
  <2>2. \A d \in 1..k : z.ci[d].base < z.ci[d].top
    <3> SUFFICES ASSUME NEW d \in 1..k PROVE z.ci[d].base < z.ci[d].top  OBVIOUS
    <3>1. CASE d = k
      <4>1. z.ci[d].base = t.base /\ z.ci[d].top = l + 2  BY <3>1, <1>6, <1>7
      <4>2. t.base < l + 2  BY <1>6
      <4> QED  BY <4>1, <4>2
    <3>2. CASE d # k
      <4>1. z.ci[d].base = t.ci[d].base /\ z.ci[d].top = t.ci[d].top  BY <3>2, <1>7
      <4>2. t.ci[d].base < t.ci[d].top  BY <1>5, <1>8 DEF Nested
      <4> QED  BY <4>1, <4>2
    <3> QED  BY <3>1, <3>2
  <2>3. \A d, e \in 1..k : d < e => z.ci[d].base <= z.ci[e].func /\ (z.ci[d].lua => z.ci[d].base < z.ci[e].func)
    <3> SUFFICES ASSUME NEW d \in 1..k, NEW e \in 1..k, d < e
                 PROVE  z.ci[d].base <= z.ci[e].func /\ (z.ci[d].lua => z.ci[d].base < z.ci[e].func)
      OBVIOUS
    <3>1. t.ci[d].base <= t.ci[e].func /\ (t.ci[d].lua => t.ci[d].base < t.ci[e].func)
      BY <1>5, <1>8 DEF Nested
    <3>2. /\ z.ci[d].base = t.ci[d].base /\ z.ci[d].lua = t.ci[d].lua
          /\ z.ci[e].func = t.ci[e].func
      BY <1>7
    <3> QED  BY <3>1, <3>2
  <2>4. Len(z.ci) = k /\ k >= 1  BY <1>1, <1>5, <1>6
  <2> QED  BY <2>1, <2>2, <2>3, <2>4 DEF Nested
<1>10. Owned(z)
  <2>1. Owned(t)  BY DEF Sound
  <2> QED  BY <1>1, <1>5, <1>7, <2>1 DEF Owned
<1>11. \A d \in 1..Len(z.ci) : z.ci[d].top - 1 <= StackLast(z)
  <2> SUFFICES ASSUME NEW d \in 1..k PROVE z.ci[d].top - 1 <= StackLast(t)  BY <1>1, <1>5
  <2>1. PICK sl : sl = StackLast(t)  OBVIOUS
  <2>2. sl \in Int /\ l < sl  BY <1>4, <2>1, ThreadFacts DEF Fits
  <2>3. CASE d = k
    <3>1. z.ci[d].top = l + 2  BY <1>7, <2>3
    <3>2. PICK q : q = l + 2  OBVIOUS
    <3>3. q - 1 <= sl  BY <1>6, <2>2, <3>2
    <3> QED  BY <3>1, <3>2, <3>3, <2>1
  <2>4. CASE d # k
    <3>1. PICK q : q = t.ci[d].top  OBVIOUS
    <3>2. q \in Nat  BY <3>1, <1>5, ThreadFacts
    <3>3. q <= sl  BY <3>1, <1>5, <2>1 DEF Sound
    <3>4. q - 1 <= sl  BY <2>2, <3>2, <3>3
    <3> QED  BY <3>1, <3>4, <1>7, <2>1, <2>4
  <2> QED  BY <2>3, <2>4
<1> QED  BY <1>1, <1>2, <1>3, <1>9, <1>10, <1>11 DEF Asleep, Dead

\* What lua_resume does with a coroutine that an error came out of: w has the error
\* on its stack, c is dead, and z has given the error away.
Errs(t, w, c, z) ==
    /\ w = [SetErrorObj(t, Top(t)) EXCEPT !.ci[Len(t.ci)].top = Top(t) + 1]
    /\ c = [w EXCEPT !.status = "err", !.jmp = 0]
    /\ z = SetTop(c, Len(c.stack))

\* The values and the calls that z has.
LEMMA ErrThread ==
    ASSUME NEW t \in ThreadT, Sound(t), NEW w, NEW c, NEW z, Errs(t, w, c, z)
    PROVE  w \in ThreadT /\ c \in ThreadT /\ Len(c.stack) \in Nat /\ Len(c.stack) >= 1 /\ Dies(t, z)
<1>1. PICK l : l = Len(t.stack)  OBVIOUS
<1>2. l \in Nat /\ t.stack \in Seq(Int) /\ Top(t) = l + 1 /\ Len(t.ci) >= 1  BY <1>1, ThreadFacts, BaseFacts
<1>3. PICK s : s = Append(SubSeq(t.stack, 1, l), Value)  OBVIOUS
<1>4. s \in Seq(Int) /\ Len(s) = l + 1
  <2>1. PICK p : p = SubSeq(t.stack, 1, l)  OBVIOUS
  <2>2. l \in 0..Len(t.stack)  BY <1>1, <1>2
  <2>3. p \in Seq(Int) /\ Len(p) = l  BY <1>2, <2>1, <2>2, PrefixFacts
  <2>4. Value \in Int  BY DEF Value
  <2> QED  BY <1>3, <2>1, <2>3, <2>4, AppendFacts
<1>5. PICK u : u = [t EXCEPT !.stack = s]  OBVIOUS
<1>6. u \in ThreadT /\ u.stack = s /\ SameCalls(t, u) /\ u.open = t.open /\ u.stacksize = t.stacksize
  BY <1>4, <1>5, Restacked
<1>7. u.ci = t.ci /\ u.nCcalls = t.nCcalls /\ u.base = t.base  BY <1>6 DEF SameCalls
<1>8. SetErrorObj(t, Top(t)) = u
  <2>1. PICK p : p = Top(t)  OBVIOUS
  <2>2. p - 1 = l  BY <2>1, <1>2
  <2>3. SetErrorObj(t, p) = [t EXCEPT !.stack = Append(SubSeq(t.stack, 1, p - 1), Value)]  BY DEF SetErrorObj
  <2>4. Append(SubSeq(t.stack, 1, p - 1), Value) = s  BY <2>2, <1>3, Zenon
  <2>5. SetErrorObj(t, p) = [t EXCEPT !.stack = s]  BY <2>3, <2>4, Zenon
  <2> QED  BY <2>1, <2>5, <1>5
<1>9. PICK q : q = l + 2  OBVIOUS
<1>10. q \in Nat /\ Top(t) + 1 = q  BY <1>2, <1>9
<1>11. w = Retop(u, q)
  <2>1. w = [SetErrorObj(t, Top(t)) EXCEPT !.ci[Len(t.ci)].top = Top(t) + 1]  BY DEF Errs
  <2> QED  BY <2>1, <1>7, <1>8, <1>10 DEF Retop
<1>12. TopIs(u, w, q)
  <2>1. Len(u.ci) >= 1  BY <1>2, <1>7
  <2> QED  BY <1>6, <1>10, <1>11, <2>1, TopOf
<1>23. /\ w \in ThreadT /\ Shares(u, w) /\ w.stack = u.stack /\ w.open = u.open
       /\ w.stacksize = u.stacksize /\ Len(w.ci) = Len(u.ci)
  BY <1>12 DEF TopIs
<1>13. /\ c \in ThreadT /\ c.status = "err" /\ c.jmp = 0 /\ c.nCcalls = w.nCcalls /\ c.stack = w.stack /\ c.ci = w.ci
       /\ c.open = w.open /\ c.stacksize = w.stacksize
  BY <1>23 DEF ThreadT, Statuses, Errs
<1>14. Len(c.stack) = l + 1  BY <1>4, <1>6, <1>23, <1>13
<1>15. /\ z \in ThreadT /\ Regrown(c, z) /\ z.open = c.open /\ z.stacksize = c.stacksize /\ Len(z.stack) = l + 1 - 1
       /\ StackLast(z) = StackLast(c)
  <2>1. PICK m : m = Len(c.stack)  OBVIOUS
  <2>2. m \in Nat /\ m >= 1 /\ m \in 0..m  BY <2>1, <1>2, <1>14
  <2>3. z = Fill(c, m, m)  BY <2>1 DEF SetTop, Errs
  <2>5. m \in 0..Len(c.stack)  BY <2>1, <2>2
  <2>4. z \in ThreadT /\ Regrown(c, z) /\ z.open = c.open /\ z.stacksize = c.stacksize /\ Len(z.stack) = m - 1
        /\ StackLast(z) = StackLast(c)
    BY <1>13, <2>2, <2>3, <2>5, FillFacts
  <2>7. m = l + 1  BY <2>1, <1>14
  <2>6. m - 1 = l + 1 - 1  BY <2>7, <1>2
  <2> QED  BY <2>4, <2>6
<1>16. z.status = "err" /\ z.jmp = 0 /\ z.nCcalls = t.nCcalls /\ z.ci = w.ci
  BY <1>7, <1>23, <1>13, <1>15 DEF Regrown, SameCalls, Shares
<1>17. StackLast(z) = StackLast(t)  BY <1>6, <1>23, <1>13, <1>15 DEF StackLast
<1>18. Len(z.stack) = Len(t.stack)
  <2>1. l + 1 - 1 = l  BY <1>2
  <2> QED  BY <2>1, <1>1, <1>15
<1>19. z.open = t.open  BY <1>6, <1>23, <1>13, <1>15
<1>20. PICK p : p = Len(t.stack) + 2  OBVIOUS
<1>21. Len(z.ci) = Len(t.ci)  BY <1>7, <1>16, <1>23
<1>22. \A d \in 1..Len(t.ci) : /\ z.ci[d].func = t.ci[d].func /\ z.ci[d].base = t.ci[d].base
                               /\ z.ci[d].lua = t.ci[d].lua
                               /\ z.ci[d].top = IF d = Len(t.ci) THEN p ELSE t.ci[d].top
  <2>1. p = q  BY <1>1, <1>9, <1>20
  <2> QED  BY <2>1, <1>7, <1>12, <1>16 DEF TopIs
<1>24. Dies(t, z)
  <2>1. /\ z \in ThreadT /\ z.status = "err" /\ z.jmp = 0 /\ z.nCcalls = t.nCcalls /\ Len(z.stack) = Len(t.stack)
        /\ StackLast(z) = StackLast(t) /\ z.open = t.open /\ Len(z.ci) = Len(t.ci)
    BY <1>15, <1>16, <1>17, <1>18, <1>19, <1>21
  <2> QED  BY <2>1, <1>20, <1>22 DEF Dies
<1>25. l + 1 \in Nat /\ l + 1 >= 1  BY <1>2
<1> QED  BY <1>13, <1>14, <1>23, <1>24, <1>25

\* Where an error may be thrown there is a setjmp to go to.
LEMMA ThrowCaught ==
    ASSUME NEW S, Good(S), NEW t, t = S.L[S.cur], ErrorReady(S.cs[Len(S.cs)])
    PROVE  t.jmp # 0
<1>1. PICK n : n = Len(S.cs)  OBVIOUS
<1>2. /\ S.cs \in Seq(CFrame) /\ n \in Nat /\ n >= 1 /\ Shape(S.cs) /\ S.cs[n].th = S.cur
      /\ Runner(t, S.cs, S.cur) /\ Len(S.cs) = n
  BY <1>1, GoodFacts
<1>3. t.jmp = Catcher(S.cs, S.cur, n)  BY <1>1, <1>2 DEF Runner
<1>4. CASE S.cur # "main"
  <2>1. Catcher(S.cs, S.cur, Len(S.cs)) # 0  BY <1>1, <1>2, <1>4, TopSegment
  <2> QED  BY <2>1, <1>1, <1>3
<1>5. CASE S.cur = "main"
  <2>1. S.cs[1] = Host  BY <1>2 DEF Shape
  <2>2. Host.k = "c" /\ Host.f = "host" /\ Host.th = "main"  BY DEF Host
  <2>3. n # 1  BY <1>1, <2>1, <2>2 DEF ErrorReady
  <2>4. n >= 2 /\ 2 \in 2..n /\ 2 \in 1..n /\ 2 - 1 = 1  BY <2>3, <1>2
  <2>5. CallsFrame(S.cs[1], S.cs[2])
    <3>1. CallsFrame(S.cs[2 - 1], S.cs[2])  BY <1>1, <1>2, <2>4 DEF Shape
    <3> QED  BY <3>1, <2>4
  <2>6. S.cs[2] \in CFrame  BY <1>1, <1>2, <2>4
  <2>7. S.cs[2].k \in {"exec", "call", "msg", "c", "pcall", "resume"}  BY <2>6, FrameFacts
  <2>8. S.cs[2].k = "pcall" /\ S.cs[2].th = "main"  BY <2>1, <2>2, <2>5, <2>7 DEF CallsFrame
  <2>9. 2 \in Catches(S.cs, S.cur, n)  BY <1>5, <2>4, <2>8 DEF Catches
  <2>10. PICK c : c = Catcher(S.cs, S.cur, n)  OBVIOUS
  <2>11. c \in 0..n /\ 2 <= c  BY <1>2, <2>9, <2>10, CatcherIs
  <2>12. c # 0  BY <2>11
  <2> QED  BY <2>10, <2>12, <1>3
<1> QED  BY <1>4, <1>5

\* luaD_throw: an error gets to luaD_pcall, or out of the coroutine.
LEMMA LuaDThrowInv ==
    ASSUME NEW S, Good(S), ErrorReady(S.cs[Len(S.cs)])
    PROVE  IInv(LuaDThrow(S))
<1>1. PICK t : t = S.L[S.cur]  OBVIOUS
<1>2. PICK j : j = t.jmp  OBVIOUS
<1>3. PICK f : f = S.cs[j]  OBVIOUS
<1>4. PICK n : n = Len(S.cs)  OBVIOUS
<1>5. S \in StateT /\ S.cur \in Thread /\ t \in ThreadT /\ Sound(t) /\ Fits(t) /\ t.nCcalls <= Limit /\ Cur(S) = t
      /\ S.cs \in Seq(CFrame)
  BY <1>1, <1>4, GoodFacts
<1>6. j # 0  BY <1>1, <1>2, ThrowCaught
<1>7. /\ j \in 1..n /\ j \in Nat /\ f \in CFrame /\ f.th = S.cur /\ f.k \in {"pcall", "resume"}
      /\ \A i \in j..n : S.cs[i].th = S.cur
  BY <1>1, <1>2, <1>3, <1>4, <1>6, CatcherFacts
<1>8. PICK J : J = Jumped(S, j)  OBVIOUS
<1>9. /\ J \in StateT /\ J.L = S.L /\ J.cur = S.cur /\ CutTo(S.cs, J.cs, j)
  <2>1. j \in 0..Len(S.cs)  BY <1>4, <1>7
  <2> QED  BY <1>5, <1>8, <2>1, JumpedFacts
<1>10. [S EXCEPT !.cs = SubSeq(@, 1, j)] = J  BY <1>8 DEF Jumped
<1>11. CASE f.k = "pcall"
  <2>1. IInv(PcallDone(PcallRecover(J, f)))  BY <1>1, <1>2, <1>3, <1>6, <1>8, <1>11, RecoverInv
  <2>2. LuaDThrow(S) = PcallDone(PcallRecover(J, f))
    BY <1>2, <1>3, <1>5, <1>6, <1>10, <1>11 DEF LuaDThrow
  <2> QED  BY <2>1, <2>2
<1>12. CASE f.k = "resume"
  <2>1. PICK w : w = [SetErrorObj(t, Top(t)) EXCEPT !.ci[Len(t.ci)].top = Top(t) + 1]  OBVIOUS
  <2>2. PICK c : c = [w EXCEPT !.status = "err", !.jmp = 0]  OBVIOUS
  <2>3. PICK first : first = Len(c.stack)  OBVIOUS
  <2>4. PICK z : z = SetTop(c, first)  OBVIOUS
  <2>5. w \in ThreadT /\ c \in ThreadT /\ first \in Nat /\ first >= 1 /\ Dies(t, z)
    <3>1. Errs(t, w, c, z)  BY <2>1, <2>2, <2>3, <2>4 DEF Errs
    <3> QED  BY <1>5, <2>3, <3>1, ErrThread
  <2>6. Asleep(z)  BY <1>5, <2>5, DeadAsleep
  <2>7. PICK W : W = With(J, w)  OBVIOUS
  <2>8. W \in StateT /\ Moves(J, W, w) /\ W.cs = J.cs /\ W.cur = J.cur /\ W.L[J.cur] = w
    BY <1>9, <2>5, <2>7, WithFacts
  <2>9. Ends(S, W, j)
    <3>1. j \in 1..Len(S.cs) /\ S.cs[j].k = "resume" /\ \A i \in j..Len(S.cs) : S.cs[i].th = S.cur
      BY <1>3, <1>4, <1>7, <1>12
    <3>2. \A o \in Thread : o # S.cur => W.L[o] = S.L[o]  BY <1>9, <2>8 DEF Moves
    <3>3. W \in StateT /\ W.cur = S.cur /\ CutTo(S.cs, W.cs, j)  BY <1>9, <2>8
    <3> QED  BY <3>1, <3>2, <3>3 DEF Ends
  <2>10. c = [W.L[W.cur] EXCEPT !.status = "err", !.jmp = 0]  BY <2>2, <2>8
  <2>11. first = (IF FALSE THEN c.base ELSE Len(c.stack)) /\ first <= Len(c.stack) + 1 /\ FALSE \in BOOLEAN
    <3>1. first <= first + 1  BY <2>5
    <3> QED  BY <2>3, <3>1
  <2>12. IInv(ResumeReturns(W, "err", FALSE))
    BY <2>4, <2>5, <2>6, <2>9, <2>10, <2>11, ResumeReturnsInv
  <2>13. LuaDThrow(S) = ResumeReturns(W, "err", FALSE)
    BY <1>2, <1>3, <1>5, <1>6, <1>10, <1>12, <2>1, <2>7 DEF LuaDThrow
  <2> QED  BY <2>12, <2>13
<1> QED  BY <1>7, <1>11, <1>12

-----------------------------------------------------------------------------
(* luaG_errormsg, and what is done when a call came back *)

\* The handler is put below the error.
Handled(t, u) ==
    /\ u \in ThreadT /\ Sound(u) /\ Fits(u) /\ Shares(t, u) /\ SameInfos(t, u)
    /\ Len(u.stack) = Len(t.stack) + 1

\* The error is above the base of the function, and its local.
LEMMA HandledSound ==
    ASSUME NEW t \in ThreadT, Sound(t), Fits(t), t.base <= Len(t.stack),
           t.ci[Len(t.ci)].lua => t.base < Len(t.stack),
           NEW c, c = CheckStack(t, 1), NEW s, s = Front(c.stack) \o <<Handler, Value>>
    PROVE  Handled(t, [c EXCEPT !.stack = s])
<1>1. /\ c \in ThreadT /\ Regrown(t, c) /\ c.stack = t.stack /\ Len(t.stack) + 1 < StackLast(c) /\ Sound(c)
  <2>1. 1 \in Nat  OBVIOUS
  <2> QED  BY <2>1, CheckStackSound
<1>2. PICK l : l = Len(t.stack)  OBVIOUS
<1>3. l \in Nat /\ l >= 1 /\ t.base \in Nat /\ t.base <= l
  <2>1. l \in Nat /\ t.base \in Nat /\ t.base >= 2 /\ t.base <= l  BY <1>2, ThreadFacts, BaseFacts
  <2> QED  BY <2>1
<1>4. PICK p : p = Front(t.stack)  OBVIOUS
<1>5. p \in Seq(Int) /\ Len(p) = l - 1 /\ \A i \in 1..(l - 1) : p[i] = t.stack[i]
  <2>1. t.stack \in Seq(Int) /\ Len(t.stack) >= 1  BY <1>2, <1>3, ThreadFacts
  <2> QED  BY <2>1, <1>2, <1>4, FrontFacts
<1>6. PICK e : e = <<Handler, Value>>  OBVIOUS
<1>7. e \in Seq(Int) /\ Len(e) = 2
  <2>1. Handler \in Int /\ Value \in Int  BY DEF Handler, Value
  <2> QED  BY <2>1, <1>6
<1>8. s = p \o e  BY <1>1, <1>4, <1>6, Zenon
<1>9. s \in Seq(Int) /\ Len(s) = l + 1 /\ \A i \in 1..(l - 1) : s[i] = p[i]
  <2>1. s \in Seq(Int) /\ Len(s) = Len(p) + Len(e) /\ \A i \in 1..Len(p) : s[i] = p[i]
    <3>1. /\ p \o e \in Seq(Int) /\ Len(p \o e) = Len(p) + Len(e)
          /\ \A i \in 1..(Len(p) + Len(e)) : (p \o e)[i] = IF i <= Len(p) THEN p[i] ELSE e[i - Len(p)]
      BY <1>5, <1>7, ConcatProperties
    <3>2. /\ s \in Seq(Int) /\ Len(s) = Len(p) + Len(e)
          /\ \A i \in 1..(Len(p) + Len(e)) : s[i] = IF i <= Len(p) THEN p[i] ELSE e[i - Len(p)]
      BY <1>8, <3>1, Zenon
    <3>3. \A i \in 1..Len(p) : i \in 1..(Len(p) + Len(e)) /\ i <= Len(p)  BY <1>3, <1>5, <1>7
    <3> QED  BY <3>2, <3>3
  <2>2. Len(s) = l - 1 + 2  BY <2>1, <1>5, <1>7
  <2>3. \A i \in 1..(l - 1) : s[i] = p[i]  BY <2>1, <1>5
  <2>4. l - 1 + 2 = l + 1  BY <1>3
  <2> QED  BY <2>1, <2>2, <2>3, <2>4
<1>10. PICK u : u = [c EXCEPT !.stack = s]  OBVIOUS
<1>11. u \in ThreadT /\ u.stack = s /\ Regrown(c, u) /\ StackLast(u) = StackLast(c)
  BY <1>1, <1>9, <1>10, Restacked
<1>12. c.base = t.base /\ c.ci = t.ci  BY <1>1 DEF Regrown, SameCalls
<1>13. Sound(u)
  <2>1. u.base = t.base  BY <1>11, <1>12 DEF Regrown, SameCalls
  <2>2. u.base <= Len(u.stack) + 1
    <3>1. t.base <= l + 1 + 1  BY <1>3
    <3> QED  BY <3>1, <2>1, <1>9, <1>11
  <2>3. \A i \in 1..l : i < t.base => i <= Len(s) /\ s[i] = t.stack[i]
    <3> SUFFICES ASSUME NEW i \in 1..l, i < t.base PROVE i <= Len(s) /\ s[i] = t.stack[i]  OBVIOUS
    <3>1. i \in 1..(l - 1) /\ i <= l + 1  BY <1>3
    <3> QED  BY <3>1, <1>5, <1>9
  <2>4. ASSUME t.ci[Len(t.ci)].lua PROVE t.base <= Len(s) /\ s[t.base] = t.stack[t.base]
    <3>1. t.base < l  BY <2>4, <1>2
    <3>2. t.base >= 2  BY BaseFacts
    <3>3. t.base \in 1..(l - 1) /\ t.base <= l + 1  BY <3>1, <3>2, <1>3
    <3> QED  BY <3>3, <1>5, <1>9
  <2>5. \A i \in 1..Len(c.stack) : i < c.base => i <= Len(u.stack) /\ u.stack[i] = c.stack[i]
    BY <2>3, <1>1, <1>2, <1>11, <1>12
  <2>6. c.ci[Len(c.ci)].lua => c.base <= Len(u.stack) /\ u.stack[c.base] = c.stack[c.base]
    BY <2>4, <1>1, <1>11, <1>12
  <2> QED  BY <2>2, <2>5, <2>6, <1>1, <1>11, SoundRestack
<1>14. Fits(u)
  <2>1. l + 1 < StackLast(c)  BY <1>1, <1>2
  <2> QED  BY <2>1, <1>9, <1>11 DEF Fits
<1>15. Regrown(t, u)  BY <1>1, <1>11, RegrownTwice
<1>16. Shares(t, u) /\ SameInfos(t, u)  BY <1>15, RegrownSame
<1>17. Len(u.stack) = Len(t.stack) + 1  BY <1>2, <1>9, <1>11
<1>18. Handled(t, u)  BY <1>11, <1>13, <1>14, <1>16, <1>17 DEF Handled
<1> QED  BY <1>10, <1>18

\* luaG_errormsg calls the handler, or throws.
LEMMA ErrorMsgInv ==
    ASSUME NEW S, Good(S), NEW t, t = S.L[S.cur], ErrorReady(S.cs[Len(S.cs)]), Raised(t, S.cs, S.cur),
           t.nCcalls < Limit
    PROVE  IInv(ErrorMsg(S))
<1>1. PICK n : n = Len(S.cs)  OBVIOUS
<1>2. /\ S \in StateT /\ S.cur \in Thread /\ S.cs \in Seq(CFrame) /\ t \in ThreadT /\ n \in Nat /\ n >= 1
      /\ t.status = "ok" /\ S.cs[n].th = S.cur /\ Sound(t) /\ Fits(t) /\ Cur(S) = t
  BY <1>1, GoodFacts
<1>3. PICK c : c = CheckStack(t, 1)  OBVIOUS
<1>4. /\ c \in ThreadT /\ c.errfunc = t.errfunc /\ c.stack = t.stack
  <2>1. 1 \in Nat  OBVIOUS
  <2> QED  BY <2>1, <1>2, <1>3, CheckStackSound DEF Regrown, SameCalls
<1>5. PICK s : s = Front(c.stack) \o <<Handler, Value>>  OBVIOUS
<1>6. PICK u : u = [c EXCEPT !.stack = s]  OBVIOUS
<1>7. Handled(t, u)
  <2>1. t.base <= Len(t.stack) /\ (t.ci[Len(t.ci)].lua => t.base < Len(t.stack))  BY DEF Raised
  <2> QED  BY <2>1, <1>2, <1>3, <1>5, <1>6, HandledSound
<1>8. PICK g : g = [k |-> "msg", th |-> S.cur]  OBVIOUS
<1>9. g \in CFrame /\ g.k = "msg" /\ g.th = S.cur /\ Runs(g) = 0
  <2>1. g \in CFrame /\ g.k = "msg" /\ g.th = S.cur  BY <1>2, <1>8 DEF CFrame
  <2> QED  BY <2>1, FrameFacts
<1>10. CASE t.errfunc = 0 \/ t.stack[t.errfunc] # Handler
  <2>1. ErrorMsg(S) = Do(S, "throw")  BY <1>2, <1>3, <1>4, <1>10 DEF ErrorMsg
  <2> QED  BY <2>1, ThrowInv
<1>11. CASE ~ (t.errfunc = 0 \/ t.stack[t.errfunc] # Handler)
  <2>1. PICK W : W = With(S, u)  OBVIOUS
  <2>2. PICK P : P = PushC(W, g)  OBVIOUS
  <2>3. /\ u \in ThreadT /\ Sound(u) /\ Fits(u) /\ Shares(t, u) /\ SameInfos(t, u)
        /\ Len(u.stack) = Len(t.stack) + 1
    BY <1>7 DEF Handled
  <2>4. W \in StateT /\ Moves(S, W, u) /\ W.cs = S.cs /\ W.cur = S.cur  BY <1>2, <2>1, <2>3, WithFacts
  <2>5. /\ Moves(S, P, u) /\ P.cs = Append(S.cs, g) /\ Len(P.cs) = n + 1 /\ P.cs[n + 1] = g
        /\ \A i \in 1..n : P.cs[i] = S.cs[i]
    <3>1. /\ P \in StateT /\ P.L = W.L /\ P.cur = W.cur /\ P.cs = Append(W.cs, g) /\ Len(P.cs) = Len(W.cs) + 1
          /\ P.cs[Len(W.cs) + 1] = g /\ \A i \in 1..Len(W.cs) : P.cs[i] = W.cs[i]
      BY <1>9, <2>2, <2>4, PushCFacts
    <3> QED  BY <1>1, <2>4, <3>1 DEF Moves
  <2>6. Older(S.cs, P.cs, S.cur)  BY <1>1, <1>2, <1>9, <2>5, OlderPush
  <2>7. PICK l : l = Len(t.stack)  OBVIOUS
  <2>8. l \in Nat /\ Len(u.stack) = l + 1 /\ Len(u.stack) >= Len(t.stack)
    <3>1. l \in Nat  BY <1>2, <2>7, ThreadFacts
    <3>2. l + 1 >= l  BY <3>1
    <3> QED  BY <3>1, <3>2, <2>3, <2>7
  <2>9. Caught(u, P.cs, S.cur)
    <3>1. Caught(u, S.cs, S.cur)  BY <2>3, <2>8, CaughtAgain
    <3> QED  BY <3>1, <2>6 DEF Caught, Older
  <2>10. Pushed(t, u, g, Len(S.cs))
    <3>1. Len(t.ci) \in Nat /\ t.nCcalls \in Nat  BY <1>2, ThreadFacts
    <3>2. Len(u.ci) = Len(t.ci) + 0 /\ \A d \in 1..Len(t.ci) : u.ci[d].lua = t.ci[d].lua
      BY <3>1, <2>3 DEF SameInfos
    <3>3. u.nCcalls = t.nCcalls + 0  BY <3>1, <2>3 DEF Shares
    <3> QED  BY <1>2, <1>9, <2>3, <3>2, <3>3 DEF Pushed, Shares
  <2>11. CallsFrame(S.cs[Len(S.cs)], g)  BY <1>1, <1>2, <1>9 DEF CallsFrame, ErrorReady
  <2>12. u.nCcalls < Limit  BY <2>3 DEF Shares
  <2>13. u.nCcalls <= Limit
    <3>1. PICK k : k = u.nCcalls  OBVIOUS
    <3>2. k \in Nat /\ Limit \in Nat /\ k < Limit  BY <3>1, <2>3, <2>12, ThreadFacts, Constants
    <3>3. k <= Limit  BY <3>2
    <3> QED  BY <3>1, <3>3
  <2>14. Good(P)  BY <1>9, <2>3, <2>5, <2>9, <2>10, <2>11, <2>13, GoodPush
  <2>15. P.cur = S.cur /\ u = P.L[P.cur] /\ P.cs[Len(P.cs)] = g  BY <2>5 DEF Moves
  <2>16. Callable(u, l)
    <3>1. u.base = t.base /\ u.ci[Len(u.ci)].lua = t.ci[Len(t.ci)].lua
      <4>1. t.base = t.ci[Len(t.ci)].base /\ Len(t.ci) \in 1..Len(t.ci)
        <5>1. PICK k : k = Len(t.ci)  OBVIOUS
        <5>2. k \in Nat /\ k >= 1 /\ t.base = t.ci[k].base  BY <5>1, <1>2, BaseFacts
        <5>3. k \in 1..k  BY <5>2
        <5> QED  BY <5>1, <5>2, <5>3
      <4>2. u.base = u.ci[Len(u.ci)].base  BY <2>3 DEF Sound
      <4> QED  BY <4>1, <4>2, <2>3 DEF SameInfos
    <3>2. l <= l + 1  BY <2>8
    <3>3. t.base <= l /\ (t.ci[Len(t.ci)].lua => t.base < l)  BY <2>7 DEF Raised
    <3> QED  BY <3>1, <3>2, <3>3, <2>8 DEF Callable
  <2>17. Above(P.cs, P.cur, l)
    <3>1. \A i \in Pcalls(S.cs, S.cur) : S.cs[i].oldtop <= l  BY <2>7 DEF Raised
    <3> QED  BY <3>1, <2>6, <2>15 DEF Above, Older
  <2>18. IInv(LuaDCall(P, "lua", l, 1))
    <3>1. "lua" \in LuaFunctions \union (CFunctions \ {"host"}) /\ "lua" \in LuaFunctions /\ 1 \in {0, 1, MULTRET}
      BY DEF LuaFunctions
    <3>2. g.k \in {"pcall", "exec", "msg"}  BY <1>9
    <3> QED  BY <3>1, <3>2, <2>12, <2>14, <2>15, <2>16, <2>17, LuaDCallInv
  <2>19. ErrorMsg(S) = LuaDCall(P, "lua", l, 1)
    <3>1. Top(u) - 2 = l
      <4>1. Top(u) = l + 1 + 1  BY <2>8 DEF Top
      <4>2. PICK k : k = l + 1 + 1  OBVIOUS
      <4>3. k - 2 = l  BY <4>2, <2>8
      <4> QED  BY <4>1, <4>2, <4>3
    <3>2. [c EXCEPT !.stack = Front(@) \o <<Handler, Value>>] = u  BY <1>5, <1>6
    <3>3. ErrorMsg(S) = LuaDCall(PushC(With(S, u), [k |-> "msg", th |-> S.cur]), "lua", Top(u) - 2, 1)
      BY <1>2, <1>3, <1>4, <1>11, <3>2 DEF ErrorMsg
    <3> QED  BY <3>1, <3>3, <1>8, <2>1, <2>2
  <2> QED  BY <2>18, <2>19
<1> QED  BY <1>10, <1>11

\* luaD_call and luaG_errormsg end: their frame is popped.
LEMMA PopGood ==
    ASSUME NEW S, Good(S), NEW t, t = S.L[S.cur], NEW f, f = S.cs[Len(S.cs)], f.k \in {"call", "msg"},
           NEW v \in ThreadT, SameStack(t, v), v.status = t.status, v.errfunc = t.errfunc, v.jmp = t.jmp,
           v.nCcalls = t.nCcalls - (IF f.k = "call" THEN 1 ELSE 0),
           NEW T, T = With(PopC(S), v)
    PROVE  /\ Good(T) /\ T.cur = S.cur /\ T.L[T.cur] = v /\ T.op = S.op
           /\ CallsFrame(T.cs[Len(T.cs)], f)
<1>1. PICK n : n = Len(S.cs)  OBVIOUS
<1>2. /\ S \in StateT /\ S.cur \in Thread /\ S.cs \in Seq(CFrame) /\ t \in ThreadT /\ n \in Nat /\ n >= 1
      /\ t.status = "ok" /\ Sound(t) /\ Fits(t) /\ Cur(S) = t /\ Caught(t, S.cs, S.cur) /\ f \in CFrame
      /\ t.nCcalls <= Limit /\ Core(S.L, S.cs, S.cur)
  BY <1>1, GoodFacts
<1>3. Runs(f) = 0 /\ f # Host /\ f.k # "pcall" /\ f.k # "resume"
  BY <1>2, FrameFacts DEF Host
<1>4. Sound(v) /\ Fits(v) /\ v.ci = t.ci /\ v.stack = t.stack  BY <1>2, SoundSame DEF SameStack
<1>5. PICK P : P = PopC(S)  OBVIOUS
<1>6. P \in StateT /\ P.L = S.L /\ P.cur = S.cur /\ P.op = S.op /\ CutTo(S.cs, P.cs, n - 1)
  BY <1>1, <1>2, <1>5, PopCFacts
<1>7. T \in StateT /\ Moves(P, T, v) /\ T.cs = P.cs /\ T.cur = P.cur /\ T.L[P.cur] = v /\ T.op = P.op
  BY <1>5, <1>6, WithFacts
<1>8. Moves(S, T, v) /\ CutTo(S.cs, T.cs, n - 1)  BY <1>6, <1>7 DEF Moves
<1>9. Popped(t, v, f)
  <2>1. t.nCcalls \in Nat /\ Len(t.ci) \in Nat  BY <1>2, ThreadFacts
  <2>2. Len(v.ci) = Len(t.ci) - Runs(f)  BY <2>1, <1>3, <1>4
  <2> QED  BY <2>2, <1>2, <1>3, <1>4 DEF Popped
<1>10. Caught(v, T.cs, S.cur)
  <2>1. SameTo(S.cs, T.cs, n - 1) /\ Len(T.cs) = n - 1 /\ T.cs \in Seq(CFrame)  BY <1>1, <1>2, <1>8, CutCounts
  <2>2. \A i \in (n - 1 + 1)..Len(T.cs) : T.cs[i].k # "pcall"  BY <1>2, <2>1
  <2>3. Older(S.cs, T.cs, S.cur)  BY <1>2, <2>1, <2>2, OlderSame
  <2>4. Caught(v, S.cs, S.cur)  BY <1>2, <1>4 DEF Caught
  <2> QED  BY <2>3, <2>4 DEF Caught, Older
<1>11. v.nCcalls <= Limit
  <2>1. PICK k : k = t.nCcalls  OBVIOUS
  <2>2. k \in Nat /\ Limit \in Nat /\ k <= Limit  BY <2>1, <1>2, ThreadFacts, Constants
  <2>3. k - (IF f.k = "call" THEN 1 ELSE 0) <= Limit  BY <2>2
  <2> QED  BY <2>1, <2>3
<1>12. Good(T)
  <2>1. CutTo(S.cs, T.cs, Len(S.cs) - 1)  BY <1>1, <1>8
  <2> QED  BY <2>1, <1>3, <1>4, <1>8, <1>9, <1>10, <1>11, GoodPop
<1>13. CallsFrame(T.cs[Len(T.cs)], f)
  <2>1. CallsFrame(S.cs[n - 1], S.cs[n]) /\ n >= 2  BY <1>1, <1>2, <1>3, BelowTop
  <2>2. Len(T.cs) = n - 1 /\ T.cs[n - 1] = S.cs[n - 1]
    <3>1. n - 1 \in 1..(n - 1)  BY <1>2, <2>1
    <3> QED  BY <3>1, <1>8 DEF CutTo
  <2> QED  BY <2>1, <2>2, <1>1
<1> QED  BY <1>6, <1>7, <1>12, <1>13

\* A call came back to the frame on top.
LEMMA AfterInv ==
    ASSUME NEW S, Good(S), NEW t, t = S.L[S.cur], NEW f, f = S.cs[Len(S.cs)], AfterReady(f), t.nCcalls < Limit,
           S.op = "after"
    PROVE  IInv(AfterC(S))
<1>1. PICK n : n = Len(S.cs)  OBVIOUS
<1>2. /\ S \in StateT /\ S.cur \in Thread /\ S.cs \in Seq(CFrame) /\ t \in ThreadT /\ n \in Nat /\ n >= 1
      /\ Sound(t) /\ Fits(t) /\ Cur(S) = t /\ f \in CFrame /\ TopC(S) = f /\ Core(S.L, S.cs, S.cur)
  BY <1>1, GoodFacts
<1>3. t.nCcalls \in Nat /\ Limit \in Nat  BY <1>2, ThreadFacts, Constants
\* luaV_execute goes on
<1>4. CASE f.k = "exec"
  <2>1. t.ci[Len(t.ci)].lua  BY <1>4, TopFacts
  <2>2. PICK v : v = Continue(t)  OBVIOUS
  <2>3. v \in ThreadT /\ Sound(v) /\ Regrown(t, v) /\ Fits(v)  BY <1>2, <2>1, <2>2, ContinueSound
  <2>4. PICK W : W = With(S, v)  OBVIOUS
  <2>5. Moves(S, W, v) /\ W.cs = S.cs /\ W.cur = S.cur /\ W.L[S.cur] = v  BY <1>2, <2>3, <2>4, WithFacts
  <2>6. Shares(t, v) /\ SameInfos(t, v)  BY <1>2, <2>3, RegrownSame
  <2>7. Good(W)
    <3>1. S.cs[Len(S.cs)].k \in {"exec", "c"}  BY <1>4
    <3> QED  BY <3>1, <2>3, <2>5, <2>6, GoodAgain
  <2>8. PICK T : T = Do(W, "run")  OBVIOUS
  <2>9. Good(T) /\ T.L = W.L /\ T.cs = W.cs /\ T.cur = W.cur /\ T.op = "run"  BY <2>7, <2>8, GoodDo DEF Ops
  <2>10. Ready(T)
    <3>1. T.cs[Len(T.cs)] = f /\ T.L[T.cur] = v  BY <2>5, <2>9
    <3>2. RunReady(f, v)  BY <1>4 DEF RunReady
    <3>3. v.nCcalls < Limit  BY <2>6 DEF Shares
    <3> QED  BY <3>1, <3>2, <3>3, <2>9 DEF Ready
  <2>11. AfterC(S) = T  BY <1>2, <1>4, <2>2, <2>4, <2>8 DEF AfterC
  <2> QED  BY <2>9, <2>10, <2>11 DEF IInv
\* luaD_call returns
<1>5. CASE f.k = "call"
  <2>1. t.nCcalls - 1 \in Nat
    <3>1. PICK m : m = n - 1  OBVIOUS
    <3>2. Calls(S.cs, S.cur, m) = t.nCcalls - 1 /\ n >= 2
      <4>1. f # Host  BY <1>5 DEF Host
      <4> QED  BY <1>1, <1>2, <1>5, <3>1, <4>1, BelowTop
    <3>3. m \in 0..Len(S.cs)  BY <1>1, <1>2, <3>1, <3>2
    <3>4. Calls(S.cs, S.cur, m) \in Nat  BY <1>2, <3>3, CountTypes
    <3> QED  BY <3>2, <3>4
  <2>2. PICK k : k = t.nCcalls - 1  OBVIOUS
  <2>3. PICK v : v = [t EXCEPT !.nCcalls = k]  OBVIOUS
  <2>4. /\ v \in ThreadT /\ SameStack(t, v) /\ v.status = t.status /\ v.errfunc = t.errfunc /\ v.jmp = t.jmp
        /\ v.nCcalls = k
    BY <1>2, <2>1, <2>2, <2>3 DEF ThreadT, SameStack
  <2>5. PICK T : T = With(PopC(S), v)  OBVIOUS
  <2>6. /\ Good(T) /\ T.cur = S.cur /\ T.L[T.cur] = v /\ T.op = S.op /\ CallsFrame(T.cs[Len(T.cs)], f)
    <3>1. v.nCcalls = t.nCcalls - (IF f.k = "call" THEN 1 ELSE 0)  BY <1>5, <2>2, <2>4
    <3> QED  BY <3>1, <1>5, <2>4, <2>5, PopGood
  <2>7. Ready(T)
    <3>1. AfterReady(T.cs[Len(T.cs)])  BY <1>5, <2>6 DEF CallsFrame, AfterReady
    <3>2. v.nCcalls < Limit  BY <1>3, <2>2, <2>4
    <3> QED  BY <3>1, <3>2, <2>6 DEF Ready
  <2>8. AfterC(S) = T
    <3>1. AfterC(S) = With(PopC(S), [t EXCEPT !.nCcalls = @ - 1])  BY <1>2, <1>5 DEF AfterC
    <3>2. [t EXCEPT !.nCcalls = @ - 1] = v  BY <2>2, <2>3
    <3> QED  BY <3>1, <3>2, <2>5
  <2> QED  BY <2>6, <2>7, <2>8 DEF IInv
\* luaD_pcall returns
<1>6. CASE f.k = "pcall"
  <2>1. PICK T : T = PcallLeave(S, f)  OBVIOUS
  <2>2. PICK u : u = T.L[T.cur]  OBVIOUS
  <2>3. PICK b : b = T.cs[Len(T.cs)]  OBVIOUS
  <2>4. Good(T) /\ u.nCcalls = t.nCcalls /\ b.k = "c" /\ b.f \in {"host", "pcall", "xpcall"}
    BY <1>6, <2>1, <2>2, <2>3, LeaveFacts
  <2>5. u.nCcalls < Limit  BY <2>4
  <2>6. IInv(PcallDone(T))  BY <2>2, <2>3, <2>4, <2>5, PcallDoneInv
  <2>7. AfterC(S) = PcallDone(T)  BY <1>2, <1>6, <2>1 DEF AfterC
  <2> QED  BY <2>6, <2>7
\* the message handler returns, and the error is thrown
<1>7. CASE f.k = "msg"
  <2>1. PICK T : T = With(PopC(S), t)  OBVIOUS
  <2>2. Good(T) /\ CallsFrame(T.cs[Len(T.cs)], f)
    <3>1. SameStack(t, t)  BY DEF SameStack
    <3>2. t.nCcalls = t.nCcalls - (IF f.k = "call" THEN 1 ELSE 0)  BY <1>3, <1>7
    <3> QED  BY <3>1, <3>2, <1>2, <1>7, <2>1, PopGood
  <2>3. ErrorReady(T.cs[Len(T.cs)])  BY <1>7, <2>2 DEF CallsFrame, ErrorReady
  <2>4. IInv(Do(T, "throw"))  BY <2>2, <2>3, ThrowInv
  <2>5. T = PopC(S)
    <3>1. PICK P : P = PopC(S)  OBVIOUS
    <3>2. P \in StateT /\ P.L = S.L /\ P.cur = S.cur  BY <1>1, <1>2, <3>1, PopCFacts
    <3>3. [P EXCEPT !.L[S.cur] = t] = P  BY <3>2 DEF StateT
    <3> QED  BY <2>1, <3>1, <3>2, <3>3 DEF With
  <2>6. AfterC(S) = Do(PopC(S), "throw")  BY <1>2, <1>7 DEF AfterC
  <2> QED  BY <2>4, <2>5, <2>6
\* the library function that called back goes on
<1>8. CASE f.k = "c" /\ f.f = "callback"
  <2>1. PICK T : T = Do(S, "run")  OBVIOUS
  <2>2. Good(T) /\ T.L = S.L /\ T.cs = S.cs /\ T.cur = S.cur /\ T.op = "run"  BY <2>1, GoodDo DEF Ops
  <2>3. RunReady(f, t)
    <3>1. t.base \in Nat /\ t.base <= Len(t.stack) + 1 /\ Len(t.stack) \in Nat  BY <1>2, BaseFacts, ThreadFacts
    <3>2. t.base + 0 <= Len(t.stack) + 1  BY <3>1
    <3> QED  BY <3>2, <1>8 DEF RunReady, Arity
  <2>4. Ready(T)  BY <2>2, <2>3 DEF Ready
  <2>5. AfterC(S) = T  BY <1>2, <1>8, <2>1 DEF AfterC
  <2> QED  BY <2>2, <2>4, <2>5 DEF IInv
<1> QED  BY <1>4, <1>5, <1>6, <1>7, <1>8 DEF AfterReady

-----------------------------------------------------------------------------
(* luaV_execute *)

\* The registers of a call: the function and its arguments.
Laid(t, args) == [t EXCEPT !.stack = SubSeq(@, 1, t.base) \o <<Value>> \o args]
Registers(S, args) == With(S, Laid(S.L[S.cur], args))
\* The arguments of a call.
Arguments(args) == args \in Seq(Int) /\ Len(args) <= 3

\* What the registers of the call are, in its thread and in its state.
LaidIs(t, u, args) ==
    /\ u \in ThreadT /\ Sound(u) /\ Fits(u) /\ Shares(t, u) /\ SameInfos(t, u) /\ u.base = t.base
    /\ Len(u.stack) = t.base + 1 + Len(args) /\ Callable(u, t.base + 1)

\* They are within the stack that the function may use.
LEMMA LaidFacts ==
    ASSUME NEW t \in ThreadT, Sound(t), t.ci[Len(t.ci)].lua, NEW args, Arguments(args)
    PROVE  LaidIs(t, Laid(t, args), args)
<1>1. PICK b : b = t.base  OBVIOUS
<1>2. PICK l : l = Len(t.stack)  OBVIOUS
<1>3. PICK a : a = Len(args)  OBVIOUS
<1>4. PICK sl : sl = StackLast(t)  OBVIOUS
<1>5. PICK top : top = t.ci[Len(t.ci)].top  OBVIOUS
<1>6. /\ b \in Nat /\ b >= 2 /\ l \in Nat /\ b <= l /\ top = b + MaxStack /\ top <= sl /\ sl \in Int
      /\ MaxStack \in Nat /\ MaxStack >= 5 /\ t.stack \in Seq(Int)
  BY <1>1, <1>2, <1>4, <1>5, BaseFacts, ThreadFacts, Constants
<1>7. args \in Seq(Int) /\ a \in Nat /\ a <= 3
  <2>1. args \in Seq(Int) /\ a <= 3  BY <1>3 DEF Arguments
  <2> QED  BY <2>1, <1>3, LenProperties
<1>8. PICK e : e = <<Value>>  OBVIOUS
<1>9. e \in Seq(Int) /\ Len(e) = 1
  <2>1. Value \in Int  BY DEF Value
  <2> QED  BY <2>1, <1>8
<1>10. PICK p : p = SubSeq(t.stack, 1, b) \o e  OBVIOUS
<1>11. p \in Seq(Int) /\ Len(p) = b + 1 /\ \A i \in 1..b : p[i] = t.stack[i]
  <2>1. b \in 0..Len(t.stack)  BY <1>2, <1>6
  <2>2. /\ SubSeq(t.stack, 1, b) \o e \in Seq(Int) /\ Len(SubSeq(t.stack, 1, b) \o e) = b + Len(e)
        /\ \A i \in 1..b : (SubSeq(t.stack, 1, b) \o e)[i] = t.stack[i]
    BY <2>1, <1>6, <1>9, PrefixConcat
  <2> QED  BY <2>2, <1>9, <1>10, Zenon
<1>12. PICK s : s = p \o args  OBVIOUS
<1>13. s \in Seq(Int) /\ Len(s) = b + 1 + a /\ \A i \in 1..b : s[i] = t.stack[i]
  <2>1. /\ p \o args \in Seq(Int) /\ Len(p \o args) = Len(p) + Len(args)
        /\ \A i \in 1..(Len(p) + Len(args)) : (p \o args)[i] = IF i <= Len(p) THEN p[i] ELSE args[i - Len(p)]
    BY <1>7, <1>11, ConcatProperties
  <2>2. /\ s \in Seq(Int) /\ Len(s) = Len(p) + Len(args)
        /\ \A i \in 1..(Len(p) + Len(args)) : s[i] = IF i <= Len(p) THEN p[i] ELSE args[i - Len(p)]
    BY <2>1, <1>12, Zenon
  <2>3. \A i \in 1..b : i \in 1..(Len(p) + Len(args)) /\ i <= Len(p)  BY <1>3, <1>6, <1>7, <1>11
  <2>4. \A i \in 1..b : s[i] = t.stack[i]  BY <2>2, <2>3, <1>11
  <2> QED  BY <2>2, <2>4, <1>3, <1>11
<1>14. PICK u : u = [t EXCEPT !.stack = s]  OBVIOUS
<1>15. u \in ThreadT /\ u.stack = s /\ Regrown(t, u) /\ StackLast(u) = StackLast(t)
  BY <1>13, <1>14, Restacked
<1>16. u.base = t.base /\ u.ci = t.ci  BY <1>15 DEF Regrown, SameCalls
<1>17. Sound(u)
  <2>1. u.base <= Len(u.stack) + 1
    <3>1. b <= b + 1 + a + 1  BY <1>6, <1>7
    <3> QED  BY <3>1, <1>1, <1>13, <1>15, <1>16
  <2>2. \A i \in 1..Len(t.stack) : i < t.base => i <= Len(u.stack) /\ u.stack[i] = t.stack[i]
    <3> SUFFICES ASSUME NEW i \in 1..l, i < b PROVE i <= Len(s) /\ s[i] = t.stack[i]  BY <1>1, <1>2, <1>15
    <3>1. i \in 1..b /\ i <= b + 1 + a  BY <1>6, <1>7
    <3> QED  BY <3>1, <1>13
  <2>3. t.base <= Len(u.stack) /\ u.stack[t.base] = t.stack[t.base]
    <3>1. b \in 1..b /\ b <= b + 1 + a  BY <1>6, <1>7
    <3> QED  BY <3>1, <1>1, <1>13, <1>15
  <2> QED  BY <2>1, <2>2, <2>3, <1>15, SoundRestack
<1>18. Fits(u)
  <2>1. b + 1 + a < sl  BY <1>6, <1>7
  <2> QED  BY <2>1, <1>4, <1>13, <1>15 DEF Fits
<1>19. Shares(t, u) /\ SameInfos(t, u)  BY <1>15, RegrownSame
<1>20. Callable(u, b + 1)
  <2>1. b + 1 \in Nat /\ b <= b + 1 /\ b < b + 1 /\ b + 1 <= b + 1 + a  BY <1>6, <1>7
  <2> QED  BY <2>1, <1>1, <1>13, <1>15, <1>16 DEF Callable
<1>21. LaidIs(t, u, args)
  BY <1>1, <1>3, <1>13, <1>15, <1>16, <1>17, <1>18, <1>19, <1>20 DEF LaidIs
<1>22. Laid(t, args) = u
  <2>1. PICK r : r = SubSeq(t.stack, 1, b) \o e \o args  OBVIOUS
  <2>2. r = s  BY <2>1, <1>10, <1>12, Zenon
  <2>3. Laid(t, args) = [t EXCEPT !.stack = SubSeq(t.stack, 1, b) \o e \o args]  BY <1>1, <1>8 DEF Laid
  <2> QED  BY <2>1, <2>2, <2>3, <1>14, Zenon
<1> QED  BY <1>21, <1>22

\* The state before luaD_precall.
LEMMA RegistersGood ==
    ASSUME NEW S, Good(S), NEW t, t = S.L[S.cur], S.cs[Len(S.cs)].k = "exec", NEW args, Arguments(args),
           NEW T, T = Registers(S, args), NEW u, u = T.L[T.cur]
    PROVE  /\ Good(T) /\ T.cur = S.cur /\ T.cs = S.cs /\ LaidIs(t, u, args)
           /\ Above(T.cs, T.cur, t.base + 1)
<1>1. PICK n : n = Len(S.cs)  OBVIOUS
<1>2. S \in StateT /\ t \in ThreadT /\ Sound(t) /\ Fits(t) /\ n \in Nat  BY <1>1, GoodFacts
<1>3. t.ci[Len(t.ci)].lua  BY TopFacts
<1>4. PICK v : v = Laid(t, args)  OBVIOUS
<1>5. LaidIs(t, v, args)  BY <1>2, <1>3, <1>4, LaidFacts
<1>6. T = With(S, v)  BY <1>4 DEF Registers
<1>7. v \in ThreadT /\ Sound(v) /\ Fits(v) /\ Shares(t, v) /\ SameInfos(t, v)  BY <1>5 DEF LaidIs
<1>8. Moves(S, T, v) /\ T.cs = S.cs /\ T.cur = S.cur /\ T.L[S.cur] = v  BY <1>2, <1>6, <1>7, WithFacts
<1>9. Good(T)
  <2>1. S.cs[Len(S.cs)].k \in {"exec", "c"}  OBVIOUS
  <2> QED  BY <2>1, <1>7, <1>8, GoodAgain
<1>10. Above(T.cs, T.cur, t.base + 1)
  <2> SUFFICES ASSUME NEW i \in Pcalls(S.cs, S.cur) PROVE S.cs[i].oldtop <= t.base + 1  BY <1>8 DEF Above
  <2>1. PICK o : o = S.cs[i].oldtop  OBVIOUS
  <2>2. PICK fn : fn = t.ci[Len(t.ci)].func  OBVIOUS
  <2>3. o \in Nat /\ o <= fn
    <3>1. S.cs[n].k \in {"exec", "c"}  BY <1>1
    <3> QED  BY <3>1, <2>1, <2>2, <1>1, PcallFacts
  <2>4. fn \in Nat /\ fn < t.base /\ t.base \in Nat  BY <2>2, <1>2, BaseFacts
  <2>5. o <= t.base + 1  BY <2>3, <2>4
  <2> QED  BY <2>1, <2>5
<1> QED  BY <1>5, <1>8, <1>9, <1>10

\* OP_CALL of any function.
LEMMA CallInv ==
    ASSUME NEW S, Good(S), NEW t, t = S.L[S.cur], S.cs[Len(S.cs)].k = "exec", t.nCcalls < Limit,
           NEW args, Arguments(args), NEW f \in LuaFunctions \union (CFunctions \ {"host"}),
           f \notin LuaFunctions => Arity(f) <= Len(args)
    PROVE  IInv(Precall(Registers(S, args), f, t.base + 1, 1))
<1>1. PICK T : T = Registers(S, args)  OBVIOUS
<1>2. PICK u : u = T.L[T.cur]  OBVIOUS
<1>3. Good(T) /\ T.cur = S.cur /\ T.cs = S.cs /\ LaidIs(t, u, args) /\ Above(T.cs, T.cur, t.base + 1)
  BY <1>1, <1>2, RegistersGood
<1>4. /\ Callable(u, t.base + 1) /\ Len(u.stack) = t.base + 1 + Len(args) /\ u.nCcalls < Limit
  BY <1>3 DEF LaidIs, Shares
<1>5. f \notin LuaFunctions => t.base + 1 + Arity(f) <= Len(u.stack)
  <2>1. PICK n : n = Len(S.cs)  OBVIOUS
  <2>2. PICK a : a = Len(args)  OBVIOUS
  <2>3. PICK b : b = t.base  OBVIOUS
  <2>4. PICK r : r = Arity(f)  OBVIOUS
  <2>5. t \in ThreadT  BY <2>1, GoodFacts
  <2>6. b \in Nat  BY <2>3, <2>5, ThreadFacts
  <2>7. a \in Nat  BY <2>2, LenProperties DEF Arguments
  <2>8. r \in Nat  BY <2>4 DEF Arity
  <2>9. r <= a => b + 1 + r <= b + 1 + a  BY <2>6, <2>7, <2>8
  <2> QED  BY <2>2, <2>3, <2>4, <2>9, <1>4
<1>6. Calling(T, f, t.base + 1)
  <2>1. T.cs[Len(T.cs)].k \in {"exec", "call"}  BY <1>3
  <2> QED  BY <2>1, <1>2, <1>3, <1>4, <1>5 DEF Calling
<1>7. 1 \in {0, 1, MULTRET}  OBVIOUS
<1> QED  BY <1>1, <1>3, <1>6, <1>7, PrecallInv

\* A metamethod and its arguments, pushed above the registers.
Pushed3(c) == [c EXCEPT !.stack = @ \o <<Value, Value, Value>>]

\* callTMres.
LEMMA CallTMInv ==
    ASSUME NEW S, Good(S), NEW t, t = S.L[S.cur], S.cs[Len(S.cs)].k = "exec", t.nCcalls < Limit,
           NEW c, c = CheckStack(t, 3), NEW f \in {"lua", "yield"}
    PROVE  IInv(LuaDCall(With(S, Pushed3(c)), f, Top(c), 1))
<1>1. PICK n : n = Len(S.cs)  OBVIOUS
<1>2. S \in StateT /\ t \in ThreadT /\ Sound(t) /\ Fits(t) /\ n \in Nat  BY <1>1, GoodFacts
<1>3. /\ c \in ThreadT /\ Regrown(t, c) /\ c.stack = t.stack /\ Len(t.stack) + 3 < StackLast(c) /\ Sound(c)
  <2>1. 3 \in Nat  OBVIOUS
  <2> QED  BY <2>1, <1>2, CheckStackSound
<1>4. PICK l : l = Len(t.stack)  OBVIOUS
<1>5. PICK b : b = t.base  OBVIOUS
<1>6. l \in Nat /\ b \in Nat /\ b <= l + 1 /\ (t.ci[Len(t.ci)].lua => b <= l) /\ Len(c.stack) = l
  BY <1>2, <1>3, <1>4, <1>5, ThreadFacts, BaseFacts
<1>7. PICK v : v = Pushed3(c)  OBVIOUS
<1>8. v \in ThreadT /\ Sound(v) /\ Regrown(c, v) /\ Len(v.stack) = l + 3 /\ StackLast(v) = StackLast(c)
  <2>1. PICK e : e = <<Value, Value, Value>>  OBVIOUS
  <2>2. e \in Seq(Int) /\ Len(e) = 3
    <3>1. Value \in Int  BY DEF Value
    <3> QED  BY <2>1, <3>1
  <2>3. v = [c EXCEPT !.stack = @ \o e]  BY <1>7, <2>1, Zenon DEF Pushed3
  <2>4. v \in ThreadT /\ Sound(v) /\ Regrown(c, v) /\ Len(v.stack) = Len(c.stack) + Len(e)
        /\ StackLast(v) = StackLast(c)
    BY <1>3, <2>2, <2>3, ConcatSound
  <2>5. Len(v.stack) = l + 3  BY <1>6, <2>2, <2>4
  <2> QED  BY <2>4, <2>5
<1>9. Regrown(t, v)  BY <1>2, <1>3, <1>8, RegrownTwice
<1>10. Shares(t, v) /\ SameInfos(t, v) /\ v.base = t.base /\ v.ci = t.ci
  BY <1>2, <1>9, RegrownSame DEF Regrown, SameCalls
<1>11. Fits(v)
  <2>1. l + 3 < StackLast(c)  BY <1>3, <1>4
  <2> QED  BY <2>1, <1>8 DEF Fits
<1>12. PICK W : W = With(S, v)  OBVIOUS
<1>13. Moves(S, W, v) /\ W.cs = S.cs /\ W.cur = S.cur /\ W.L[S.cur] = v  BY <1>2, <1>8, <1>12, WithFacts
<1>14. Good(W)
  <2>1. S.cs[Len(S.cs)].k \in {"exec", "c"}  OBVIOUS
  <2> QED  BY <2>1, <1>8, <1>10, <1>11, <1>13, GoodAgain
<1>15. Top(c) = l + 1  BY <1>6 DEF Top
<1>16. PICK func : func = l + 1  OBVIOUS
<1>17. Callable(v, func)
  <2>1. func \in Nat /\ b <= func /\ (t.ci[Len(t.ci)].lua => b < func) /\ func <= l + 3  BY <1>6, <1>16
  <2> QED  BY <2>1, <1>5, <1>8, <1>10 DEF Callable
<1>18. Above(W.cs, W.cur, func)
  <2>1. \A i \in Pcalls(S.cs, S.cur) : S.cs[i].oldtop <= Len(t.stack) + 1  BY PcallFacts
  <2> QED  BY <2>1, <1>4, <1>13, <1>16 DEF Above
<1>19. f \notin LuaFunctions => func + Arity(f) <= Len(v.stack)
  <2>1. f \notin LuaFunctions => Arity(f) = 1  BY DEF LuaFunctions, Arity
  <2>2. func + 1 <= l + 3  BY <1>6, <1>16
  <2> QED  BY <2>1, <2>2, <1>8
<1>20. /\ f \in LuaFunctions \union (CFunctions \ {"host"}) /\ 1 \in {0, 1, MULTRET} /\ v.nCcalls < Limit
       /\ W.cs[Len(W.cs)].k \in {"pcall", "exec", "msg"} /\ v = W.L[W.cur]
  BY <1>10, <1>13 DEF LuaFunctions, CFunctions, Shares
<1>21. IInv(LuaDCall(W, f, func, 1))  BY <1>14, <1>17, <1>18, <1>19, <1>20, LuaDCallInv
<1> QED  BY <1>7, <1>12, <1>15, <1>16, <1>21

\* OP_TAILCALL.
TailStep(S) ==
    LET T == Registers(S, <<Value>>)
        v == CheckStack(Cur(T), MaxStack)
    IN IF Overflow(v) THEN OverflowError(With(T, v))
       ELSE With(T, SetLocal(MoveFrameDown(NewFrame(GrowCI(v), S.L[S.cur].base + 1, MULTRET, FALSE))))

\* The frames of the thread are as many as before.
TailIs(u, w) ==
    /\ w \in ThreadT /\ Sound(w) /\ Fits(w) /\ Shares(u, w) /\ Len(w.ci) = Len(u.ci)
    /\ \A d \in 1..Len(u.ci) : w.ci[d].lua = u.ci[d].lua /\ w.ci[d].func = u.ci[d].func
    /\ \A d \in 1..(Len(u.ci) - 1) : w.ci[d] = u.ci[d]
    /\ Len(w.stack) >= u.ci[Len(u.ci)].func

\* What luaD_pcall saved is below them.
LEMMA TailGood ==
    ASSUME NEW T, Good(T), NEW u, u = T.L[T.cur], T.cs[Len(T.cs)].k = "exec", NEW w, TailIs(u, w),
           NEW X, X = With(T, w)
    PROVE  Good(X) /\ X.cs = T.cs /\ X.cur = T.cur /\ X.L[X.cur] = w /\ X.op = T.op
<1>1. PICK n : n = Len(T.cs)  OBVIOUS
<1>2. T \in StateT /\ u \in ThreadT /\ Sound(u) /\ n \in Nat /\ Caught(u, T.cs, T.cur)  BY <1>1, GoodFacts
<1>3. /\ w \in ThreadT /\ Sound(w) /\ Fits(w) /\ Shares(u, w) /\ Len(w.ci) = Len(u.ci)
      /\ \A d \in 1..Len(u.ci) : w.ci[d].lua = u.ci[d].lua /\ w.ci[d].func = u.ci[d].func
      /\ \A d \in 1..(Len(u.ci) - 1) : w.ci[d] = u.ci[d]
      /\ Len(w.stack) >= u.ci[Len(u.ci)].func
  BY DEF TailIs
<1>4. X \in StateT /\ Moves(T, X, w) /\ X.cs = T.cs /\ X.cur = T.cur /\ X.L[T.cur] = w /\ X.op = T.op
  BY <1>2, <1>3, WithFacts
<1>5. Kept(u, T.cs, w, T.cs, T.cur)
  <2> SUFFICES ASSUME NEW i \in Pcalls(T.cs, T.cur)
               PROVE  /\ T.cs[i].ci \in Nat
                      /\ T.cs[i].oldtop <= Len(w.stack) + 1 /\ w.ci[T.cs[i].ci].base = u.ci[T.cs[i].ci].base
                      /\ T.cs[i].oldtop < w.ci[T.cs[i].ci].top
                      /\ \A d \in (T.cs[i].ci + 1)..Len(w.ci) : d \in 1..Len(u.ci) /\ w.ci[d].func = u.ci[d].func
    BY DEF Kept
  <2>1. PICK p : p = T.cs[i].ci  OBVIOUS
  <2>2. PICK o : o = T.cs[i].oldtop  OBVIOUS
  <2>3. PICK k : k = Len(u.ci)  OBVIOUS
  <2>4. PICK fn : fn = u.ci[k].func  OBVIOUS
  <2>5. PICK l : l = Len(w.stack)  OBVIOUS
  <2>6. p \in 1..k /\ p < k /\ o \in Nat /\ o <= fn /\ o < u.ci[p].top
    <3>1. T.cs[n].k \in {"exec", "c"}  BY <1>1
    <3> QED  BY <3>1, <1>1, <2>1, <2>2, <2>3, <2>4, PcallFacts
  <2>7. k \in Nat /\ fn \in Nat /\ l \in Nat /\ l >= fn
    BY <1>2, <1>3, <2>3, <2>4, <2>5, BaseFacts, ThreadFacts
  <2>8. p \in Nat /\ p \in 1..(k - 1) /\ o <= l + 1  BY <2>6, <2>7
  <2>9. w.ci[p] = u.ci[p]  BY <2>3, <2>8, <1>3
  <2>10. \A d \in (p + 1)..k : d \in 1..k  BY <2>6, <2>7
  <2> QED  BY <2>1, <2>2, <2>3, <2>5, <2>6, <2>8, <2>9, <2>10, <1>3
<1>6. Caught(w, T.cs, T.cur)  BY <1>2, <1>5, CaughtTo
<1>7. Good(X)
  <2>1. \A d \in 1..Len(u.ci) : w.ci[d].lua = u.ci[d].lua  BY <1>3
  <2> QED  BY <1>3, <1>4, <1>6, <2>1, GoodStay
<1> QED  BY <1>4, <1>7

\* luaV_execute goes on with the function called.
LEMMA TailInv ==
    ASSUME NEW S, Good(S), NEW t, t = S.L[S.cur], S.cs[Len(S.cs)].k = "exec", t.nCcalls < Limit, S.op = "run"
    PROVE  IInv(TailStep(S))
<1>1. PICK args : args = <<Value>>  OBVIOUS
<1>2. Arguments(args)
  <2>1. Value \in Int  BY DEF Value
  <2> QED  BY <1>1, <2>1 DEF Arguments
<1>3. PICK T : T = Registers(S, args)  OBVIOUS
<1>4. PICK u : u = T.L[T.cur]  OBVIOUS
<1>5. Good(T) /\ T.cur = S.cur /\ T.cs = S.cs /\ LaidIs(t, u, args)  BY <1>2, <1>3, <1>4, RegistersGood
<1>6. /\ u \in ThreadT /\ Sound(u) /\ Fits(u) /\ Shares(t, u) /\ SameInfos(t, u) /\ u.base = t.base
      /\ Callable(u, t.base + 1) /\ u.nCcalls < Limit
  BY <1>5 DEF LaidIs, Shares
<1>7. T \in StateT /\ Cur(T) = u /\ T.op = "run"
  <2>1. PICK n : n = Len(T.cs)  OBVIOUS
  <2>2. PICK m : m = Len(S.cs)  OBVIOUS
  <2>3. T \in StateT /\ Cur(T) = u  BY <1>4, <1>5, <2>1, GoodFacts
  <2>4. PICK x : x = Laid(t, args)  OBVIOUS
  <2>5. S \in StateT /\ t \in ThreadT /\ Sound(t)  BY <2>2, GoodFacts
  <2>6. t.ci[Len(t.ci)].lua  BY TopFacts
  <2>7. x \in ThreadT  BY <1>2, <2>4, <2>5, <2>6, LaidFacts DEF LaidIs
  <2>8. T = With(S, x)  BY <1>3, <2>4 DEF Registers
  <2> QED  BY <2>3, <2>5, <2>7, <2>8, WithFacts
<1>8. PICK v : v = CheckStack(u, MaxStack)  OBVIOUS
<1>9. /\ v \in ThreadT /\ Regrown(u, v) /\ v.stack = u.stack /\ Len(u.stack) + MaxStack < StackLast(v)
      /\ Sound(v) /\ Fits(v)
  BY <1>6, <1>8, Constants, CheckStackSound
<1>10. CASE Overflow(v)
  <2>1. PICK W : W = With(T, v)  OBVIOUS
  <2>2. Moves(T, W, v) /\ W.cs = T.cs /\ W.cur = T.cur /\ W.L[T.cur] = v  BY <1>7, <1>9, <2>1, WithFacts
  <2>3. Shares(u, v) /\ SameInfos(u, v)  BY <1>6, <1>9, RegrownSame
  <2>4. Good(W)
    <3>1. T.cs[Len(T.cs)].k \in {"exec", "c"}  BY <1>5
    <3> QED  BY <3>1, <1>4, <1>5, <1>9, <2>2, <2>3, GoodAgain
  <2>5. ErrorReady(W.cs[Len(W.cs)])  BY <1>5, <2>2 DEF ErrorReady
  <2>6. v = W.L[W.cur] /\ v.nCcalls < Limit  BY <1>6, <2>2, <2>3 DEF Shares
  <2>7. IInv(OverflowError(W))  BY <2>4, <2>5, <2>6, OverflowErrorInv
  <2>8. TailStep(S) = OverflowError(W)  BY <1>1, <1>3, <1>7, <1>8, <1>10, <2>1 DEF TailStep
  <2> QED  BY <2>7, <2>8
<1>11. CASE ~ Overflow(v)
  <2>1. PICK g : g = GrowCI(v)  OBVIOUS
  <2>2. /\ g \in ThreadT /\ SameCalls(v, g) /\ g.stack = v.stack /\ StackLast(g) = StackLast(v) /\ Sound(g)
    BY <1>9, <2>1, GrowCISound
  <2>3. g.ci = u.ci /\ g.base = u.base /\ Shares(u, g)  BY <1>9, <2>2 DEF Regrown, SameCalls, Shares
  <2>4. PICK k : k = Len(u.ci)  OBVIOUS
  <2>5. u.ci[k].lua /\ k >= 2
    <3>1. T.cs[Len(T.cs)].k = "exec"  BY <1>5
    <3>2. PICK f : f = T.cs[Len(T.cs)]  OBVIOUS
    <3>3. f.n \in Nat /\ f.n >= 1 /\ k - f.n >= 1 /\ u.ci[k].lua  BY <1>4, <1>5, <2>4, <3>1, <3>2, TopFacts
    <3>4. k \in Nat  BY <1>6, <2>4, ThreadFacts
    <3>5. k >= 2  BY <3>3, <3>4
    <3> QED  BY <3>3, <3>5
  <2>6. Fits(g) /\ Len(g.stack) + MaxStack < StackLast(g)  BY <1>9, <2>2 DEF Fits
  <2>7. Callable(g, g.base + 1)  BY <1>6, <1>9, <2>2, <2>3 DEF Callable
  <2>8. PICK w : w = SetLocal(MoveFrameDown(NewFrame(g, g.base + 1, MULTRET, FALSE)))  OBVIOUS
  <2>9. TailIs(g, w)
    <3>1. g.ci[Len(g.ci)].lua /\ Len(g.ci) >= 2  BY <2>3, <2>4, <2>5
    <3> QED  BY <3>1, <2>2, <2>6, <2>7, <2>8, TailSound DEF TailIs
  <2>10. TailIs(u, w)  BY <2>3, <2>9 DEF TailIs, Shares
  <2>11. PICK X : X = With(T, w)  OBVIOUS
  <2>12. Good(X) /\ X.cs = T.cs /\ X.cur = T.cur /\ X.L[X.cur] = w /\ X.op = T.op
    BY <1>4, <1>5, <2>10, <2>11, TailGood
  <2>13. Ready(X)
    <3>1. X.op = "run" /\ X.cs[Len(X.cs)].k = "exec"  BY <1>5, <1>7, <2>12
    <3>2. w.nCcalls < Limit  BY <1>6, <2>10 DEF TailIs, Shares
    <3> QED  BY <3>1, <3>2, <2>12 DEF Ready, RunReady
  <2>14. TailStep(S) = X
    <3>1. g.base + 1 = t.base + 1  BY <1>6, <2>3
    <3>2. TailStep(S) = With(T, SetLocal(MoveFrameDown(NewFrame(g, t.base + 1, MULTRET, FALSE))))
      BY <1>1, <1>3, <1>7, <1>8, <1>11, <2>1 DEF TailStep
    <3> QED  BY <3>1, <3>2, <2>8, <2>11
  <2> QED  BY <2>12, <2>13, <2>14 DEF IInv
<1> QED  BY <1>10, <1>11

-----------------------------------------------------------------------------
(* Returns of Lua functions *)

\* The thread when its function returned one result.
Returned(t) == Poscall(SetTop(LuaFClose(t, t.base), t.base + 2), t.base + 1)

\* v is t without its last call.
CallLess(t, v) ==
    /\ v \in ThreadT /\ Sound(v) /\ Fits(v) /\ Shares(t, v) /\ Len(v.ci) = Len(t.ci) - 1
    /\ \A d \in 1..(Len(t.ci) - 1) : v.ci[d] = t.ci[d]
    /\ t.ci[Len(t.ci)].func <= Len(v.stack) + 1

\* OP_RETURN closes the function's upvalues and moves its result.
LEMMA ReturnSound ==
    ASSUME NEW t \in ThreadT, Sound(t), t.ci[Len(t.ci)].lua, Len(t.ci) >= 2
    PROVE  CallLess(t, Returned(t))
<1>1. PICK b : b = t.base  OBVIOUS
<1>2. PICK top : top = t.ci[Len(t.ci)].top  OBVIOUS
<1>3. b \in Nat /\ b >= 2 /\ top \in Nat /\ top = b + MaxStack /\ MaxStack \in Nat /\ MaxStack >= 5
      /\ top <= StackLast(t) /\ StackLast(t) \in Int
  BY <1>1, <1>2, BaseFacts, ThreadFacts, Constants
<1>4. PICK c : c = LuaFClose(t, b)  OBVIOUS
<1>5. /\ c \in ThreadT /\ Sound(c) /\ SameCalls(t, c) /\ c.stack = t.stack /\ StackLast(c) = StackLast(t)
      /\ \A x \in c.open : x \in t.open /\ x < b
  BY <1>4, CloseSound
<1>6. c.ci = t.ci /\ c.base = b /\ Shares(t, c)  BY <1>1, <1>5 DEF SameCalls, Shares
<1>7. PICK p : p = b + 2  OBVIOUS
<1>8. PICK r : r = SetTop(c, p)  OBVIOUS
<1>9. r \in ThreadT /\ Sound(r) /\ Regrown(c, r) /\ Len(r.stack) = p - 1 /\ StackLast(r) = StackLast(c)
  <2>1. p \in Nat /\ c.base <= p /\ c.base < p  BY <1>3, <1>6, <1>7
  <2> QED  BY <2>1, <1>5, <1>8, SetTopSound
<1>10. r.ci = t.ci /\ r.base = b /\ Shares(t, r) /\ r.open = c.open
  BY <1>6, <1>9 DEF Regrown, SameCalls, Shares
<1>11. PICK first : first = b + 1  OBVIOUS
<1>12. PICK v : v = Poscall(r, first)  OBVIOUS
<1>13. /\ v \in ThreadT /\ Sound(v) /\ Fits(v) /\ Shares(r, v) /\ v.ci = Front(r.ci)
       /\ r.ci[Len(r.ci)].func <= Len(v.stack) + 1
  <2>1. first \in Nat /\ b <= first /\ first <= p - 1 + 1 /\ p - 1 <= StackLast(t)  BY <1>3, <1>7, <1>11
  <2>2. Len(r.ci) >= 2 /\ first <= Len(r.stack) + 1 /\ Len(r.stack) <= StackLast(r)
    BY <2>1, <1>5, <1>9, <1>10
  <2>3. \A x \in r.open : x < r.base  BY <1>5, <1>10
  <2> QED  BY <2>1, <2>2, <2>3, <1>9, <1>10, <1>12, PoscallSound
<1>14. Len(v.ci) = Len(t.ci) - 1 /\ \A d \in 1..(Len(t.ci) - 1) : v.ci[d] = t.ci[d]
  <2>1. PICK q : q = t.ci  OBVIOUS
  <2>2. q \in Seq(CallInfo) /\ Len(q) >= 1
    <3>1. t.ci \in Seq(CallInfo) /\ Len(t.ci) \in Nat  BY ThreadFacts
    <3> QED  BY <3>1, <2>1
  <2>3. Len(Front(q)) = Len(q) - 1 /\ \A d \in 1..(Len(q) - 1) : Front(q)[d] = q[d]  BY <2>2, FrontFacts
  <2>4. v.ci = Front(q)  BY <2>1, <1>10, <1>13
  <2> QED  BY <2>1, <2>3, <2>4
<1>15. Shares(t, v)  BY <1>10, <1>13 DEF Shares
<1>16. v = Returned(t)  BY <1>1, <1>4, <1>7, <1>8, <1>11, <1>12 DEF Returned
<1> QED  BY <1>10, <1>13, <1>14, <1>15, <1>16 DEF CallLess

\* OP_RETURN: to the function that runs in the same luaV_execute, to lua_resume or to luaD_call.
ReturnStep(S) ==
    LET v == Returned(S.L[S.cur])
        T == With(S, v)
    IN IF S.cs[Len(S.cs)].n > 1 THEN [With(T, Continue(v)) EXCEPT !.cs[Len(S.cs)].n = @ - 1]
       ELSE IF S.cs[Len(S.cs) - 1].k = "resume" THEN ResumeReturns(PopC(T), "ok", TRUE)
       ELSE Do(PopC(T), "after")

\* luaV_execute runs one function less.
LEMMA ReturnMore ==
    ASSUME NEW S, Good(S), NEW t, t = S.L[S.cur], NEW f, f = S.cs[Len(S.cs)], f.k = "exec", f.n > 1,
           t.nCcalls < Limit, S.op = "run", NEW v, CallLess(t, v)
    PROVE  IInv([With(With(S, v), Continue(v)) EXCEPT !.cs[Len(S.cs)].n = @ - 1])
<1>1. PICK n : n = Len(S.cs)  OBVIOUS
<1>2. /\ S \in StateT /\ S.cur \in Thread /\ S.cs \in Seq(CFrame) /\ t \in ThreadT /\ n \in Nat /\ n >= 1
      /\ t.status = "ok" /\ f.th = S.cur /\ t.nCcalls <= Limit /\ f \in CFrame
  BY <1>1, GoodFacts
<1>3. /\ v \in ThreadT /\ Sound(v) /\ Fits(v) /\ Shares(t, v) /\ Len(v.ci) = Len(t.ci) - 1
      /\ t.ci[Len(t.ci)].func <= Len(v.stack) + 1
  BY DEF CallLess
<1>4. \A d \in 1..(Len(t.ci) - 1) : v.ci[d] = t.ci[d]  BY DEF CallLess
<1>5. PICK W : W = With(S, v)  OBVIOUS
<1>6. W \in StateT /\ Moves(S, W, v) /\ W.cs = S.cs /\ W.cur = S.cur /\ W.op = "run" /\ W.L[S.cur] = v
  BY <1>2, <1>3, <1>5, WithFacts
<1>7. Len(t.ci) \in Nat /\ t.nCcalls \in Nat  BY <1>2, ThreadFacts
<1>8. f.n \in Nat /\ f.n > 1  BY <1>2, FrameFacts
<1>9. PICK g : g = [f EXCEPT !.n = @ - 1]  OBVIOUS
<1>10. g \in CFrame /\ g.n = f.n - 1 /\ g.k = "exec" /\ g.th = S.cur
  <2>1. f \in [k : {"exec"}, th : Thread, n : Nat \ {0}]  BY <1>2 DEF CFrame
  <2>2. f.n - 1 \in Nat \ {0}  BY <1>8
  <2>3. g \in [k : {"exec"}, th : Thread, n : Nat \ {0}] /\ g.n = f.n - 1 /\ g.k = "exec" /\ g.th = S.cur
    BY <2>1, <2>2, <1>2, <1>9
  <2> QED  BY <2>3 DEF CFrame
<1>11. PICK D : D = [S.cs EXCEPT ![n] = g]  OBVIOUS
<1>12. D \in Seq(CFrame) /\ Len(D) = n /\ D[n] = g /\ \A i \in 1..n : i # n => D[i] = S.cs[i]
  <2>1. \A i \in 1..n : S.cs[i] \in CFrame  BY <1>1, <1>2, ElementOfSeq
  <2>2. DOMAIN S.cs = 1..n  BY <1>1, <1>2, LenProperties
  <2>3. D = [i \in 1..n |-> IF i = n THEN g ELSE S.cs[i]]  BY <1>11, <2>2
  <2>4. D \in [1..n -> CFrame]  BY <2>3, <2>1, <1>10
  <2>5. D \in Seq(CFrame) /\ Len(D) = n  BY <2>4, <1>2, FunctionIsSeq
  <2>6. n \in 1..n  BY <1>2
  <2> QED  BY <2>2, <2>5, <2>6, <1>11
<1>13. PICK T : T = [W EXCEPT !.cs = D]  OBVIOUS
<1>14. Moves(S, T, v) /\ T.cs = D /\ T \in StateT /\ T.cur = S.cur /\ T.op = "run" /\ T.L[S.cur] = v
  <2>1. T \in StateT /\ T.L = W.L /\ T.cur = W.cur /\ T.op = W.op /\ T.cs = D  BY <1>6, <1>12, <1>13, FramesFacts
  <2> QED  BY <2>1, <1>6 DEF Moves
<1>15. SameTo(S.cs, D, n - 1)
  <2>1. \A i \in 1..(n - 1) : i \in 1..n /\ i # n  BY <1>2
  <2>2. n - 1 \in 0..n  BY <1>2
  <2>3. \A i \in 1..(n - 1) : D[i] = S.cs[i]  BY <2>1, <1>12
  <2>4. Len(D) = n /\ Len(S.cs) = n  BY <1>12, <1>1
  <2> QED  BY <2>2, <2>3, <2>4 DEF SameTo
<1>16. Caught(v, D, S.cur)
  <2>1. \A i \in (n - 1 + 1)..Len(D) : D[i].k # "pcall"
    <3> SUFFICES ASSUME NEW i \in (n - 1 + 1)..Len(D) PROVE i = n  BY <1>10, <1>12
    <3> QED  BY <1>2, <1>12
  <2>2. Older(S.cs, D, S.cur)  BY <2>1, <1>2, <1>12, <1>15, OlderSame
  <2>3. S.cs[Len(S.cs)].k \in {"exec", "c"}  OBVIOUS
  <2>4. \A d \in 1..(Len(t.ci) - 1) :
           v.ci[d].func = t.ci[d].func /\ v.ci[d].base = t.ci[d].base /\ v.ci[d].top = t.ci[d].top
    BY <1>4
  <2> QED  BY <2>2, <2>3, <2>4, <1>3, CaughtReturn
<1>17. Len(t.ci) - f.n >= 1 /\ \A d \in (Len(t.ci) - f.n + 1)..Len(t.ci) : t.ci[d].lua  BY TopFacts
<1>18. Rerun(t, v, f, g)
  <2>1. PICK a : a = Len(t.ci)  OBVIOUS
  <2>2. PICK m : m = f.n  OBVIOUS
  <2>3. a \in Nat /\ m \in Nat /\ m > 1 /\ a - m >= 1  BY <2>1, <2>2, <1>7, <1>8, <1>17
  <2>4. a - 1 = a - m + (m - 1)  BY <2>3
  <2>5. Len(v.ci) = Len(t.ci) - f.n + g.n  BY <2>1, <2>2, <2>4, <1>3, <1>10
  <2>6. \A d \in 1..(a - m) : d \in 1..(a - 1)  BY <2>3
  <2>7. \A d \in (a - m + 1)..(a - 1) : d \in (a - m + 1)..a /\ d \in 1..(a - 1)  BY <2>3
  <2>8. \A d \in 1..(Len(t.ci) - f.n) : v.ci[d].lua = t.ci[d].lua  BY <2>1, <2>2, <2>6, <1>4
  <2>9. \A d \in (Len(t.ci) - f.n + 1)..Len(v.ci) : v.ci[d].lua  BY <2>1, <2>2, <2>7, <1>3, <1>4, <1>17
  <2> QED  BY <2>5, <2>8, <2>9, <1>2, <1>3 DEF Rerun, Shares
<1>19. v.nCcalls <= Limit /\ v.nCcalls < Limit  BY <1>2, <1>3 DEF Shares
<1>20. Good(T)
  <2>1. Len(T.cs) = Len(S.cs) /\ SameTo(S.cs, T.cs, Len(S.cs) - 1) /\ g = T.cs[Len(S.cs)]
    BY <1>1, <1>12, <1>14, <1>15
  <2>2. Caught(v, T.cs, S.cur)  BY <1>14, <1>16
  <2> QED  BY <2>1, <2>2, <1>3, <1>10, <1>14, <1>18, <1>19, GoodTop
\* it goes on
<1>21. T.cs[Len(T.cs)].k = "exec" /\ T.L[T.cur] = v  BY <1>10, <1>12, <1>14
<1>22. v.ci[Len(v.ci)].lua
  <2>1. PICK h : h = T.cs[Len(T.cs)]  OBVIOUS
  <2>2. h.k = "exec" /\ v = T.L[T.cur]  BY <2>1, <1>21
  <2> QED  BY <2>1, <2>2, <1>20, TopFacts
<1>23. PICK w : w = Continue(v)  OBVIOUS
<1>24. w \in ThreadT /\ Sound(w) /\ Regrown(v, w) /\ Fits(w)  BY <1>3, <1>22, <1>23, ContinueSound
<1>25. PICK X : X = With(T, w)  OBVIOUS
<1>26. Moves(T, X, w) /\ X.cs = T.cs /\ X.cur = T.cur /\ X.L[T.cur] = w /\ X.op = T.op
  BY <1>14, <1>24, <1>25, WithFacts
<1>27. Shares(v, w) /\ SameInfos(v, w)  BY <1>3, <1>24, RegrownSame
<1>28. Good(X)
  <2>1. T.cs[Len(T.cs)].k \in {"exec", "c"} /\ v = T.L[T.cur]  BY <1>21
  <2> QED  BY <2>1, <1>20, <1>24, <1>26, <1>27, GoodAgain
<1>29. Ready(X)
  <2>1. w.nCcalls < Limit  BY <1>19, <1>27 DEF Shares
  <2>2. X.op = "run" /\ X.cs[Len(X.cs)].k = "exec" /\ X.L[X.cur] = w  BY <1>14, <1>21, <1>26
  <2> QED  BY <2>1, <2>2 DEF Ready, RunReady
<1>30. [With(With(S, v), Continue(v)) EXCEPT !.cs[Len(S.cs)].n = @ - 1] = X
  <2>1. PICK Y : Y = With(W, w)  OBVIOUS
  <2>2. Y \in StateT /\ Y.cs = S.cs /\ Y.cur = S.cur /\ Y.op = "run" /\ Y.L[S.cur] = w
        /\ \A o \in Thread : o # S.cur => Y.L[o] = S.L[o]
    <3>1. Y \in StateT /\ Moves(W, Y, w) /\ Y.cs = W.cs /\ Y.op = W.op /\ Y.cur = W.cur /\ Y.L[W.cur] = w
      BY <2>1, <1>6, <1>24, WithFacts
    <3> QED  BY <3>1, <1>6 DEF Moves
  <2>3. [Y EXCEPT !.cs[n].n = @ - 1] = [Y EXCEPT !.cs = D]
    <3>1. [Y EXCEPT !.cs[n].n = @ - 1] = [Y EXCEPT !.cs = [Y.cs EXCEPT ![n] = [Y.cs[n] EXCEPT !.n = @ - 1]]]
      BY <2>2 DEF StateT
    <3>2. [Y.cs[n] EXCEPT !.n = @ - 1] = g  BY <2>2, <1>1, <1>9
    <3>3. [Y.cs EXCEPT ![n] = g] = D  BY <2>2, <1>11
    <3> QED  BY <3>1, <3>2, <3>3
  <2>4. PICK Z : Z = [Y EXCEPT !.cs = D]  OBVIOUS
  <2>5. Z \in StateT /\ Z.L = Y.L /\ Z.cur = Y.cur /\ Z.op = Y.op /\ Z.cs = D  BY <2>2, <2>4, <1>12, FramesFacts
  <2>6. X \in StateT /\ X.cur = S.cur /\ X.op = "run" /\ X.cs = D /\ X.L[S.cur] = w
        /\ \A o \in Thread : o # S.cur => X.L[o] = S.L[o]
    BY <1>14, <1>26 DEF Moves
  <2>7. Z.L = X.L
    <3>1. Z.L \in [Thread -> ThreadT] /\ X.L \in [Thread -> ThreadT]  BY <2>5, <2>6, StateFacts
    <3>2. \A o \in Thread : Z.L[o] = X.L[o]  BY <2>2, <2>5, <2>6
    <3> QED  BY <3>1, <3>2
  <2>8. Z.ret = X.ret
    <3>1. W \in StateT /\ T \in StateT /\ T.ret = W.ret  BY <1>6, <1>12, <1>13, FramesFacts
    <3>2. X.ret = T.ret  BY <3>1, <1>24, <1>25, WithFacts
    <3>3. Y.ret = W.ret  BY <2>1, <3>1, <1>24, WithFacts
    <3>4. Z.ret = Y.ret  BY <2>2, <2>4, <1>12, FramesFacts
    <3> QED  BY <3>1, <3>2, <3>3, <3>4
  <2>9. Z = X  BY <2>2, <2>5, <2>6, <2>7, <2>8 DEF StateT
  <2> QED  BY <2>1, <2>3, <2>4, <2>9, <1>1, <1>5, <1>23
<1> QED  BY <1>28, <1>29, <1>30 DEF IInv

\* The body of a coroutine: it is all that the coroutine runs.
LEMMA BodyFacts ==
    ASSUME NEW S, Good(S), NEW t, t = S.L[S.cur], NEW n, n = Len(S.cs), S.cs[n].k = "exec", ~ (S.cs[n].n > 1),
           n >= 2, S.cs[n - 1].k = "resume"
    PROVE  t.nCcalls = 0 /\ t.errfunc = 0 /\ Len(t.ci) = 2 /\ ~ t.ci[1].lua /\ S.cs[n - 1].th = S.cur
<1>1. PICK C : C = S.cs  OBVIOUS
<1>2. PICK th : th = S.cur  OBVIOUS
<1>3. /\ C \in Seq(CFrame) /\ Shape(C) /\ Runner(t, C, th) /\ n = Len(C) /\ n \in Nat /\ C[n] \in CFrame
      /\ C[n].th = th /\ C[n].k = "exec" /\ C[n - 1].k = "resume"
  BY <1>1, <1>2, GoodFacts
<1>4. C[n].n = 1 /\ Runs(C[n]) = 1
  <2>1. PICK m : m = C[n].n  OBVIOUS
  <2>2. m \in Nat \ {0} /\ Runs(C[n]) = m  BY <2>1, <1>3, FrameFacts
  <2>3. ~ (m > 1)  BY <2>1, <1>1
  <2>4. m = 1  BY <2>2, <2>3
  <2> QED  BY <2>1, <2>2, <2>4
<1>5. n \in 1..Len(C) /\ n - 1 \in 1..Len(C) /\ n - 2 \in 0..Len(C) /\ n - 2 \in Nat /\ n - 1 - 1 = n - 2
      /\ n \in 2..Len(C)
  BY <1>3
<1>6. C[n - 1].th = th
  <2>1. CallsFrame(C[n - 1], C[n])  BY <1>3, <1>5 DEF Shape
  <2> QED  BY <2>1, <1>3 DEF CallsFrame
<1>7. \A m \in 1..(n - 1 - 1) : C[m].th # C[n - 1].th  BY <1>3, <1>5, WaiterBelow
<1>8. Calls(C, th, n - 2) = 0 /\ Infos(C, th, n - 2) = 1 /\ HandlerOf(C, th, n - 2) = 0
  <2>1. \A m \in (0 + 1)..(n - 2) : C[m].th # th  BY <1>5, <1>6, <1>7
  <2>2. 0 \in Nat /\ 0 <= n - 2  BY <1>5
  <2>3. /\ Calls(C, th, n - 2) = Calls(C, th, 0) /\ Infos(C, th, n - 2) = Infos(C, th, 0)
        /\ HandlerOf(C, th, n - 2) = HandlerOf(C, th, 0)
    BY <2>1, <2>2, <1>5, CountStill
  <2> QED  BY <2>3, CountNone
<1>9. Calls(C, th, n - 1) = 0 /\ Infos(C, th, n - 1) = 1 /\ HandlerOf(C, th, n - 1) = 0
  <2>1. Runs(C[n - 1]) = 0
    <3>1. C[n - 1] \in CFrame  BY <1>3, <1>5, ElementOfSeq
    <3> QED  BY <3>1, <1>3, FrameFacts
  <2>2. PICK j : j = n - 1  OBVIOUS
  <2>3. j \in 1..Len(C) /\ j - 1 = n - 2 /\ C[j].th = th /\ C[j].k = "resume" /\ Runs(C[j]) = 0
    BY <2>1, <2>2, <1>3, <1>5, <1>6
  <2>4. /\ Calls(C, th, j) = Calls(C, th, j - 1) + 0 /\ Infos(C, th, j) = Infos(C, th, j - 1) + 0
        /\ HandlerOf(C, th, j) = HandlerOf(C, th, j - 1)
    BY <2>3, <1>3, CountStep
  <2> QED  BY <2>2, <2>3, <2>4, <1>8
<1>10. Calls(C, th, n) = 0 /\ Infos(C, th, n) = 2 /\ HandlerOf(C, th, n) = 0
  <2>1. /\ Calls(C, th, n) = Calls(C, th, n - 1) + 0 /\ Infos(C, th, n) = Infos(C, th, n - 1) + 1
        /\ HandlerOf(C, th, n) = HandlerOf(C, th, n - 1)
    BY <1>3, <1>4, <1>5, CountStep
  <2> QED  BY <2>1, <1>9
<1>11. ~ t.ci[1].lua  BY <1>3 DEF Runner, Kinds
<1> QED  BY <1>1, <1>2, <1>3, <1>6, <1>10, <1>11 DEF Runner

\* The last function of a luaV_execute returns: the frame is popped.
PopTo(S, v, X) == X \in StateT /\ X.cur = S.cur /\ X.L[X.cur] = v /\ Moves(S, X, v) /\ CutTo(S.cs, X.cs, Len(S.cs) - 1)

\* The frame of luaV_execute is popped.
LEMMA PopToFacts ==
    ASSUME NEW S, Good(S), NEW v \in ThreadT, NEW X, X = PopC(With(S, v))
    PROVE  PopTo(S, v, X)
<1>1. PICK n : n = Len(S.cs)  OBVIOUS
<1>2. S \in StateT /\ n \in Nat /\ n >= 1  BY <1>1, GoodFacts
<1>3. PICK W : W = With(S, v)  OBVIOUS
<1>4. W \in StateT /\ Moves(S, W, v) /\ W.cs = S.cs /\ W.cur = S.cur /\ W.L[S.cur] = v  BY <1>2, <1>3, WithFacts
<1>5. X = PopC(W)  BY <1>3
<1>6. Len(W.cs) >= 1  BY <1>1, <1>2, <1>4
<1>7. X \in StateT /\ X.L = W.L /\ X.cur = W.cur /\ CutTo(W.cs, X.cs, Len(W.cs) - 1)  BY <1>4, <1>5, <1>6, PopCFacts
<1> QED  BY <1>4, <1>7 DEF PopTo, Moves

\* The body of a coroutine returns to lua_resume.
LEMMA ReturnCo ==
    ASSUME NEW S, Good(S), NEW t, t = S.L[S.cur], NEW n, n = Len(S.cs), S.cs[n].k = "exec", ~ (S.cs[n].n > 1),
           n >= 2, S.cs[n - 1].k = "resume", NEW v, CallLess(t, v)
    PROVE  IInv(ResumeReturns(PopC(With(S, v)), "ok", TRUE))
<1>1. t.nCcalls = 0 /\ t.errfunc = 0 /\ Len(t.ci) = 2 /\ ~ t.ci[1].lua /\ S.cs[n - 1].th = S.cur  BY BodyFacts
<1>2. n \in Nat /\ S.cs[n].th = S.cur /\ S.cur \in Thread  BY GoodFacts
<1>3. v \in ThreadT /\ Sound(v) /\ Fits(v) /\ Shares(t, v) /\ Len(v.ci) = 1 /\ ~ v.ci[1].lua
  <2>1. v \in ThreadT /\ Sound(v) /\ Fits(v) /\ Shares(t, v) /\ Len(v.ci) = Len(t.ci) - 1  BY DEF CallLess
  <2>2. \A d \in 1..(Len(t.ci) - 1) : v.ci[d] = t.ci[d]  BY DEF CallLess
  <2>3. 1 \in 1..(Len(t.ci) - 1)  BY <1>1
  <2> QED  BY <2>1, <2>2, <2>3, <1>1
<1>4. PICK W : W = PopC(With(S, v))  OBVIOUS
<1>5. /\ W \in StateT /\ W.cur = S.cur /\ W.L[W.cur] = v /\ CutTo(S.cs, W.cs, n - 1)
      /\ \A o \in Thread : o # S.cur => W.L[o] = S.L[o]
  <2>1. PopTo(S, v, W)  BY <1>3, <1>4, PopToFacts
  <2> QED  BY <2>1 DEF PopTo, Moves
<1>6. Ends(S, W, n - 1)
  <2>1. n - 1 \in 1..Len(S.cs)  BY <1>2
  <2>2. \A i \in (n - 1)..Len(S.cs) : S.cs[i].th = S.cur
    <3> SUFFICES ASSUME NEW i \in (n - 1)..Len(S.cs) PROVE S.cs[i].th = S.cur  OBVIOUS
    <3>1. i \in {n - 1, n}  BY <1>2
    <3> QED  BY <3>1, <1>1, <1>2
  <2> QED  BY <2>1, <2>2, <1>5 DEF Ends
<1>7. PICK c : c = [v EXCEPT !.status = "ok", !.jmp = 0]  OBVIOUS
<1>8. /\ c \in ThreadT /\ SameStack(v, c) /\ c.status = "ok" /\ c.jmp = 0 /\ c.nCcalls = v.nCcalls
      /\ c.errfunc = v.errfunc
  BY <1>3, <1>7 DEF ThreadT, SameStack, Statuses
<1>9. Sound(c) /\ Fits(c) /\ StackLast(c) = StackLast(v)  BY <1>3, <1>8, SoundSame
<1>10. c.ci = v.ci /\ c.base = v.base /\ c.stack = v.stack  BY <1>8 DEF SameStack
<1>11. /\ c.base \in Nat /\ c.base >= 2 /\ c.base <= Len(c.stack) + 1 /\ Len(c.stack) \in Nat
       /\ StackLast(c) \in Int
  BY <1>8, <1>9, BaseFacts, ThreadFacts
<1>12. PICK first : first = c.base  OBVIOUS
<1>13. PICK z : z = SetTop(c, first)  OBVIOUS
<1>14. z \in ThreadT /\ Sound(z) /\ Regrown(c, z) /\ Len(z.stack) = first - 1 /\ StackLast(z) = StackLast(c)
  <2>1. ~ c.ci[Len(c.ci)].lua  BY <1>3, <1>10
  <2>2. first \in Nat /\ c.base <= first  BY <1>11, <1>12
  <2> QED  BY <2>1, <2>2, <1>8, <1>9, <1>13, SetTopSound
<1>15. Fits(z)
  <2>1. Len(c.stack) < StackLast(c)  BY <1>9 DEF Fits
  <2>2. first - 1 < StackLast(c)  BY <1>11, <1>12, <2>1
  <2> QED  BY <2>2, <1>14 DEF Fits
<1>16. z.ci = v.ci /\ z.status = "ok" /\ z.jmp = 0 /\ z.nCcalls = 0 /\ z.errfunc = 0
  BY <1>1, <1>3, <1>8, <1>10, <1>14 DEF Regrown, SameCalls, Shares
<1>17. Asleep(z)
  <2>1. 0 <= Limit  BY Constants
  <2>2. Sleeper(z)  BY <2>1, <1>3, <1>16 DEF Sleeper
  <2> QED  BY <2>2, <1>14, <1>15, <1>16 DEF Asleep
<1>18. c = [W.L[W.cur] EXCEPT !.status = "ok", !.jmp = 0]  BY <1>5, <1>7
<1>19. IInv(ResumeReturns(W, "ok", TRUE))
  <2>1. TRUE \in BOOLEAN  OBVIOUS
  <2>2. first \in Nat /\ first = (IF TRUE THEN c.base ELSE Len(c.stack)) /\ first >= 1 /\ first <= Len(c.stack) + 1
    BY <1>11, <1>12
  <2> QED  BY <2>1, <2>2, <1>6, <1>8, <1>13, <1>17, <1>18, ResumeReturnsInv
<1> QED  BY <1>4, <1>19

\* A function that luaD_call called returns.
LEMMA ReturnCall ==
    ASSUME NEW S, Good(S), NEW t, t = S.L[S.cur], NEW n, n = Len(S.cs), S.cs[n].k = "exec", ~ (S.cs[n].n > 1),
           n >= 2, S.cs[n - 1].k # "resume", t.nCcalls < Limit, NEW v, CallLess(t, v)
    PROVE  IInv(Do(PopC(With(S, v)), "after"))
<1>1. PICK f : f = S.cs[n]  OBVIOUS
<1>2. /\ S.cs \in Seq(CFrame) /\ t \in ThreadT /\ n \in Nat /\ t.status = "ok" /\ f.th = S.cur /\ f \in CFrame
      /\ t.nCcalls <= Limit /\ S.cur \in Thread /\ Core(S.L, S.cs, S.cur) /\ Shape(S.cs)
  BY <1>1, GoodFacts
<1>3. v \in ThreadT /\ Sound(v) /\ Fits(v) /\ Shares(t, v) /\ Len(v.ci) = Len(t.ci) - 1
      /\ t.ci[Len(t.ci)].func <= Len(v.stack) + 1
  BY DEF CallLess
<1>4. \A d \in 1..(Len(t.ci) - 1) : v.ci[d] = t.ci[d]  BY DEF CallLess
<1>5. PICK T : T = PopC(With(S, v))  OBVIOUS
<1>6. T \in StateT /\ T.cur = S.cur /\ T.L[T.cur] = v /\ Moves(S, T, v) /\ CutTo(S.cs, T.cs, n - 1)
  <2>1. PopTo(S, v, T)  BY <1>3, <1>5, PopToFacts
  <2> QED  BY <2>1 DEF PopTo
<1>7. f.k = "exec" /\ f # Host /\ f.k # "resume" /\ Runs(f) = 1
  <2>1. PICK m : m = f.n  OBVIOUS
  <2>2. m \in Nat \ {0} /\ Runs(f) = m  BY <2>1, <1>1, <1>2, FrameFacts
  <2>3. ~ (m > 1)  BY <2>1, <1>1
  <2>4. m = 1  BY <2>2, <2>3
  <2> QED  BY <2>2, <2>4, <1>1 DEF Host
<1>8. Caught(v, T.cs, S.cur)
  <2>1. SameTo(S.cs, T.cs, n - 1) /\ Len(T.cs) = n - 1 /\ T.cs \in Seq(CFrame)  BY <1>2, <1>6, CutCounts
  <2>2. \A i \in (n - 1 + 1)..Len(T.cs) : T.cs[i].k # "pcall"  BY <1>2, <2>1
  <2>3. Older(S.cs, T.cs, S.cur)  BY <1>2, <2>1, <2>2, OlderSame
  <2>4. S.cs[Len(S.cs)].k \in {"exec", "c"}  OBVIOUS
  <2>5. \A d \in 1..(Len(t.ci) - 1) :
           v.ci[d].func = t.ci[d].func /\ v.ci[d].base = t.ci[d].base /\ v.ci[d].top = t.ci[d].top
    BY <1>4
  <2> QED  BY <2>3, <2>4, <2>5, <1>3, CaughtReturn
<1>9. Popped(t, v, f)
  <2>1. t.nCcalls \in Nat  BY <1>2, ThreadFacts
  <2>2. v.nCcalls = t.nCcalls - 0  BY <2>1, <1>3 DEF Shares
  <2>3. Len(v.ci) = Len(t.ci) - Runs(f) /\ \A d \in 1..Len(v.ci) : v.ci[d].lua = t.ci[d].lua  BY <1>3, <1>4, <1>7
  <2> QED  BY <2>2, <2>3, <1>2, <1>3, <1>7 DEF Popped, Shares
<1>10. v.nCcalls <= Limit /\ v.nCcalls < Limit  BY <1>2, <1>3 DEF Shares
<1>11. Good(T)
  <2>1. f = S.cs[Len(S.cs)] /\ CutTo(S.cs, T.cs, Len(S.cs) - 1)  BY <1>1, <1>6
  <2> QED  BY <2>1, <1>3, <1>6, <1>7, <1>8, <1>9, <1>10, GoodPop
<1>12. T.cs[Len(T.cs)].k = "call"
  <2>1. n \in 2..Len(S.cs) /\ n - 1 \in 1..(n - 1)  BY <1>2
  <2>2. CallsFrame(S.cs[n - 1], S.cs[n])  BY <2>1, <1>2 DEF Shape
  <2>3. S.cs[n - 1].k = "call"  BY <2>2 DEF CallsFrame
  <2>4. Len(T.cs) = n - 1 /\ T.cs[n - 1] = S.cs[n - 1]  BY <2>1, <1>6 DEF CutTo
  <2> QED  BY <2>3, <2>4
<1>13. PICK E : E = Do(T, "after")  OBVIOUS
<1>14. Good(E) /\ E.L = T.L /\ E.cs = T.cs /\ E.cur = T.cur /\ E.op = "after"  BY <1>11, <1>13, GoodDo DEF Ops
<1>15. AfterReady(T.cs[Len(T.cs)])  BY <1>12 DEF AfterReady
<1>16. Ready(E)  BY <1>6, <1>10, <1>14, <1>15 DEF Ready
<1> QED  BY <1>5, <1>13, <1>14, <1>16 DEF IInv

\* OP_RETURN.
LEMMA ReturnInv ==
    ASSUME NEW S, Good(S), NEW t, t = S.L[S.cur], S.cs[Len(S.cs)].k = "exec", t.nCcalls < Limit, S.op = "run"
    PROVE  IInv(ReturnStep(S))
<1>1. PICK n : n = Len(S.cs)  OBVIOUS
<1>2. PICK f : f = S.cs[n]  OBVIOUS
<1>3. t \in ThreadT /\ Sound(t) /\ n \in Nat /\ n >= 1 /\ Shape(S.cs)  BY <1>1, GoodFacts
<1>4. n >= 2
  <2>1. S.cs[1] = Host  BY <1>3 DEF Shape
  <2>2. n # 1  BY <2>1, <1>1 DEF Host
  <2> QED  BY <2>2, <1>3
<1>5. t.ci[Len(t.ci)].lua /\ Len(t.ci) >= 2
  <2>1. f.n \in Nat /\ f.n >= 1 /\ Len(t.ci) - f.n >= 1 /\ t.ci[Len(t.ci)].lua  BY <1>1, <1>2, TopFacts
  <2>2. Len(t.ci) \in Nat  BY <1>3, ThreadFacts
  <2> QED  BY <2>1, <2>2
<1>6. PICK v : v = Returned(t)  OBVIOUS
<1>7. CallLess(t, v)  BY <1>3, <1>5, <1>6, ReturnSound
<1>8. CASE f.n > 1
  <2>1. IInv([With(With(S, v), Continue(v)) EXCEPT !.cs[Len(S.cs)].n = @ - 1])
    BY <1>1, <1>2, <1>7, <1>8, ReturnMore
  <2> QED  BY <2>1, <1>1, <1>2, <1>6, <1>8 DEF ReturnStep
<1>9. CASE ~ (f.n > 1) /\ S.cs[n - 1].k = "resume"
  <2>1. IInv(ResumeReturns(PopC(With(S, v)), "ok", TRUE))  BY <1>1, <1>2, <1>4, <1>7, <1>9, ReturnCo
  <2> QED  BY <2>1, <1>1, <1>2, <1>6, <1>9 DEF ReturnStep
<1>10. CASE ~ (f.n > 1) /\ S.cs[n - 1].k # "resume"
  <2>1. IInv(Do(PopC(With(S, v)), "after"))  BY <1>1, <1>2, <1>4, <1>7, <1>10, ReturnCall
  <2> QED  BY <2>1, <1>1, <1>2, <1>6, <1>10 DEF ReturnStep
<1> QED  BY <1>8, <1>9, <1>10

\* A closure captures the local of the running function.
CaptureStep(S) ==
    LET t == S.L[S.cur] IN With(S, [t EXCEPT !.open = @ \union {t.base}])

\* luaF_findupval: a closure captures the local of the function.
LEMMA CaptureInv ==
    ASSUME NEW S, Good(S), NEW t, t = S.L[S.cur], S.cs[Len(S.cs)].k = "exec", t.nCcalls < Limit, S.op = "run"
    PROVE  IInv(CaptureStep(S))
<1>1. PICK n : n = Len(S.cs)  OBVIOUS
<1>2. S \in StateT /\ t \in ThreadT /\ Sound(t) /\ Fits(t)  BY <1>1, GoodFacts
<1>3. t.ci[Len(t.ci)].lua  BY TopFacts
<1>4. t.base \in Nat /\ t.open \in SUBSET Nat /\ t.base = t.ci[Len(t.ci)].base /\ Len(t.ci) \in 1..Len(t.ci)
  <2>1. Len(t.ci) \in Nat /\ Len(t.ci) >= 1  BY <1>2, BaseFacts
  <2> QED  BY <2>1, <1>2, BaseFacts, ThreadFacts
<1>5. PICK o \in SUBSET Nat : o = t.open \union {t.base}  BY <1>4
<1>6. PICK v : v = [t EXCEPT !.open = o]  OBVIOUS
<1>7. /\ v \in ThreadT /\ v.stack = t.stack /\ v.ci = t.ci /\ v.base = t.base /\ v.open = o
      /\ v.stacksize = t.stacksize /\ Shares(t, v)
  BY <1>2, <1>6 DEF ThreadT, Shares
<1>8. StackLast(v) = StackLast(t) /\ Fits(v)  BY <1>2, <1>7 DEF StackLast, Fits
<1>9. Sound(v)
  <2>1. Owned(v)
    <3> SUFFICES ASSUME NEW u \in v.open PROVE \E d \in 1..Len(v.ci) : v.ci[d].lua /\ v.ci[d].base = u  BY DEF Owned
    <3>1. CASE u \in t.open
      <4>1. Owned(t)  BY <1>2 DEF Sound
      <4>2. \E d \in 1..Len(t.ci) : t.ci[d].lua /\ t.ci[d].base = u  BY <3>1, <4>1 DEF Owned
      <4> QED  BY <4>2, <1>7
    <3>2. CASE u = t.base  BY <3>2, <1>3, <1>4, <1>7
    <3> QED  BY <3>1, <3>2, <1>5, <1>7
  <2>2. Locals(v)  BY <1>2, <1>7 DEF Sound, Locals
  <2> QED  BY <2>1, <2>2, <1>2, <1>7, <1>8 DEF Sound
<1>10. SameInfos(t, v)
  <2>1. \A d \in 1..Len(t.ci) : t.ci[d].top \in Nat  BY <1>2, ThreadFacts
  <2>2. \A d \in 1..Len(t.ci) : t.ci[d].top >= t.ci[d].top  BY <2>1
  <2> QED  BY <2>2, <1>7 DEF SameInfos
<1>11. PICK W : W = With(S, v)  OBVIOUS
<1>12. Moves(S, W, v) /\ W.cs = S.cs /\ W.cur = S.cur /\ W.L[S.cur] = v /\ W.op = S.op
  BY <1>2, <1>7, <1>11, WithFacts
<1>13. Good(W)
  <2>1. S.cs[Len(S.cs)].k \in {"exec", "c"}  OBVIOUS
  <2> QED  BY <2>1, <1>7, <1>8, <1>9, <1>10, <1>12, GoodAgain
<1>14. v.nCcalls < Limit  BY <1>7 DEF Shares
<1>15. Ready(W)  BY <1>12, <1>14 DEF Ready, RunReady
<1>16. CaptureStep(S) = W  BY <1>5, <1>6, <1>11 DEF CaptureStep
<1> QED  BY <1>13, <1>15, <1>16 DEF IInv
-----------------------------------------------------------------------------
(* What C functions do *)

\* incr_top leaves the running thread as it was, with a value on top.
Raises(S, W, t, v) ==
    /\ Good(W) /\ W.cs = S.cs /\ W.cur = S.cur /\ W.L[W.cur] = v /\ v \in ThreadT
    /\ Shares(t, v) /\ v.ci = t.ci /\ v.base = t.base /\ Len(v.stack) = Len(t.stack) + 1

\* The function to call is pushed.
LEMMA PushGood ==
    ASSUME NEW S, Good(S), NEW t, t = S.L[S.cur], S.cs[Len(S.cs)].k = "c", NEW v, v = Push(t, Value),
           NEW W, W = With(S, v)
    PROVE  Raises(S, W, t, v)
<1>1. PICK n : n = Len(S.cs)  OBVIOUS
<1>2. S \in StateT /\ t \in ThreadT /\ Sound(t) /\ Fits(t)  BY <1>1, GoodFacts
<1>3. v \in ThreadT /\ Sound(v) /\ Regrown(t, v) /\ Fits(v) /\ Len(v.stack) = Len(t.stack) + 1
  <2>1. Value \in Int  BY DEF Value
  <2> QED  BY <2>1, <1>2, PushSound
<1>4. Shares(t, v) /\ SameInfos(t, v) /\ v.ci = t.ci /\ v.base = t.base
  BY <1>2, <1>3, RegrownSame DEF Regrown, SameCalls
<1>5. Moves(S, W, v) /\ W.cs = S.cs /\ W.cur = S.cur /\ W.L[S.cur] = v  BY <1>2, <1>3, WithFacts
<1>6. Good(W)
  <2>1. S.cs[Len(S.cs)].k \in {"exec", "c"}  OBVIOUS
  <2> QED  BY <2>1, <1>3, <1>4, <1>5, GoodAgain
<1> QED  BY <1>3, <1>4, <1>5, <1>6 DEF Raises

\* lua_pcall, by the host.
HostStep(S) ==
    LET t == S.L[S.cur] IN Pcall(With(S, Push(t, Value)), Top(t), 0)

\* The host calls a chunk with lua_pcall.
LEMMA HostInv ==
    ASSUME NEW S, Good(S), NEW t, t = S.L[S.cur], NEW b, b = S.cs[Len(S.cs)], b.k = "c", b.f = "host",
           t.nCcalls < Limit, RunReady(b, t)
    PROVE  IInv(HostStep(S))
<1>1. PICK n : n = Len(S.cs)  OBVIOUS
<1>2. t \in ThreadT /\ Sound(t) /\ b \in CFrame  BY <1>1, GoodFacts
<1>3. PICK l : l = Len(t.stack)  OBVIOUS
<1>4. l \in Nat /\ t.base \in Nat /\ t.base <= l + 1 /\ Top(t) = l + 1  BY <1>2, <1>3, BaseFacts, ThreadFacts
<1>5. PICK v : v = Push(t, Value)  OBVIOUS
<1>6. PICK W : W = With(S, v)  OBVIOUS
<1>7. /\ Good(W) /\ W.cs = S.cs /\ W.cur = S.cur /\ W.L[W.cur] = v /\ v \in ThreadT
      /\ Shares(t, v) /\ v.ci = t.ci /\ v.base = t.base /\ Len(v.stack) = l + 1
  <2>1. Raises(S, W, t, v)  BY <1>5, <1>6, PushGood
  <2> QED  BY <2>1, <1>3 DEF Raises
<1>8. PICK func : func = l + 1  OBVIOUS
<1>9. Callable(v, func) /\ func < v.ci[Len(v.ci)].top
  <2>1. ~ t.ci[Len(t.ci)].lua  BY HostFacts
  <2>2. func \in Nat /\ t.base <= func /\ func <= l + 1  BY <1>4, <1>8
  <2>3. l + 2 <= t.ci[Len(t.ci)].top  BY <1>3 DEF RunReady
  <2>4. PICK top : top = t.ci[Len(t.ci)].top  OBVIOUS
  <2>5. top \in Nat /\ l + 2 <= top  BY <2>3, <2>4, <1>2, BaseFacts
  <2>6. func < top  BY <2>5, <1>4, <1>8
  <2> QED  BY <2>1, <2>2, <2>4, <2>6, <1>7 DEF Callable
<1>10. v.nCcalls < Limit  BY <1>7 DEF Shares
<1>11. IInv(Pcall(W, func, 0))
  <2>1. 0 \in Nat  OBVIOUS
  <2>2. b = W.cs[Len(W.cs)] /\ v = W.L[W.cur] /\ b.f \in {"host", "pcall", "xpcall"}  BY <1>7
  <2> QED  BY <2>1, <2>2, <1>7, <1>9, <1>10, PcallInv
<1> QED  BY <1>4, <1>5, <1>6, <1>8, <1>11 DEF HostStep

\* luaB_pcall.
PcallStep(S) == Pcall(S, S.L[S.cur].base, 0)

\* luaB_pcall calls luaD_pcall.
LEMMA PcallBodyInv ==
    ASSUME NEW S, Good(S), NEW t, t = S.L[S.cur], NEW b, b = S.cs[Len(S.cs)], b.k = "c", b.f = "pcall",
           t.nCcalls < Limit, RunReady(b, t)
    PROVE  IInv(PcallStep(S))
<1>1. PICK n : n = Len(S.cs)  OBVIOUS
<1>2. t \in ThreadT /\ Sound(t)  BY <1>1, GoodFacts
<1>3. ~ t.ci[Len(t.ci)].lua  BY HostFacts
<1>4. PICK l : l = Len(t.stack)  OBVIOUS
<1>5. l \in Nat /\ t.base \in Nat /\ t.base < t.ci[Len(t.ci)].top  BY <1>2, <1>4, BaseFacts, ThreadFacts
<1>6. t.base + 1 <= l + 1  BY <1>4 DEF RunReady, Arity
<1>7. Callable(t, t.base)
  <2>1. t.base <= t.base /\ t.base <= l  BY <1>5, <1>6
  <2> QED  BY <2>1, <1>3, <1>4, <1>5 DEF Callable
<1>8. IInv(Pcall(S, t.base, 0))
  <2>1. 0 \in Nat /\ b.f \in {"host", "pcall", "xpcall"}  OBVIOUS
  <2> QED  BY <2>1, <1>5, <1>7, PcallInv
<1> QED  BY <1>8 DEF PcallStep

\* luaB_xpcall puts the handler below the function.
Swapped(t) == [t EXCEPT !.stack[t.base] = t.stack[t.base + 1], !.stack[t.base + 1] = Value]
XpcallStep(S) ==
    LET t == S.L[S.cur] IN Pcall(With(S, Swapped(t)), t.base + 1, t.base)

\* luaB_xpcall calls luaD_pcall with its handler below the function.
LEMMA XpcallBodyInv ==
    ASSUME NEW S, Good(S), NEW t, t = S.L[S.cur], NEW b, b = S.cs[Len(S.cs)], b.k = "c", b.f = "xpcall",
           t.nCcalls < Limit, RunReady(b, t)
    PROVE  IInv(XpcallStep(S))
<1>1. PICK n : n = Len(S.cs)  OBVIOUS
<1>2. S \in StateT /\ t \in ThreadT /\ Sound(t) /\ Fits(t)  BY <1>1, GoodFacts
<1>3. ~ t.ci[Len(t.ci)].lua  BY HostFacts
<1>4. PICK l : l = Len(t.stack)  OBVIOUS
<1>5. PICK p : p = t.base  OBVIOUS
<1>6. PICK top : top = t.ci[Len(t.ci)].top  OBVIOUS
<1>7. l \in Nat /\ p \in Nat /\ p >= 2 /\ top \in Nat /\ t.stack \in Seq(Int)
  BY <1>2, <1>4, <1>5, <1>6, BaseFacts, ThreadFacts
<1>8. p + 2 <= l + 1 /\ l + 2 <= top  BY <1>4, <1>5, <1>6 DEF RunReady, Arity
<1>9. p \in 1..l /\ p + 1 \in 1..l /\ p + 1 <= l /\ p + 1 < top /\ p + 1 \in Nat  BY <1>7, <1>8
<1>10. PICK s : s = [t.stack EXCEPT ![p] = t.stack[p + 1], ![p + 1] = Value]  OBVIOUS
<1>11. s \in Seq(Int) /\ Len(s) = l /\ \A i \in 1..l : i < p => s[i] = t.stack[i]
  <2>1. PICK q : q = t.stack  OBVIOUS
  <2>2. q \in Seq(Int) /\ Len(q) = l /\ DOMAIN q = 1..l /\ (\A i \in 1..l : q[i] \in Int) /\ Value \in Int
    <3>1. q \in Seq(Int) /\ Len(q) = l  BY <2>1, <1>4, <1>7
    <3>2. DOMAIN q = 1..l  BY <3>1, LenProperties
    <3>3. \A i \in 1..l : q[i] \in Int  BY <3>1, ElementOfSeq
    <3> QED  BY <3>1, <3>2, <3>3 DEF Value
  <2>3. s = [i \in 1..l |-> IF i = p + 1 THEN Value ELSE IF i = p THEN q[p + 1] ELSE q[i]]
    BY <2>1, <2>2, <1>9, <1>10
  <2>4. s \in [1..l -> Int]  BY <2>2, <2>3, <1>9
  <2>5. s \in Seq(Int) /\ Len(s) = l  BY <2>4, <1>7, FunctionIsSeq
  <2>6. \A i \in 1..l : i < p => i # p /\ i # p + 1  BY <1>7
  <2> QED  BY <2>1, <2>3, <2>5, <2>6
<1>12. PICK v : v = [t EXCEPT !.stack = s]  OBVIOUS
<1>13. v \in ThreadT /\ v.stack = s /\ Regrown(t, v) /\ StackLast(v) = StackLast(t)
  BY <1>2, <1>11, <1>12, Restacked
<1>14. v.ci = t.ci /\ v.base = p /\ Shares(t, v) /\ SameInfos(t, v)
  BY <1>2, <1>5, <1>13, RegrownSame DEF Regrown, SameCalls
<1>15. Sound(v) /\ Fits(v)
  <2>1. v.base <= Len(v.stack) + 1  BY <1>7, <1>9, <1>11, <1>13, <1>14
  <2>2. \A i \in 1..Len(t.stack) : i < t.base => i <= Len(v.stack) /\ v.stack[i] = t.stack[i]
    BY <1>4, <1>5, <1>11, <1>13
  <2>3. Sound(v)  BY <2>1, <2>2, <1>2, <1>3, <1>13, SoundRestack
  <2> QED  BY <2>3, <1>2, <1>4, <1>11, <1>13 DEF Fits
<1>16. PICK W : W = With(S, v)  OBVIOUS
<1>17. Moves(S, W, v) /\ W.cs = S.cs /\ W.cur = S.cur /\ W.L[S.cur] = v  BY <1>2, <1>13, <1>16, WithFacts
<1>18. Good(W)
  <2>1. S.cs[Len(S.cs)].k \in {"exec", "c"}  OBVIOUS
  <2> QED  BY <2>1, <1>14, <1>15, <1>17, GoodAgain
<1>19. Callable(v, p + 1) /\ p + 1 < v.ci[Len(v.ci)].top
  <2>1. p <= p + 1  BY <1>7
  <2> QED  BY <2>1, <1>3, <1>6, <1>9, <1>11, <1>13, <1>14 DEF Callable
<1>20. IInv(Pcall(W, p + 1, p))
  <2>1. b = W.cs[Len(W.cs)] /\ v = W.L[W.cur] /\ b.f \in {"host", "pcall", "xpcall"} /\ v.nCcalls < Limit
    BY <1>14, <1>17 DEF Shares
  <2>2. PICK func : func = p + 1  OBVIOUS
  <2> QED  BY <2>1, <2>2, <1>7, <1>18, <1>19, PcallInv
<1>21. Swapped(t) = v
  <2>1. t.stack \in Seq(Int) /\ t.base \in 1..l /\ t.base + 1 \in 1..l  BY <1>5, <1>7, <1>9
  <2> QED  BY <1>2, <1>5, <1>10, <1>12 DEF Swapped, ThreadT
<1> QED  BY <1>5, <1>16, <1>20, <1>21 DEF XpcallStep

\* luaB_error.
LEMMA ErrorBodyInv ==
    ASSUME NEW S, Good(S), NEW t, t = S.L[S.cur], NEW b, b = S.cs[Len(S.cs)], b.k = "c", b.f = "error",
           t.nCcalls < Limit, RunReady(b, t)
    PROVE  IInv(Do(S, "error"))
<1>1. PICK n : n = Len(S.cs)  OBVIOUS
<1>2. t \in ThreadT /\ Sound(t)  BY <1>1, GoodFacts
<1>3. ~ t.ci[Len(t.ci)].lua  BY HostFacts
<1>4. PICK l : l = Len(t.stack)  OBVIOUS
<1>5. PICK p : p = t.base  OBVIOUS
<1>6. PICK fn : fn = t.ci[Len(t.ci)].func  OBVIOUS
<1>7. l \in Nat /\ p \in Nat /\ fn \in Nat /\ fn < p  BY <1>2, <1>4, <1>5, <1>6, BaseFacts, ThreadFacts
<1>8. p + 1 <= l + 1  BY <1>4, <1>5 DEF RunReady, Arity
<1>9. Raised(t, S.cs, S.cur)
  <2>1. ASSUME NEW i \in Pcalls(S.cs, S.cur) PROVE S.cs[i].oldtop <= Len(t.stack)
    <3>1. PICK o : o = S.cs[i].oldtop  OBVIOUS
    <3>2. S.cs[n].k \in {"exec", "c"}  BY <1>1
    <3>3. o \in Nat /\ o <= fn  BY <3>1, <3>2, <1>1, <1>6, PcallFacts
    <3>4. o <= l  BY <3>3, <1>7, <1>8
    <3> QED  BY <3>1, <3>4, <1>4
  <2>2. t.base <= Len(t.stack)  BY <1>4, <1>5, <1>7, <1>8
  <2> QED  BY <2>1, <2>2, <1>3 DEF Raised
<1>10. PICK E : E = Do(S, "error")  OBVIOUS
<1>11. Good(E) /\ E.L = S.L /\ E.cs = S.cs /\ E.cur = S.cur /\ E.op = "error"  BY <1>10, GoodDo DEF Ops
<1>12. ErrorReady(b)  BY DEF ErrorReady
<1>13. Ready(E)  BY <1>9, <1>11, <1>12 DEF Ready
<1> QED  BY <1>10, <1>11, <1>13 DEF IInv

\* gsub pushes the function, asks for room for a capture, and calls it.
CallbackStep(S) ==
    LET t == S.L[S.cur]
        c == CheckStackC(Put(t, Value), 1)
    IN LuaDCall(With(S, Put(c, Value)), "lua", Top(t), 0)

\* A library function calls back with luaD_call.
LEMMA CallbackInv ==
    ASSUME NEW S, Good(S), NEW t, t = S.L[S.cur], NEW b, b = S.cs[Len(S.cs)], b.k = "c", b.f = "callback",
           t.nCcalls < Limit
    PROVE  IInv(CallbackStep(S))
<1>1. PICK n : n = Len(S.cs)  OBVIOUS
<1>2. S \in StateT /\ t \in ThreadT /\ Sound(t) /\ Fits(t)  BY <1>1, GoodFacts
<1>3. PICK l : l = Len(t.stack)  OBVIOUS
<1>4. l \in Nat /\ t.base \in Nat /\ t.base <= l + 1 /\ Top(t) = l + 1  BY <1>2, <1>3, BaseFacts, ThreadFacts
<1>5. ~ t.ci[Len(t.ci)].lua  BY HostFacts
<1>6. Value \in Int  BY DEF Value
<1>7. PICK p : p = Put(t, Value)  OBVIOUS
<1>8. /\ p \in ThreadT /\ Sound(p) /\ Shares(t, p) /\ SameInfos(t, p) /\ p.ci = t.ci /\ p.base = t.base
      /\ Len(p.stack) = l + 1 /\ Len(p.stack) <= StackLast(p)
  <2>1. /\ p \in ThreadT /\ Sound(p) /\ Regrown(t, p) /\ Len(p.stack) = l + 1 /\ StackLast(p) = StackLast(t)
    BY <1>2, <1>3, <1>6, <1>7, PutSound
  <2>2. Shares(t, p) /\ SameInfos(t, p) /\ p.ci = t.ci /\ p.base = t.base
    BY <1>2, <2>1, RegrownSame DEF Regrown, SameCalls
  <2>3. l + 1 <= StackLast(t)
    <3>1. PICK sl : sl = StackLast(t)  OBVIOUS
    <3>2. sl \in Int /\ l < sl  BY <1>2, <1>3, <3>1, ThreadFacts DEF Fits
    <3> QED  BY <1>4, <3>1, <3>2
  <2> QED  BY <2>1, <2>2, <2>3
<1>9. PICK c : c = CheckStackC(p, 1)  OBVIOUS
<1>10. /\ c \in ThreadT /\ Sound(c) /\ Shares(p, c) /\ SameInfos(p, c) /\ c.base = p.base /\ c.stack = p.stack
       /\ Len(p.stack) + 1 + 1 <= StackLast(c)
  <2>1. Nested(p.ci) /\ Len(p.ci) >= 1 /\ 1 \in Nat /\ ~ p.ci[Len(p.ci)].lua  BY <1>5, <1>8 DEF Sound, Nested
  <2>2. Sound(c)  BY <1>8, <1>9, <2>1, CheckStackCSound
  <2> QED  BY <1>8, <1>9, <2>1, <2>2, CheckStackCFacts
<1>11. PICK v : v = Put(c, Value)  OBVIOUS
<1>12. /\ v \in ThreadT /\ Sound(v) /\ Shares(t, v) /\ SameInfos(t, v) /\ v.base = t.base /\ v.ci = c.ci
       /\ Len(v.stack) = l + 2 /\ Fits(v)
  <2>1. /\ v \in ThreadT /\ Sound(v) /\ Regrown(c, v) /\ Len(v.stack) = Len(c.stack) + 1
        /\ StackLast(v) = StackLast(c)
    BY <1>6, <1>10, <1>11, PutSound
  <2>2. Shares(c, v) /\ v.ci = c.ci /\ v.base = c.base  BY <1>10, <2>1, RegrownSame DEF Regrown, SameCalls
  <2>3. Shares(t, v)  BY <1>8, <1>10, <2>2 DEF Shares
  <2>4. SameInfos(t, v)  BY <1>8, <1>10, <2>2 DEF SameInfos
  <2>5. Len(v.stack) = l + 2 /\ l + 3 <= StackLast(v)
    <3>1. Len(c.stack) = l + 1 /\ l + 1 + 1 + 1 <= StackLast(v)  BY <1>8, <1>10, <2>1
    <3> QED  BY <1>4, <2>1, <3>1
  <2>6. Fits(v)
    <3>1. PICK sl : sl = StackLast(v)  OBVIOUS
    <3>2. sl \in Int /\ l + 3 <= sl  BY <2>1, <2>5, <3>1, ThreadFacts
    <3>3. l + 2 < sl  BY <1>4, <3>2
    <3> QED  BY <2>5, <3>1, <3>3 DEF Fits
  <2> QED  BY <1>8, <1>10, <2>1, <2>2, <2>3, <2>4, <2>5, <2>6
<1>13. PICK W : W = With(S, v)  OBVIOUS
<1>14. Moves(S, W, v) /\ W.cs = S.cs /\ W.cur = S.cur /\ W.L[W.cur] = v  BY <1>2, <1>12, <1>13, WithFacts DEF Moves
<1>15. Good(W)
  <2>1. S.cs[Len(S.cs)].k \in {"exec", "c"}  OBVIOUS
  <2> QED  BY <2>1, <1>12, <1>14, GoodAgain
<1>16. PICK func : func = l + 1  OBVIOUS
<1>17. Callable(v, func)
  <2>1. func \in Nat /\ t.base <= func /\ func <= l + 2  BY <1>4, <1>16
  <2>2. ~ v.ci[Len(v.ci)].lua
    <3>1. Len(t.ci) \in 1..Len(t.ci)
      <4>1. Len(t.ci) >= 1 /\ Len(t.ci) \in Nat  BY <1>2, ThreadFacts DEF Sound, Nested
      <4> QED  BY <4>1
    <3> QED  BY <1>5, <1>12, <3>1 DEF SameInfos
  <2> QED  BY <2>1, <2>2, <1>12 DEF Callable
<1>18. Above(W.cs, W.cur, func)
  <2>1. \A i \in Pcalls(S.cs, S.cur) : S.cs[i].oldtop <= Len(t.stack) + 1  BY PcallFacts
  <2> QED  BY <2>1, <1>3, <1>14, <1>16 DEF Above
<1>19. v.nCcalls < Limit  BY <1>12 DEF Shares
<1>20. IInv(LuaDCall(W, "lua", func, 0))
  <2>1. /\ "lua" \in LuaFunctions \union (CFunctions \ {"host"}) /\ 0 \in {0, 1, MULTRET}
        /\ ~ ("lua" \notin LuaFunctions)
    BY DEF LuaFunctions
  <2>2. b = W.cs[Len(W.cs)] /\ v = W.L[W.cur]  BY <1>14
  <2> QED  BY <2>1, <2>2, <1>12, <1>14, <1>15, <1>17, <1>18, <1>19, LuaDCallInv
<1> QED  BY <1>4, <1>7, <1>9, <1>11, <1>13, <1>16, <1>20 DEF CallbackStep

\* It returns no values.
LEMMA CallbackReturnInv ==
    ASSUME NEW S, Good(S), NEW t, t = S.L[S.cur], NEW b, b = S.cs[Len(S.cs)], b.k = "c", b.f = "callback",
           t.nCcalls < Limit
    PROVE  IInv(CReturn(S, 0))
<1>1. PICK n : n = Len(S.cs)  OBVIOUS
<1>2. S \in StateT /\ t \in ThreadT /\ Sound(t) /\ Fits(t)  BY <1>1, GoodFacts
<1>3. Regrown(t, t)
  <2>1. t.stacksize \in Nat  BY <1>2, ThreadFacts
  <2>2. t.stacksize >= t.stacksize  BY <2>1
  <2> QED  BY <2>2 DEF Regrown, SameCalls
<1>4. Shares(t, t) /\ SameInfos(t, t)  BY <1>2, <1>3, RegrownSame
<1>5. Moves(S, S, t)  BY <1>2 DEF Moves
<1>6. Len(t.stack) <= StackLast(t) /\ t.base + 0 <= Len(t.stack) + 1 /\ 0 \in Nat
  <2>1. PICK l : l = Len(t.stack)  OBVIOUS
  <2>2. PICK s : s = StackLast(t)  OBVIOUS
  <2>3. l \in Nat /\ s \in Int /\ t.base \in Nat /\ t.base <= l + 1 /\ l < s
    BY <2>1, <2>2, <1>2, BaseFacts, ThreadFacts DEF Fits
  <2>4. l <= s /\ t.base + 0 <= l + 1  BY <2>3
  <2> QED  BY <2>1, <2>2, <2>4
<1>7. b.f # "host"  OBVIOUS
<1> QED  BY <1>2, <1>4, <1>5, <1>6, <1>7, CReturnInv
-----------------------------------------------------------------------------
(* The specification *)

\* The inductive invariant of the specification.
StateInv == IInv(State)

\* A step that makes a good state keeps it.
LEMMA Becomes ==
    ASSUME NEW T, IInv(T), Become(T)
    PROVE  StateInv'
<1>1. T \in StateT
  <2>1. PICK n : n = Len(T.cs)  OBVIOUS
  <2>2. PICK t : t = T.L[T.cur]  OBVIOUS
  <2>3. CASE Good(T)  BY <2>1, <2>2, <2>3, GoodFacts
  <2>4. CASE Returning(T)  BY <2>4 DEF Returning, Moves
  <2> QED  BY <2>3, <2>4 DEF IInv
<1>2. T = [L |-> T.L, cur |-> T.cur, cs |-> T.cs, op |-> T.op, ret |-> T.ret]  BY <1>1 DEF StateT
<1>3. State' = T  BY <1>2 DEF Become, State
<1>4. IInv(State')  BY <1>3
<1> QED  BY <1>4 DEF StateInv

\* The state as a value.
Now(S) ==
    /\ S = State /\ Good(S) /\ S.L = L /\ S.cur = cur /\ S.cs = cs /\ S.op = op
    /\ t0 = S.L[S.cur] /\ Top1 = S.cs[Len(S.cs)]
    /\ op = "run" => RunReady(S.cs[Len(S.cs)], S.L[S.cur])
    /\ op = "after" => AfterReady(S.cs[Len(S.cs)])
    /\ op \in {"error", "throw"} => ErrorReady(S.cs[Len(S.cs)])
    /\ op = "error" => Raised(S.L[S.cur], S.cs, S.cur)
    /\ op # "throw" => S.L[S.cur].nCcalls < Limit

\* The invariant holds, so the state is such a value.
LEMMA NowFacts ==
    ASSUME StateInv, op # "return"
    PROVE  \E S : Now(S)
<1>1. PICK S : S = State  OBVIOUS
<1>2. S.L = L /\ S.cur = cur /\ S.cs = cs /\ S.op = op  BY <1>1 DEF State
<1>3. t0 = S.L[S.cur] /\ Top1 = S.cs[Len(S.cs)]  BY <1>2 DEF t0, Top1, Last
<1>4. Good(S) /\ Ready(S)  BY <1>1, <1>2 DEF StateInv, IInv, Returning
<1> QED  BY <1>1, <1>2, <1>3, <1>4 DEF Now, Ready

\* The arguments of a C function are what it expects.
LEMMA ArgsFacts ==
    ASSUME NEW f \in DOMAIN Args, NEW args \in Args[f]
    PROVE  f \in CFunctions \ {"host"} /\ f \notin LuaFunctions /\ Arguments(args) /\ Arity(f) <= Len(args)
<1>1. f \in {"pcall", "xpcall", "error", "yield", "callback", "create", "resume", "wrap"}  BY DEF Args
<1>2. args \in {<<Value>>, <<Value, Value>>, <<Value, Handler>>, <<Value, Nil>>, <<Value, Value, Value>>}  BY <1>1 DEF Args
<1>3. f = "xpcall" => args \in {<<Value, Handler>>, <<Value, Nil>>}  BY DEF Args
<1>4. Value \in Int /\ Handler \in Int /\ Nil \in Int  BY DEF Value, Handler, Nil
<1>5. args \in Seq(Int) /\ Len(args) <= 3 /\ Len(args) >= 1 /\ (f = "xpcall" => Len(args) >= 2)
  <2>1. CASE args = <<Value>>
    <3>1. <<Value>> \in Seq(Int) /\ Len(<<Value>>) = 1  BY <1>4
    <3>2. <<Value>> # <<Value, Handler>> /\ <<Value>> # <<Value, Nil>>  OBVIOUS
    <3> QED  BY <2>1, <3>1, <3>2, <1>3
  <2>2. CASE args = <<Value, Value>>
    <3>1. <<Value, Value>> \in Seq(Int) /\ Len(<<Value, Value>>) = 2  BY <1>4
    <3> QED  BY <2>2, <3>1
  <2>3. CASE args = <<Value, Handler>>
    <3>1. <<Value, Handler>> \in Seq(Int) /\ Len(<<Value, Handler>>) = 2  BY <1>4
    <3> QED  BY <2>3, <3>1
  <2>4. CASE args = <<Value, Nil>>
    <3>1. <<Value, Nil>> \in Seq(Int) /\ Len(<<Value, Nil>>) = 2  BY <1>4
    <3> QED  BY <2>4, <3>1
  <2>5. CASE args = <<Value, Value, Value>>
    <3>1. <<Value, Value, Value>> \in Seq(Int) /\ Len(<<Value, Value, Value>>) = 3  BY <1>4
    <3> QED  BY <2>5, <3>1
  <2> QED  BY <1>2, <2>1, <2>2, <2>3, <2>4, <2>5
<1>6. Arity(f) <= Len(args)
  <2>1. CASE f = "xpcall"  BY <2>1, <1>5 DEF Arity
  <2>2. CASE f = "callback"
    <3>1. Arity(f) = 0  BY <2>2 DEF Arity
    <3> QED  BY <3>1, <1>5
  <2>3. CASE f # "xpcall" /\ f # "callback"
    <3>1. Arity(f) = 1  BY <2>3, <1>1 DEF Arity
    <3> QED  BY <3>1, <1>5
  <2> QED  BY <2>1, <2>2, <2>3
<1>7. f \in CFunctions \ {"host"} /\ f \notin LuaFunctions  BY <1>1 DEF CFunctions, LuaFunctions
<1> QED  BY <1>5, <1>6, <1>7 DEF Arguments

\* The calls of luaV_execute.
LEMMA CallsKept ==
    ASSUME StateInv, InLua, Room,
           NEW args, Arguments(args), NEW f, f \in LuaFunctions \/ (f \in CFunctions \ {"host"} /\ Arity(f) <= Len(args)),
           Become(Precall(CallArgs(args), f, t0.base + 1, 1))
    PROVE  StateInv'
<1>a. op # "return"  BY DEF InLua
<1>1. PICK S : Now(S)  BY <1>a, NowFacts
<1>2. PICK t : t = S.L[S.cur]  OBVIOUS
<1>3. /\ S = State /\ Good(S) /\ t0 = t /\ S.cs[Len(S.cs)].k = "exec" /\ t.nCcalls < Limit /\ S.op = "run"
  BY <1>1, <1>2 DEF Now, InLua
<1>4. PICK T : T = Precall(Registers(S, args), f, t.base + 1, 1)  OBVIOUS
<1>5. IInv(T)
  <2>1. f \in LuaFunctions \union (CFunctions \ {"host"}) /\ (f \notin LuaFunctions => Arity(f) <= Len(args))  OBVIOUS
  <2> QED  BY <2>1, <1>2, <1>3, <1>4, CallInv
<1>6. CallArgs(args) = Registers(S, args)  BY <1>2, <1>3 DEF CallArgs, Registers, Laid
<1>7. Become(T)  BY <1>3, <1>4, <1>6
<1> QED  BY <1>5, <1>7, Becomes

\* A metamethod is called.
LEMMA CallTMKept ==
    ASSUME StateInv, NEW f \in {"lua", "yield"}, CallTM(f)
    PROVE  StateInv'
<1>a. op # "return"  BY DEF CallTM, InLua
<1>1. PICK S : Now(S)  BY <1>a, NowFacts
<1>2. PICK t : t = S.L[S.cur]  OBVIOUS
<1>3. /\ S = State /\ Good(S) /\ t0 = t /\ S.cs[Len(S.cs)].k = "exec" /\ t.nCcalls < Limit /\ S.op = "run"
  BY <1>1, <1>2 DEF Now, InLua, CallTM
<1>4. PICK c : c = CheckStack(t, 3)  OBVIOUS
<1>5. PICK T : T = LuaDCall(With(S, Pushed3(c)), f, Top(c), 1)  OBVIOUS
<1>6. IInv(T)  BY <1>2, <1>3, <1>4, <1>5, CallTMInv
<1>7. Become(T)  BY <1>3, <1>4, <1>5 DEF CallTM, Pushed3
<1> QED  BY <1>6, <1>7, Becomes

\* The other steps of luaV_execute.
LEMMA LuaStepKept ==
    ASSUME StateInv, TailCall \/ Capture \/ Return \/ Error \/ MemoryError
    PROVE  StateInv'
<1>a. op # "return"  BY DEF TailCall, Capture, Return, Error, MemoryError, InLua
<1>1. PICK S : Now(S)  BY <1>a, NowFacts
<1>2. PICK t : t = S.L[S.cur]  OBVIOUS
<1>3. /\ S = State /\ Good(S) /\ t0 = t /\ S.cs[Len(S.cs)].k = "exec" /\ t.nCcalls < Limit /\ S.op = "run"
      /\ Top1 = S.cs[Len(S.cs)] /\ S.cs = cs
  BY <1>1, <1>2 DEF Now, InLua, TailCall, Capture, Return, Error, MemoryError
<1>4. ErrorReady(S.cs[Len(S.cs)])  BY <1>3 DEF ErrorReady
<1>5. CASE TailCall
  <2>1. PICK T : T = TailStep(S)  OBVIOUS
  <2>2. IInv(T)  BY <2>1, <1>2, <1>3, TailInv
  <2>3. CallArgs(<<Value>>) = Registers(S, <<Value>>)  BY <1>2, <1>3 DEF CallArgs, Registers, Laid
  <2>4. Become(T)  BY <2>1, <2>3, <1>2, <1>3, <1>5 DEF TailCall, TailStep
  <2> QED  BY <2>2, <2>4, Becomes
<1>6. CASE Capture
  <2>1. PICK T : T = CaptureStep(S)  OBVIOUS
  <2>2. IInv(T)  BY <2>1, <1>2, <1>3, CaptureInv
  <2>3. Become(T)  BY <2>1, <1>2, <1>3, <1>6 DEF Capture, CaptureStep
  <2> QED  BY <2>2, <2>3, Becomes
<1>7. CASE Return
  <2>1. PICK T : T = ReturnStep(S)  OBVIOUS
  <2>2. IInv(T)  BY <2>1, <1>2, <1>3, ReturnInv
  <2>3. Become(T)  BY Zenon, <2>1, <1>2, <1>3, <1>7 DEF Return, ReturnStep, Returned
  <2> QED  BY <2>2, <2>3, Becomes
<1>8. CASE Error
  <2>1. PICK T : T = RunError(S)  OBVIOUS
  <2>2. IInv(T)  BY <2>1, <1>2, <1>3, <1>4, RunErrorInv
  <2>3. Become(T)  BY <2>1, <1>3, <1>8 DEF Error
  <2> QED  BY <2>2, <2>3, Becomes
<1>9. CASE MemoryError
  <2>1. PICK T : T = Do(S, "throw")  OBVIOUS
  <2>2. IInv(T)  BY <2>1, <1>3, <1>4, ThrowInv
  <2>3. Become(T)  BY <2>1, <1>3, <1>9 DEF MemoryError
  <2> QED  BY <2>2, <2>3, Becomes
<1> QED  BY <1>5, <1>6, <1>7, <1>8, <1>9

\* luaD_pcall is called.
LEMMA PcallsKept ==
    ASSUME StateInv, HostCall \/ PcallBody \/ XpcallBody
    PROVE  StateInv'
<1>a. op # "return"  BY DEF HostCall, PcallBody, XpcallBody, InC
<1>1. PICK S : Now(S)  BY <1>a, NowFacts
<1>2. PICK t : t = S.L[S.cur]  OBVIOUS
<1>3. PICK b : b = S.cs[Len(S.cs)]  OBVIOUS
<1>4. /\ S = State /\ Good(S) /\ t0 = t /\ b.k = "c" /\ t.nCcalls < Limit /\ S.op = "run" /\ Top1 = b
      /\ RunReady(b, t)
  BY <1>1, <1>2, <1>3 DEF Now, InC, HostCall, PcallBody, XpcallBody
<1>5. CASE HostCall
  <2>1. PICK T : T = HostStep(S)  OBVIOUS
  <2>2. b.f = "host"  BY <1>4, <1>5 DEF HostCall, InC
  <2>3. IInv(T)  BY <2>1, <2>2, <1>2, <1>3, <1>4, HostInv
  <2>4. Become(T)  BY <2>1, <1>2, <1>4, <1>5 DEF HostCall, HostStep
  <2> QED  BY <2>3, <2>4, Becomes
<1>6. CASE PcallBody
  <2>1. PICK T : T = PcallStep(S)  OBVIOUS
  <2>2. b.f = "pcall"  BY <1>4, <1>6 DEF PcallBody, InC
  <2>3. IInv(T)  BY <2>1, <2>2, <1>2, <1>3, <1>4, PcallBodyInv
  <2>4. Become(T)  BY <2>1, <1>2, <1>4, <1>6 DEF PcallBody, PcallStep
  <2> QED  BY <2>3, <2>4, Becomes
<1>7. CASE XpcallBody
  <2>1. PICK T : T = XpcallStep(S)  OBVIOUS
  <2>2. b.f = "xpcall"  BY <1>4, <1>7 DEF XpcallBody, InC
  <2>3. IInv(T)  BY <2>1, <2>2, <1>2, <1>3, <1>4, XpcallBodyInv
  <2>4. Become(T)  BY <2>1, <1>2, <1>4, <1>7 DEF XpcallBody, XpcallStep, Swapped
  <2> QED  BY <2>3, <2>4, Becomes
<1> QED  BY <1>5, <1>6, <1>7

\* The other C functions go on.
LEMMA BodiesKept ==
    ASSUME StateInv, ErrorBody \/ YieldBody \/ CreateBody \/ Callback \/ CallbackReturn
    PROVE  StateInv'
<1>a. op # "return"  BY DEF ErrorBody, YieldBody, CreateBody, Callback, CallbackReturn, InC
<1>1. PICK S : Now(S)  BY <1>a, NowFacts
<1>2. PICK t : t = S.L[S.cur]  OBVIOUS
<1>3. PICK b : b = S.cs[Len(S.cs)]  OBVIOUS
<1>4. /\ S = State /\ Good(S) /\ t0 = t /\ b.k = "c" /\ t.nCcalls < Limit /\ S.op = "run" /\ Top1 = b
      /\ RunReady(b, t)
  BY <1>1, <1>2, <1>3 DEF Now, InC, ErrorBody, YieldBody, CreateBody, Callback, CallbackReturn
<1>5. CASE ErrorBody
  <2>1. PICK T : T = Do(S, "error")  OBVIOUS
  <2>2. b.f = "error"  BY <1>4, <1>5 DEF ErrorBody, InC
  <2>3. IInv(T)  BY <2>1, <2>2, <1>2, <1>3, <1>4, ErrorBodyInv
  <2>4. Become(T)  BY <2>1, <1>4, <1>5 DEF ErrorBody
  <2> QED  BY <2>3, <2>4, Becomes
<1>6. CASE YieldBody
  <2>1. PICK T : T = LuaYield(S)  OBVIOUS
  <2>2. PICK n : n = Len(S.cs)  OBVIOUS
  <2>3. S.cs[n].f = "yield" /\ S.cs[n].k = "c"  BY <2>2, <1>3, <1>4, <1>6 DEF YieldBody, InC
  <2>4. IInv(T)  BY <2>1, <2>2, <2>3, <1>2, <1>4, YieldInv
  <2>5. Become(T)  BY <2>1, <1>4, <1>6 DEF YieldBody
  <2> QED  BY <2>4, <2>5, Becomes
<1>7. CASE CreateBody
  <2>1. PICK co : co = CHOOSE c \in Subjects("create") : TRUE  OBVIOUS
  <2>2. co \in Subjects("create")  BY <2>1, <1>7 DEF CreateBody
  <2>3. co \in Thread /\ S.L[co].status = "none"
    <3>1. co \in Coroutines /\ co \notin Created  BY <2>2 DEF Subjects
    <3>2. S.L = L  BY <1>1 DEF Now
    <3> QED  BY <3>1, <3>2 DEF Thread, Created
  <2>4. b.f = "create"  BY <1>4, <1>7 DEF CreateBody, InC
  <2>5. PICK T : T = CoCreate(S, co)  OBVIOUS
  <2>6. IInv(T)  BY <2>3, <2>4, <2>5, <1>2, <1>3, <1>4, CoCreateInv
  <2>7. Become(T)  BY <2>1, <2>5, <1>4, <1>7 DEF CreateBody
  <2> QED  BY <2>6, <2>7, Becomes
<1>8. CASE Callback
  <2>1. PICK T : T = CallbackStep(S)  OBVIOUS
  <2>2. b.f = "callback"  BY <1>4, <1>8 DEF Callback, InC
  <2>3. IInv(T)  BY <2>1, <2>2, <1>2, <1>3, <1>4, CallbackInv
  <2>4. Become(T)  BY <2>1, <1>2, <1>4, <1>8 DEF Callback, CallbackStep
  <2> QED  BY <2>3, <2>4, Becomes
<1>9. CASE CallbackReturn
  <2>1. PICK T : T = CReturn(S, 0)  OBVIOUS
  <2>2. b.f = "callback"  BY <1>4, <1>9 DEF CallbackReturn, InC
  <2>3. IInv(T)  BY <2>1, <2>2, <1>2, <1>3, <1>4, CallbackReturnInv
  <2>4. Become(T)  BY <2>1, <1>4, <1>9 DEF CallbackReturn
  <2> QED  BY <2>3, <2>4, Becomes
<1> QED  BY <1>5, <1>6, <1>7, <1>8, <1>9

\* A coroutine is resumed.
LEMMA ResumeKept ==
    ASSUME StateInv, NEW co \in Coroutines, Resume(co) \/ Wrap(co)
    PROVE  StateInv'
<1>a. op # "return"  BY DEF Resume, Wrap, InC
<1>1. PICK S : Now(S)  BY <1>a, NowFacts
<1>2. PICK t : t = S.L[S.cur]  OBVIOUS
<1>3. PICK b : b = S.cs[Len(S.cs)]  OBVIOUS
<1>4. /\ S = State /\ Good(S) /\ b.k = "c" /\ b.f \in {"resume", "wrap"} /\ t.nCcalls < Limit
      /\ RunReady(b, t)
  BY <1>1, <1>2, <1>3 DEF Now, InC, Resume, Wrap
<1>5. PICK T : T = AuxResume(S, co)  OBVIOUS
<1>6. IInv(T)
  <2>1. co \in Thread  BY DEF Thread
  <2> QED  BY <2>1, <1>2, <1>3, <1>4, <1>5, AuxResumeInv
<1>7. Become(T)  BY <1>4, <1>5 DEF Resume, Wrap
<1> QED  BY <1>6, <1>7, Becomes

\* A C function has returned.
LEMMA ReturnsKept ==
    ASSUME StateInv, CReturns
    PROVE  StateInv'
<1>1. PICK S : S = State  OBVIOUS
<1>2. S.op = "return" /\ S.op = op  BY <1>1 DEF CReturns, State
<1>3. Returning(S)  BY <1>1, <1>2 DEF StateInv, IInv, Ready
<1>4. S.ret \in Nat
  <2>1. S \in StateT  BY <1>3 DEF Returning, Moves
  <2> QED  BY <2>1 DEF StateT
<1>5. PICK T : T = CReturned(S)  OBVIOUS
<1>6. IInv(T)  BY <1>3, <1>4, <1>5, ReturningInv
<1>7. Become(T)  BY <1>1, <1>5 DEF CReturns
<1> QED  BY <1>6, <1>7, Becomes

\* What is done next, after a call or an error.
LEMMA RestKept ==
    ASSUME StateInv, After \/ Message \/ Throw
    PROVE  StateInv'
<1>a. op # "return"  BY DEF After, Message, Throw
<1>1. PICK S : Now(S)  BY <1>a, NowFacts
<1>2. PICK t : t = S.L[S.cur]  OBVIOUS
<1>3. PICK f : f = S.cs[Len(S.cs)]  OBVIOUS
<1>4. S = State /\ Good(S) /\ S.op = op  BY <1>1 DEF Now
<1>5. CASE After
  <2>1. op = "after"  BY <1>5 DEF After
  <2>2. AfterReady(f) /\ t.nCcalls < Limit  BY <2>1, <1>1, <1>2, <1>3 DEF Now
  <2>3. PICK T : T = AfterC(S)  OBVIOUS
  <2>4. IInv(T)  BY <2>1, <2>2, <2>3, <1>2, <1>3, <1>4, AfterInv
  <2>5. Become(T)  BY <2>3, <1>4, <1>5 DEF After
  <2> QED  BY <2>4, <2>5, Becomes
<1>6. CASE Message
  <2>1. op = "error"  BY <1>6 DEF Message
  <2>2. ErrorReady(S.cs[Len(S.cs)]) /\ Raised(t, S.cs, S.cur) /\ t.nCcalls < Limit
    BY <2>1, <1>1, <1>2 DEF Now
  <2>3. PICK T : T = ErrorMsg(S)  OBVIOUS
  <2>4. IInv(T)  BY <2>2, <2>3, <1>2, <1>4, ErrorMsgInv
  <2>5. Become(T)  BY <2>3, <1>4, <1>6 DEF Message
  <2> QED  BY <2>4, <2>5, Becomes
<1>7. CASE Throw
  <2>1. op = "throw"  BY <1>7 DEF Throw
  <2>2. ErrorReady(S.cs[Len(S.cs)])  BY <2>1, <1>1 DEF Now
  <2>3. PICK T : T = LuaDThrow(S)  OBVIOUS
  <2>4. IInv(T)  BY <2>2, <2>3, <1>4, LuaDThrowInv
  <2>5. Become(T)  BY <2>3, <1>4, <1>7 DEF Throw
  <2> QED  BY <2>4, <2>5, Becomes
<1> QED  BY <1>5, <1>6, <1>7

\* A thread that is not created yet.
LEMMA NoneFacts ==
    ASSUME NEW t, t = StackInit, NEW u, u = [t EXCEPT !.status = "none"]
    PROVE  u \in ThreadT /\ Sleeper(u) /\ Sound(u) /\ Fits(u) /\ u.status = "none" /\ u.nCcalls = 0
<1>1. /\ t \in ThreadT /\ t.nCcalls = 0 /\ t.errfunc = 0 /\ t.jmp = 0
      /\ Len(t.stack) = 1 /\ Len(t.ci) = 1 /\ ~ t.ci[1].lua /\ Sound(t) /\ StackLast(t) >= 3
  BY StackInitFacts
<1>2. /\ u \in ThreadT /\ SameStack(t, u) /\ u.status = "none" /\ u.nCcalls = 0 /\ u.errfunc = 0 /\ u.jmp = 0
  BY <1>1 DEF ThreadT, SameStack, Statuses
<1>3. Fits(t)
  <2>1. PICK s : s = StackLast(t)  OBVIOUS
  <2>2. s \in Int /\ s >= 3  BY <2>1, <1>1, ThreadFacts
  <2>3. 1 < s  BY <2>2
  <2> QED  BY <2>1, <2>3, <1>1 DEF Fits
<1>4. Sound(u) /\ Fits(u) /\ u.ci = t.ci  BY <1>1, <1>2, <1>3, SoundSame DEF SameStack
<1>5. Sleeper(u)
  <2>1. 0 <= Limit  BY Constants
  <2> QED  BY <2>1, <1>1, <1>2, <1>4 DEF Sleeper
<1> QED  BY <1>2, <1>4, <1>5

\* A C function of the host counts for nothing.
LEMMA HostCounts ==
    ASSUME NEW C \in Seq(CFrame), Len(C) = 1, C[1].th = "main", C[1].k = "c", Runs(C[1]) = 0
    PROVE  /\ Calls(C, "main", 1) = 0 /\ Infos(C, "main", 1) = 1 /\ Catcher(C, "main", 1) = 0
           /\ HandlerOf(C, "main", 1) = 0
<1>1. PICK j : j = 1  OBVIOUS
<1>2. /\ j \in 1..Len(C) /\ j - 1 = 0 /\ C[j].th = "main" /\ C[j].k = "c" /\ Runs(C[j]) = 0
  BY <1>1
<1>3. Calls(C, "main", j) = Calls(C, "main", j - 1) + 0  BY <1>2, CountStep
<1>4. Infos(C, "main", j) = Infos(C, "main", j - 1) + 0  BY <1>2, CountStep
<1>5. Catcher(C, "main", j) = Catcher(C, "main", j - 1)  BY <1>2, CountStep
<1>6. HandlerOf(C, "main", j) = HandlerOf(C, "main", j - 1)  BY <1>2, CountStep
<1>7. Calls(C, "main", 0) = 0 /\ Infos(C, "main", 0) = 1 /\ Catcher(C, "main", 0) = 0 /\ HandlerOf(C, "main", 0) = 0
  BY CountNone
<1> QED  BY <1>1, <1>2, <1>3, <1>4, <1>5, <1>6, <1>7

\* The host is the only frame.
LEMMA HostOnly ==
    ASSUME NEW C, C = <<Host>>
    PROVE  /\ C \in Seq(CFrame) /\ Len(C) = 1 /\ C[1] = Host /\ Shape(C) /\ Saved(C)
           /\ \A th \in Thread : th # "main" => ~ HasFrames(C, th)
           /\ Calls(C, "main", 1) = 0 /\ Infos(C, "main", 1) = 1 /\ Catcher(C, "main", 1) = 0
           /\ HandlerOf(C, "main", 1) = 0 /\ \A th : Pcalls(C, th) = {}
<1>1. Host \in CFrame /\ Host.k = "c" /\ Host.f = "host" /\ Host.th = "main" /\ Runs(Host) = 0
  <2>1. "main" \in Thread /\ "host" \in CFunctions  BY DEF Thread, CFunctions
  <2>2. Host \in CFrame  BY <2>1 DEF Host, CFrame
  <2> QED  BY <2>2 DEF Host, Runs
<1>2. C \in Seq(CFrame) /\ Len(C) = 1 /\ C[1] = Host  BY <1>1
<1>3. \A i \in 1..Len(C) : i = 1 /\ C[i] = Host
  <2>1. \A i \in 1..1 : i = 1  OBVIOUS
  <2> QED  BY <2>1, <1>2
<1>4. Shape(C)
  <2>1. \A i \in 2..Len(C) : FALSE  BY <1>2
  <2>2. \A i, j \in 1..Len(C) : ~ (i < j)
    <3> SUFFICES ASSUME NEW i \in 1..Len(C), NEW j \in 1..Len(C) PROVE ~ (i < j)  OBVIOUS
    <3>1. i = 1 /\ j = 1  BY <1>3
    <3> QED  BY <3>1
  <2>3. Len(C) >= 1  BY <1>2
  <2> QED  BY <2>1, <2>2, <2>3, <1>2 DEF Shape
<1>5. Saved(C)  BY <1>1, <1>3 DEF Saved, SavedFrame
<1>6. \A th \in Thread : th # "main" => ~ HasFrames(C, th)  BY <1>1, <1>3 DEF HasFrames
<1>7. \A th : Pcalls(C, th) = {}  BY <1>1, <1>3 DEF Pcalls
<1>8. /\ Calls(C, "main", 1) = 0 /\ Infos(C, "main", 1) = 1 /\ Catcher(C, "main", 1) = 0
      /\ HandlerOf(C, "main", 1) = 0
  BY <1>1, <1>2, HostCounts
<1> QED  BY <1>2, <1>4, <1>5, <1>6, <1>7, <1>8

\* The specification starts in a good state.
LEMMA InitInv == Init => StateInv
<1> SUFFICES ASSUME Init PROVE StateInv  OBVIOUS
<1>1. PICK S : S = State  OBVIOUS
<1>2. S.L = L /\ S.cur = cur /\ S.cs = cs /\ S.op = op /\ S = [L |-> L, cur |-> cur, cs |-> cs, op |-> op, ret |-> ret]
  BY <1>1 DEF State
<1>3. PICK t : t = StackInit  OBVIOUS
<1>4. PICK u : u = [t EXCEPT !.status = "none"]  OBVIOUS
<1>5. /\ t \in ThreadT /\ t.status = "ok" /\ t.base = 2 /\ t.nCcalls = 0 /\ t.errfunc = 0 /\ t.jmp = 0
      /\ Len(t.stack) = 1 /\ Len(t.ci) = 1 /\ ~ t.ci[1].lua /\ Sound(t) /\ StackLast(t) >= 3
  BY <1>3, StackInitFacts
<1>6. u \in ThreadT /\ Sleeper(u) /\ Sound(u) /\ Fits(u) /\ u.status = "none" /\ u.nCcalls = 0
  BY <1>3, <1>4, NoneFacts
<1>7. PICK C : C = <<Host>>  OBVIOUS
<1>8. cs = C /\ cur = "main" /\ op = "run" /\ L = [th \in Thread |-> IF th = "main" THEN t ELSE u]
  BY <1>3, <1>4, <1>7 DEF Init, Host
<1>9. L \in [Thread -> ThreadT] /\ L["main"] = t /\ (\A th \in Thread : th # "main" => L[th] = u) /\ "main" \in Thread
  <2>1. "main" \in Thread  BY DEF Thread
  <2> QED  BY <1>5, <1>6, <1>8, <2>1
<1>10. /\ C \in Seq(CFrame) /\ Len(C) = 1 /\ C[1] = Host /\ Shape(C) /\ Saved(C)
       /\ \A th \in Thread : th # "main" => ~ HasFrames(C, th)
       /\ Calls(C, "main", 1) = 0 /\ Infos(C, "main", 1) = 1 /\ Catcher(C, "main", 1) = 0
       /\ HandlerOf(C, "main", 1) = 0 /\ \A th : Pcalls(C, th) = {}
  BY <1>7, HostOnly
<1>11. Host.k = "c" /\ Host.f = "host" /\ Host.th = "main"  BY DEF Host
<1>12. \A i \in 1..Len(C) : C[i] = Host  BY <1>7
<1>13. S \in StateT
  <2>1. op \in Ops /\ ret \in Nat  BY <1>8 DEF Ops, Init
  <2> QED  BY <2>1, <1>2, <1>8, <1>9, <1>10 DEF StateT
<1>14. Core(S.L, S.cs, S.cur)
  <2>1. Runner(t, C, "main")
    <3>1. Kinds(t.ci, C, "main")  BY <1>5, <1>11, <1>12 DEF Kinds
    <3> QED  BY <3>1, <1>5, <1>10 DEF Runner
  <2>2. InStep(L["main"], C, "main")
    <3>1. HasFrames(C, "main")
      <4>1. 1 \in 1..Len(C) /\ C[1].th = "main"  BY <1>10, <1>11
      <4> QED  BY <4>1 DEF HasFrames
    <3> QED  BY <3>1, <2>1, <1>9 DEF InStep
  <2>3. \A th \in Thread : InStep(L[th], C, th)
    <3> SUFFICES ASSUME NEW th \in Thread PROVE InStep(L[th], C, th)  OBVIOUS
    <3>1. CASE th = "main"  BY <3>1, <2>2
    <3>2. CASE th # "main"  BY <3>2, <1>6, <1>9, <1>10 DEF InStep
    <3> QED  BY <3>1, <3>2
  <2>4. C[Len(C)].th = "main"  BY <1>10, <1>11
  <2> QED  BY <2>3, <2>4, <1>2, <1>8, <1>10 DEF Core
<1>15. \A th \in Thread : Fine(S.L[th], S.cs, th)
  <2> SUFFICES ASSUME NEW th \in Thread PROVE Fine(L[th], C, th)  BY <1>2, <1>8
  <2>1. PICK v : v = L[th]  OBVIOUS
  <2>2. Fits(t)
    <3>1. PICK s : s = StackLast(t)  OBVIOUS
    <3>2. s \in Int /\ s >= 3  BY <3>1, <1>5, ThreadFacts
    <3>3. 1 < s  BY <3>2
    <3> QED  BY <3>1, <3>3, <1>5 DEF Fits
  <2>3. Sound(v) /\ Fits(v) /\ v.nCcalls = 0 /\ v.status # "err"
    <3>1. CASE th = "main"  BY <3>1, <2>1, <2>2, <1>5, <1>9
    <3>2. CASE th # "main"  BY <3>2, <2>1, <1>6, <1>9
    <3> QED  BY <3>1, <3>2
  <2>4. Caught(v, C, th)  BY <1>10 DEF Caught
  <2>5. Waits(v, C, th)  BY <1>11, <1>12 DEF Waits
  <2>6. 0 <= Limit  BY Constants
  <2> QED  BY <2>1, <2>3, <2>4, <2>5, <2>6 DEF Fine
<1>16. Ready(S)
  <2>1. S.cs[Len(S.cs)] = Host /\ S.L[S.cur] = t /\ S.op = "run"  BY <1>2, <1>8, <1>9, <1>10
  <2>2. t.ci[Len(t.ci)].top = 2 + MinStack
    <3>1. t.ci = <<[func |-> 1, base |-> 2, top |-> 2 + MinStack, nres |-> 0, lua |-> FALSE]>>  BY <1>3 DEF StackInit
    <3> QED  BY <3>1
  <2>3. RunReady(Host, t)
    <3>1. Arity(Host.f) = 0  BY <1>11 DEF Arity
    <3>2. MinStack \in Nat /\ MinStack >= 1  BY Constants
    <3>3. Len(t.stack) + 2 <= t.ci[Len(t.ci)].top  BY <3>2, <2>2, <1>5
    <3> QED  BY <3>1, <3>3, <1>5, <1>11 DEF RunReady
  <2>4. t.nCcalls < Limit
    <3>1. 0 < Limit  BY Constants
    <3> QED  BY <3>1, <1>5
  <2> QED  BY <2>1, <2>3, <2>4 DEF Ready
<1> QED  BY <1>1, <1>13, <1>14, <1>15, <1>16 DEF StateInv, IInv, Good

\* Every step keeps it.
LEMMA NextInv == StateInv /\ [Next]_vars => StateInv'
<1> SUFFICES ASSUME StateInv, [Next]_vars PROVE StateInv'  OBVIOUS
<1>1. CASE UNCHANGED vars
  <2>1. State' = State  BY <1>1 DEF vars, State
  <2> QED  BY <2>1 DEF StateInv
<1>2. CASE CallLua
  <2>1. PICK args : args = <<Value>>  OBVIOUS
  <2>2. Arguments(args)
    <3>1. <<Value>> \in Seq(Int) /\ Len(<<Value>>) = 1  BY DEF Value
    <3> QED  BY <3>1, <2>1 DEF Arguments
  <2>3. InLua /\ Room /\ Become(Precall(CallArgs(args), "lua", t0.base + 1, 1))  BY <1>2, <2>1 DEF CallLua
  <2>4. "lua" \in LuaFunctions  BY DEF LuaFunctions
  <2> QED  BY <2>2, <2>3, <2>4, CallsKept
<1>3. CASE CallObject
  <2>1. PICK args : args = <<Value, Value>>  OBVIOUS
  <2>2. Arguments(args)
    <3>1. <<Value, Value>> \in Seq(Int) /\ Len(<<Value, Value>>) = 2  BY DEF Value
    <3> QED  BY <3>1, <2>1 DEF Arguments
  <2>3. InLua /\ Room /\ Become(Precall(CallArgs(args), "vararg", t0.base + 1, 1))  BY <1>3, <2>1 DEF CallObject
  <2>4. "vararg" \in LuaFunctions  BY DEF LuaFunctions
  <2> QED  BY <2>2, <2>3, <2>4, CallsKept
<1>4. ASSUME NEW f \in DOMAIN Args, CallC(f) PROVE StateInv'
  <2>1. PICK args \in Args[f] : Become(Precall(CallArgs(args), f, t0.base + 1, 1))  BY <1>4 DEF CallC
  <2>2. InLua /\ Room  BY <1>4 DEF CallC
  <2>3. f \in CFunctions \ {"host"} /\ Arguments(args) /\ Arity(f) <= Len(args)  BY <2>1, ArgsFacts
  <2> QED  BY <2>1, <2>2, <2>3, CallsKept
<1>5. ASSUME NEW f \in {"lua", "yield"}, CallTM(f) PROVE StateInv'  BY <1>5, CallTMKept
<1>6. CASE TailCall \/ Capture \/ Return \/ Error \/ MemoryError  BY <1>6, LuaStepKept
<1>7. CASE HostCall \/ PcallBody \/ XpcallBody  BY <1>7, PcallsKept
<1>8. CASE ErrorBody \/ YieldBody \/ CreateBody \/ Callback \/ CallbackReturn  BY <1>8, BodiesKept
<1>9. ASSUME NEW co \in Coroutines, Resume(co) \/ Wrap(co) PROVE StateInv'  BY <1>9, ResumeKept
<1>10. CASE After \/ Message \/ Throw  BY <1>10, RestKept
<1>11. CASE CReturns  BY <1>11, ReturnsKept
<1> QED  BY <1>1, <1>2, <1>3, <1>4, <1>5, <1>6, <1>7, <1>8, <1>9, <1>10, <1>11 DEF Next

\* Whatever a program does, every thread is in step with the C stack.
THEOREM StateCorrect == Spec => []StateInv
BY InitInv, NextInv, PTL DEF Spec

-----------------------------------------------------------------------------
(* The properties *)

\* A thread as it is at any time, while a C function returns too.
Healthy(t) ==
    /\ (t.status # "err" => Sound(t)) /\ (t.status = "err" => Dead(t))
    /\ Len(t.stack) <= StackLast(t) /\ t.nCcalls <= Limit

\* A thread with room for a value more is healthy.
LEMMA FineHealthy ==
    ASSUME NEW t \in ThreadT, NEW C, NEW th, Fine(t, C, th)
    PROVE  Healthy(t)
<1>1. Len(t.stack) \in Nat /\ StackLast(t) \in Int  BY ThreadFacts
<1>2. Len(t.stack) < StackLast(t)  BY DEF Fine, Fits
<1> QED  BY <1>1, <1>2 DEF Fine, Healthy

\* What holds of the state, as a value.
Holding(S) ==
    /\ S.cs \in Seq(CFrame) /\ S.cur \in Thread /\ Core(S.L, S.cs, S.cur)
    /\ \A th \in Thread : S.L[th] \in ThreadT /\ Healthy(S.L[th])

\* All threads are healthy where the invariant is good.
LEMMA GoodHolding ==
    ASSUME NEW S, Good(S)
    PROVE  Holding(S)
<1>1. S \in StateT /\ Core(S.L, S.cs, S.cur)  BY DEF Good
<1>2. S.cs \in Seq(CFrame) /\ S.cur \in Thread /\ \A th \in Thread : S.L[th] \in ThreadT  BY <1>1, StateFacts
<1>3. \A th \in Thread : Healthy(S.L[th])
  <2> SUFFICES ASSUME NEW th \in Thread PROVE Healthy(S.L[th])  OBVIOUS
  <2>1. Fine(S.L[th], S.cs, th)  BY DEF Good
  <2> QED  BY <2>1, <1>2, FineHealthy
<1> QED  BY <1>1, <1>2, <1>3 DEF Holding

\* They are while a C function returns: only its own thread has less room.
LEMMA ReturningHolding ==
    ASSUME NEW S, Returning(S)
    PROVE  Holding(S)
<1>1. PICK v : v = S.L[S.cur]  OBVIOUS
<1>2. PICK G : /\ Good(G) /\ Moves(G, S, v) /\ G.cs = S.cs
               /\ Shares(G.L[G.cur], v) /\ SameInfos(G.L[G.cur], v)
  BY <1>1 DEF Returning
<1>3. PICK t : t = G.L[G.cur]  OBVIOUS
<1>4. v \in ThreadT /\ Sound(v) /\ Len(v.stack) <= StackLast(v) /\ v.nCcalls < Limit  BY <1>1 DEF Returning
<1>5. /\ S \in StateT /\ S.cur = G.cur /\ \A o \in Thread : o # S.cur => S.L[o] = G.L[o]
      /\ Shares(t, v) /\ SameInfos(t, v)
  BY <1>2, <1>3 DEF Moves
<1>6. PICK n : n = Len(G.cs)  OBVIOUS
<1>7. t.status = "ok" /\ G.cs \in Seq(CFrame) /\ G.cur \in Thread /\ Holding(G)  BY <1>2, <1>3, <1>6, GoodFacts, GoodHolding
<1>8. Core(S.L, S.cs, S.cur)
  <2>1. Len(v.ci) = Len(t.ci) /\ \A d \in 1..Len(t.ci) : v.ci[d].lua = t.ci[d].lua  BY <1>5 DEF SameInfos
  <2>2. Core(S.L, G.cs, G.cur)  BY <1>2, <1>3, <1>5, <2>1, CoreStay
  <2> QED  BY <2>2, <1>2, <1>5
<1>9. \A th \in Thread : S.L[th] \in ThreadT /\ Healthy(S.L[th])
  <2> SUFFICES ASSUME NEW th \in Thread PROVE S.L[th] \in ThreadT /\ Healthy(S.L[th])  OBVIOUS
  <2>1. CASE th = S.cur
    <3>1. v.status # "err"  BY <1>5, <1>7 DEF Shares
    <3>2. v.nCcalls <= Limit
      <4>1. v.nCcalls \in Nat /\ Limit \in Nat  BY <1>4, ThreadFacts, Constants
      <4> QED  BY <4>1, <1>4
    <3> QED  BY <2>1, <3>1, <3>2, <1>1, <1>4 DEF Healthy
  <2>2. CASE th # S.cur
    <3>1. S.L[th] = G.L[th]  BY <2>2, <1>5
    <3> QED  BY <3>1, <1>7 DEF Holding
  <2> QED  BY <2>1, <2>2
<1> QED  BY <1>2, <1>5, <1>7, <1>8, <1>9 DEF Holding

\* The invariant, read off the variables.
LEMMA Holds ==
    ASSUME StateInv
    PROVE  /\ cs \in Seq(CFrame) /\ Len(cs) \in Nat /\ Len(cs) >= 1 /\ DOMAIN cs = 1..Len(cs) /\ Shape(cs)
           /\ cs[Len(cs)].th = cur /\ cur \in Thread
           /\ \A th \in Thread : L[th] \in ThreadT /\ InStep(L[th], cs, th) /\ Healthy(L[th])
<1>1. PICK S : S = State  OBVIOUS
<1>2. S.L = L /\ S.cs = cs /\ S.cur = cur  BY <1>1 DEF State
<1>3. Holding(S)  BY <1>1, GoodHolding, ReturningHolding DEF StateInv, IInv
<1>4. cs \in Seq(CFrame) /\ cur \in Thread /\ \A th \in Thread : L[th] \in ThreadT /\ Healthy(L[th])
  BY <1>2, <1>3 DEF Holding
<1>5. Shape(cs) /\ cs[Len(cs)].th = cur /\ \A th \in Thread : InStep(L[th], cs, th)  BY <1>2, <1>3 DEF Holding, Core
<1>6. Len(cs) \in Nat /\ Len(cs) >= 1 /\ DOMAIN cs = 1..Len(cs)  BY <1>4, <1>5, LenProperties DEF Shape
<1> QED  BY <1>4, <1>5, <1>6

\* A thread is active when it has frames on the C stack.
LEMMA ActiveHas ==
    ASSUME StateInv, NEW th \in Thread
    PROVE  th \in Active <=> HasFrames(cs, th)
<1>1. DOMAIN cs = 1..Len(cs)  BY Holds
<1> QED  BY <1>1 DEF Active, HasFrames

\* The asserts ci->top <= L->stack_last of luaD_precall, and the EXTRA_STACK.
LEMMA StackFitsHolds == StateInv => StackFits
<1> SUFFICES ASSUME StateInv, NEW th \in Created
             PROVE  /\ \A d \in DOMAIN L[th].ci : L[th].ci[d].top - 1 <= StackLast(L[th])
                    /\ Len(L[th].stack) <= StackLast(L[th])
  BY DEF StackFits
<1>1. PICK t : t = L[th]  OBVIOUS
<1>2. th \in Thread  BY DEF Created
<1>3. t \in ThreadT /\ Healthy(t)  BY <1>1, <1>2, Holds
<1>4. /\ t.ci \in Seq(CallInfo) /\ t.stacksize \in Nat /\ Len(t.stack) \in Nat
  BY <1>3 DEF ThreadT
<1>5. DOMAIN t.ci = 1..Len(t.ci)  BY <1>4
<1>6. Len(t.stack) <= StackLast(t) /\ (t.status # "err" => Sound(t)) /\ (t.status = "err" => Dead(t))
  BY <1>3 DEF Healthy
<1>7. PICK s : s = StackLast(t)  OBVIOUS
<1>8. ExtraStack \in Nat  BY Constants
<1>9. s = t.stacksize - ExtraStack - 1 /\ s \in Int
  BY <1>4, <1>7, <1>8 DEF StackLast
<1>11. \A d \in 1..Len(t.ci) : t.ci[d].top - 1 <= s
  <2> SUFFICES ASSUME NEW d \in 1..Len(t.ci) PROVE t.ci[d].top - 1 <= s  OBVIOUS
  <2>1. t.ci[d].top \in Nat
    <3>1. t.ci[d] \in CallInfo  BY <1>4
    <3> QED  BY <3>1 DEF CallInfo
  <2>2. CASE t.status = "err"  BY <2>2, <1>6, <1>7 DEF Dead
  <2>3. CASE t.status # "err"
    <3>1. t.ci[d].top <= s  BY <2>3, <1>6, <1>7 DEF Sound
    <3> QED  BY <3>1, <2>1, <1>9
  <2> QED  BY <2>2, <2>3
<1> QED  BY <1>1, <1>5, <1>6, <1>7, <1>11

\* Locals keep their values, and open upvalues point to locals.
LEMMA LocalsKeptHolds == StateInv => LocalsKept
<1> SUFFICES ASSUME StateInv PROVE LocalsKept  OBVIOUS
<1>1. \A th \in Thread : DOMAIN L[th].ci = 1..Len(L[th].ci) /\ Healthy(L[th])
  BY Holds DEF ThreadT
<1>2. ASSUME NEW th \in Alive, NEW d \in DOMAIN L[th].ci, L[th].ci[d].lua
      PROVE  L[th].ci[d].base <= Len(L[th].stack) /\ L[th].stack[L[th].ci[d].base] = Local(d)
  <2>1. th \in Thread /\ L[th].status # "err"  BY DEF Alive, Created
  <2>2. Locals(L[th])  BY <2>1, <1>1 DEF Healthy, Sound
  <2>3. d \in 1..Len(L[th].ci)  BY <2>1, <1>1
  <2> QED  BY <1>2, <2>2, <2>3 DEF Locals
<1>3. ASSUME NEW th \in Created, NEW u \in L[th].open
      PROVE  \E d \in DOMAIN L[th].ci : L[th].ci[d].lua /\ L[th].ci[d].base = u
  <2>1. th \in Thread  BY DEF Created
  <2>2. Owned(L[th])  BY <2>1, <1>1 DEF Healthy, Sound, Dead
  <2> QED  BY <2>1, <2>2, <1>1 DEF Owned
<1> QED  BY <1>2, <1>3 DEF LocalsKept

\* A suspended coroutine has no luaD_call and no handler, and waits in a C function.
LEMMA SuspendedHolds == StateInv => SuspendedClean
<1> SUFFICES ASSUME StateInv, NEW th \in Created, L[th].status = "yield"
             PROVE  th \notin Active /\ L[th].errfunc = 0 /\ L[th].nCcalls = 0 /\ ~ CI(L[th]).lua
  BY DEF SuspendedClean
<1>1. PICK t : t = L[th]  OBVIOUS
<1>2. th \in Thread /\ t \in ThreadT /\ InStep(t, cs, th)  BY <1>1, Holds DEF Created
<1>3. t.status = "yield" /\ t.status # "err"  BY <1>1
<1>4. ~ HasFrames(cs, th)  BY <1>2, <1>3 DEF InStep, Runner
<1>5. Sleeper(t)  BY <1>2, <1>4 DEF InStep
<1>6. th \notin Active  BY <1>2, <1>4, ActiveHas
<1>7. ~ t.ci[Len(t.ci)].lua /\ t.nCcalls = 0 /\ t.errfunc = 0  BY <1>3, <1>5 DEF Sleeper
<1>8. CI(t) = t.ci[Len(t.ci)]  BY DEF CI, Last
<1> QED  BY <1>1, <1>6, <1>7, <1>8

\* The CallInfos are the ones of the functions that the C stack runs.
LEMMA CallInfosHold == StateInv => CallInfosInStep
<1> SUFFICES ASSUME StateInv, NEW th \in Active PROVE Len(L[th].ci) = 1 + Cardinality(Running(th))
  BY DEF CallInfosInStep
<1>1. th \in Thread  BY DEF Active
<1>2. HasFrames(cs, th)  BY <1>1, ActiveHas
<1>3. Runner(L[th], cs, th)  BY <1>1, <1>2, Holds DEF InStep
<1>4. DOMAIN cs = 1..Len(cs)  BY Holds
<1>5. Running(th) = RunTo(cs, th, Len(cs))  BY <1>4 DEF Running, RunTo
<1> QED  BY <1>3, <1>5 DEF Runner, Infos

\* nCcalls counts the luaD_calls in progress, and keeps to its limit.
LEMMA CCallsHold == StateInv => CCallsInStep
<1> SUFFICES ASSUME StateInv PROVE CCallsInStep  OBVIOUS
<1>1. DOMAIN cs = 1..Len(cs)  BY Holds
<1>2. ASSUME NEW th \in Alive PROVE L[th].nCcalls = Cardinality(Frames(th, "call"))
  <2>1. th \in Thread /\ L[th].status # "err"  BY DEF Alive, Created
  <2>2. Frames(th, "call") = FramesTo(cs, th, "call", Len(cs))  BY <1>1 DEF Frames, FramesTo
  <2>3. InStep(L[th], cs, th)  BY <2>1, Holds
  <2>4. CASE HasFrames(cs, th)  BY <2>2, <2>3, <2>4 DEF InStep, Runner, Calls
  <2>5. CASE ~ HasFrames(cs, th)
    <3>1. Frames(th, "call") = {}  BY <2>5, <1>1 DEF Frames, HasFrames
    <3>2. Cardinality({}) = 0  BY FS_EmptySet
    <3>3. L[th].nCcalls = 0  BY <2>1, <2>3, <2>5 DEF InStep, Sleeper
    <3> QED  BY <3>1, <3>2, <3>3
  <2> QED  BY <2>4, <2>5
<1>3. ASSUME NEW th \in Created PROVE L[th].nCcalls <= MaxCCalls + ErrorCalls
  <2>1. th \in Thread  BY DEF Created
  <2>2. Healthy(L[th])  BY <2>1, Holds
  <2> QED  BY <2>2 DEF Healthy, Limit
<1> QED  BY <1>2, <1>3 DEF CCallsInStep

\* errorJmp is the innermost setjmp, errfunc the handler of the innermost xpcall.
LEMMA HandlersHold == StateInv => HandlersInStep
<1> SUFFICES ASSUME StateInv PROVE HandlersInStep  OBVIOUS
<1>1. PICK n : n = Len(cs)  OBVIOUS
<1>2. DOMAIN cs = 1..n /\ n \in Nat /\ n >= 1 /\ cs \in Seq(CFrame) /\ Shape(cs) /\ cs[n].th = cur /\ cur \in Thread
  BY <1>1, Holds
<1>3. cs # <<>>
  <2>1. Len(<<>>) = 0  OBVIOUS
  <2> QED  BY <2>1, <1>1, <1>2
<1>4. L[cur].jmp = Catcher(cs, cur, n)
  <2>1. HasFrames(cs, cur)
    <3>1. n \in 1..Len(cs)  BY <1>1, <1>2
    <3> QED  BY <3>1, <1>2 DEF HasFrames
  <2>2. InStep(L[cur], cs, cur)  BY <1>2, Holds
  <2> QED  BY <2>1, <2>2, <1>1 DEF InStep, Runner
<1>5. Max({0} \union {i \in DOMAIN cs : cs[i].k \in {"pcall", "resume"}}) = Catcher(cs, cur, n)
  <2>1. PICK m : m = Catcher(cs, cur, n)  OBVIOUS
  <2>2. PICK X : X = {0} \union {i \in DOMAIN cs : cs[i].k \in {"pcall", "resume"}}  OBVIOUS
  <2>3. m \in 0..n /\ (m # 0 => m \in Catches(cs, cur, n))
    <3>1. n \in Nat  BY <1>2
    <3> QED  BY <3>1, <2>1, CatcherIs
  <2>4. m \in X
    <3>1. CASE m = 0  BY <3>1, <2>2
    <3>2. CASE m # 0  BY <3>2, <2>2, <2>3, <1>2 DEF Catches
    <3> QED  BY <3>1, <3>2
  <2>5. \A i \in 1..n : cs[i].k \in {"pcall", "resume"} => i <= m
    <3>1. \A i \in 1..Len(cs) : cs[i].k \in {"pcall", "resume"} => i <= Catcher(cs, cur, Len(cs))
      <4>1. cur = cs[Len(cs)].th  BY <1>1, <1>2
      <4> QED  BY <4>1, <1>2, TopSegment
    <3> QED  BY <3>1, <2>1, <1>1
  <2>6. \A x \in X : x <= m
    <3> SUFFICES ASSUME NEW x \in X PROVE x <= m  OBVIOUS
    <3>1. CASE x = 0  BY <3>1, <2>3
    <3>2. CASE x # 0  BY <3>2, <2>2, <2>5, <1>2
    <3> QED  BY <3>1, <3>2
  <2>7. X \subseteq Int  BY <2>2, <1>2
  <2> QED  BY <2>1, <2>2, <2>4, <2>6, <2>7, MaxIs
<1>6. ASSUME NEW th \in Alive
      PROVE  L[th].errfunc = LET p == Frames(th, "pcall") IN IF p = {} THEN 0 ELSE cs[Max(p)].ef
  <2>1. th \in Thread /\ L[th].status # "err"  BY DEF Alive, Created
  <2>2. Frames(th, "pcall") = FramesTo(cs, th, "pcall", n)  BY <1>2 DEF Frames, FramesTo
  <2>3. InStep(L[th], cs, th)  BY <2>1, Holds
  <2>4. CASE HasFrames(cs, th)
    <3>1. L[th].errfunc = HandlerOf(cs, th, n)  BY <2>3, <2>4, <1>1 DEF InStep, Runner
    <3> QED  BY <3>1, <2>2 DEF HandlerOf
  <2>5. CASE ~ HasFrames(cs, th)
    <3>1. Frames(th, "pcall") = {}  BY <2>5, <1>1, <1>2 DEF Frames, HasFrames
    <3>2. L[th].errfunc = 0  BY <2>1, <2>3, <2>5 DEF InStep, Sleeper
    <3> QED  BY <3>1, <3>2
  <2> QED  BY <2>4, <2>5
<1> QED  BY <1>3, <1>4, <1>5, <1>6 DEF HandlersInStep

\* Whatever calls, errors, yields and tail calls happen, the CallInfos, nCcalls,
\* errorJmp and errfunc of every thread say what the C stack holds (ldo.c).
THEOREM StacksInStepCorrect == Spec => []StacksInStep
<1>1. StateInv => StacksInStep  BY CallInfosHold, CCallsHold, HandlersHold DEF StacksInStep
<1> QED  BY <1>1, StateCorrect, PTL

\* A suspended coroutine has no luaD_call in progress, as lua_resume asserts (ldo.c).
THEOREM SuspendedCleanCorrect == Spec => []SuspendedClean
BY SuspendedHolds, StateCorrect, PTL

\* Calls, returns, errors and resumes keep the locals of the functions that run, and
\* close the upvalues of the others (ldo.c, lvm.c).
THEOREM LocalsKeptCorrect == Spec => []LocalsKept
BY LocalsKeptHolds, StateCorrect, PTL

\* A function has the stack it may use without asking (luaD_precall), and no push
\* reaches the EXTRA_STACK (lua_checkstack, lua_pushboolean).
THEOREM StackFitsCorrect == Spec => []StackFits
BY StackFitsHolds, StateCorrect, PTL
=============================================================================
