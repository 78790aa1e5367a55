------------------------------ MODULE LuaCall -------------------------------
(* Calls, errors and coroutines of the embedded Lua 5.1 runtime (ldo.c, with the
   parts of lvm.c, lapi.c, lstate.c and lbaselib.c that enter it).

   Every thread has a stack of values and a stack of CallInfos; all threads share
   the stack cs of C, whose frames are
     exec    luaV_execute, with the number n of Lua functions it runs
     call    luaD_call
     c       a C function called from Lua, or the host program
     pcall   the setjmp of luaD_pcall, with what it saved
     resume  the setjmp of lua_resume
     msg     luaG_errormsg, while the message handler runs
   An error is a longjmp: it cuts cs back to the frame errorJmp points to.

   Programs are abstracted: what runs may do anything it could do next.  A Lua
   function keeps a local in its first register and makes its calls from the
   second one on.  Hooks are left out. *)
EXTENDS Integers, SequencesExt, FiniteSetsExt, Functions

CONSTANTS Coroutines,  \* the threads the program may create, strings
          MaxCCalls,   \* LUAI_MAXCCALLS
          ErrorCalls,  \* LUAI_MAXCCALLS >> 3, the room for errors above it
          BasicCI,     \* BASIC_CI_SIZE
          MaxCalls,    \* LUAI_MAXCALLS
          BasicStack,  \* BASIC_STACK_SIZE
          ExtraStack,  \* EXTRA_STACK
          MinStack,    \* LUA_MINSTACK
          MaxStack,    \* maxstacksize of the Lua functions
          MaxFrames,   \* bound: calls are made by functions no deeper than this,
          MaxTotal     \* and while all threads have so many CallInfos

ASSUME CallAssumption ==
    /\ {MaxCCalls, ErrorCalls, BasicCI, MaxCalls, ExtraStack, MinStack} \subseteq Nat \ {0}
    /\ BasicCI > 1 /\ "main" \notin Coroutines
    /\ MaxStack \in Nat /\ MaxStack >= 5
    /\ BasicStack \in Nat /\ BasicStack > MinStack + 2

VARIABLES L,    \* the threads
          cur,  \* the thread that runs
          cs,   \* the C stack
          op,   \* what C does next: the frame on top goes on ("run"), returns ret values
                \* ("return"), a call came back to it ("after"), luaG_errormsg ("error")
          ret   \* or luaD_throw ("throw")
vars == <<L, cur, cs, op, ret>>

Thread == Coroutines \union {"main"}
MULTRET == -1
\* Values: nil, a message handler, any other value, and the local of the function at depth d.
Nil == 0
Handler == -1
Value == -2
Local(d) == d

\* S is a whole state, [L, cur, cs, op, ret]; t is a thread.
Cur(S) == S.L[S.cur]
With(S, t) == [S EXCEPT !.L[S.cur] = t]
PushC(S, f) == [S EXCEPT !.cs = Append(@, f)]
PopC(S) == [S EXCEPT !.cs = Front(@)]
TopC(S) == Last(S.cs)
Do(S, next) == [S EXCEPT !.op = next]
CI(t) == Last(t.ci)

-----------------------------------------------------------------------------
(* The stack of values: top is Len(stack) + 1. *)
Top(t) == Len(t.stack) + 1
\* The values up to keep stay, nil up to top.
Fill(t, keep, top) ==
    [t EXCEPT !.stack = [i \in 1..(top - 1) |-> IF i <= keep THEN t.stack[i] ELSE Nil]]
SetTop(t, top) == Fill(t, Len(t.stack), top)
StackLast(t) == t.stacksize - ExtraStack - 1
GrowStack(t, n) ==
    [t EXCEPT !.stacksize = 1 + ExtraStack + (IF n <= @ THEN 2 * @ ELSE @ + n)]
CheckStack(t, n) == IF StackLast(t) - Len(t.stack) <= n THEN GrowStack(t, n) ELSE t
\* api_incr_top, without a check, and incr_top.
Put(t, v) == [t EXCEPT !.stack = Append(@, v)]
Push(t, v) == Put(CheckStack(t, 1), v)
\* lua_pushboolean and lua_insert: a status below the top n values.
PutStatus(t, n) ==
    [t EXCEPT !.stack = SubSeq(@, 1, Len(@) - n) \o <<Value>> \o SubSeq(@, Len(@) - n + 1, Len(@))]
\* lua_checkstack
CheckStackC(t, n) ==
    LET u == CheckStack(t, n) IN [u EXCEPT !.ci[Len(u.ci)].top = Max({@, Top(u) + n})]
LuaFClose(t, level) == [t EXCEPT !.open = {u \in @ : u < level}]

RestoreStackLimit(t) == IF t.sizeci > MaxCalls /\ Len(t.ci) < MaxCalls
                        THEN [t EXCEPT !.sizeci = MaxCalls] ELSE t
SetErrorObj(t, oldtop) == [t EXCEPT !.stack = Append(SubSeq(@, 1, oldtop - 1), Value)]

\* The results from first on go to where the function was, as many as are wanted.
Results(t, first) ==
    LET res == SubSeq(t.stack, first, Len(t.stack))
    IN IF CI(t).nres = MULTRET THEN res
       ELSE [i \in 1..CI(t).nres |-> IF i <= Len(res) THEN res[i] ELSE Nil]
Poscall(t, first) ==
    [t EXCEPT !.stack = SubSeq(@, 1, CI(t).func - 1) \o Results(t, first),
              !.ci = Front(@), !.base = t.ci[Len(t.ci) - 1].base]

\* A frame for a Lua function; its parameters are none, or "..." (adjust_varargs).
NewFrame(t, func, nres, va) ==
    LET base == IF va THEN Top(t) ELSE func + 1
    IN [Fill(t, base - 1, base + MaxStack)
        EXCEPT !.base = base,
               !.ci = Append(@, [func |-> func, base |-> base, top |-> base + MaxStack,
                                 nres |-> nres, lua |-> TRUE])]
\* The function goes on; it has no more use for its temporaries.
Continue(t) == Fill(t, CI(t).base, CI(t).top)
SetLocal(t) ==
    [t EXCEPT !.stack = [i \in 1..Len(t.stack) |-> IF i = t.base THEN Local(Len(t.ci)) ELSE t.stack[i]]]

\* OP_TAILCALL puts the new frame in place of the previous one.
MoveFrameDown(t) ==
    LET new == CI(t)
        old == t.ci[Len(t.ci) - 1]
        base == old.func + (new.base - new.func)
        stack == SubSeq(t.stack, 1, old.func - 1) \o SubSeq(t.stack, new.func, Len(t.stack))
    IN [LuaFClose(t, old.base) EXCEPT !.stack = stack, !.base = base,
           !.ci = Append(Front(Front(@)), [old EXCEPT !.base = base, !.top = Len(stack) + 1])]

-----------------------------------------------------------------------------
(* Errors. *)
RunError(S) == Do(With(S, Push(Cur(S), Value)), "error")

\* growCI fails: when it handles an overflow already, or beyond the limit.
Overflow(t) == Len(t.ci) = t.sizeci /\ 2 * t.sizeci > MaxCalls
GrowCI(t) == IF Len(t.ci) = t.sizeci THEN [t EXCEPT !.sizeci = 2 * @] ELSE t
OverflowError(S) ==
    IF Cur(S).sizeci > MaxCalls THEN Do(S, "throw") ELSE RunError(With(S, GrowCI(Cur(S))))

(* Calls. *)
\* luaD_precall; a Lua function runs in the luaV_execute on top, or in a new one.
Checked(S, n) == With(S, CheckStack(Cur(S), n))
NewCFrame(S, f, func, nres) ==
    LET t == GrowCI(Cur(S))
    IN PushC(With(S, [t EXCEPT !.base = func + 1,
                               !.ci = Append(@, [func |-> func, base |-> func + 1, top |-> Top(t) + MinStack,
                                                 nres |-> nres, lua |-> FALSE])]),
             [k |-> "c", th |-> S.cur, f |-> f])
RunLua(S) == IF TopC(S).k = "exec" THEN [S EXCEPT !.cs[Len(S.cs)].n = @ + 1]
             ELSE PushC(S, [k |-> "exec", th |-> S.cur, n |-> 1])
NewLuaFrame(S, f, func, nres) ==
    RunLua(With(S, SetLocal(NewFrame(GrowCI(Cur(S)), func, nres, f = "vararg"))))
Enter(S, f, func, nres) ==
    IF Overflow(Cur(S)) THEN OverflowError(S)
    ELSE Do(IF f \in {"lua", "vararg"} THEN NewLuaFrame(S, f, func, nres)
            ELSE NewCFrame(S, f, func, nres), "run")
Precall(S, f, func, nres) ==
    Enter(Checked(S, IF f \in {"lua", "vararg"} THEN MaxStack ELSE MinStack), f, func, nres)

LuaDCall(S, f, func, nres) ==
    LET C == PushC([S EXCEPT !.L[S.cur].nCcalls = @ + 1], [k |-> "call", th |-> S.cur])
        n == Cur(C).nCcalls
    IN IF n = MaxCCalls THEN RunError(C)
       ELSE IF n >= MaxCCalls + ErrorCalls THEN Do(C, "throw")
       ELSE Precall(C, f, func, nres)

\* A C function returns its top n values, and luaD_precall moves them.
CReturn(S, n) == [Do(S, "return") EXCEPT !.ret = n]
CReturned(S) == [Do(With(PopC(S), Poscall(Cur(S), Top(Cur(S)) - S.ret)), "after") EXCEPT !.ret = 0]

Pcall(S, func, ef) ==
    LET t == Cur(S)
        P == PushC(S, [k |-> "pcall", th |-> S.cur, oldtop |-> func, nCcalls |-> t.nCcalls,
                       ci |-> Len(t.ci), errfunc |-> t.errfunc, jmp |-> t.jmp, ef |-> ef])
    IN LuaDCall(With(P, [t EXCEPT !.errfunc = ef, !.jmp = Len(P.cs)]), "lua", func, MULTRET)
\* luaD_pcall ends without an error.
PcallLeave(S, f) == With(PopC(S), [Cur(S) EXCEPT !.errfunc = f.errfunc, !.jmp = f.jmp])
\* What luaD_pcall does when an error came back to it.
PcallRecoverOpen(S, f) ==
    LET t == RestoreStackLimit([SetErrorObj(Cur(S), f.oldtop) EXCEPT !.nCcalls = f.nCcalls, !.ci = SubSeq(@, 1, f.ci)])
    IN PcallLeave(With(S, [t EXCEPT !.base = CI(t).base]), f)
PcallRecover(S, f) ==
    LET t == RestoreStackLimit([SetErrorObj(LuaFClose(Cur(S), f.oldtop), f.oldtop)
                                EXCEPT !.nCcalls = f.nCcalls, !.ci = SubSeq(@, 1, f.ci)])
    IN PcallLeave(With(S, [t EXCEPT !.base = CI(t).base]), f)
\* luaB_pcall and luaB_xpcall return the status and all results; the host drops them.
PcallDone(S) ==
    LET t == Cur(S)
    IN CASE TopC(S).f = "host" -> Do(With(S, SetTop(t, t.base)), "run")
         [] TopC(S).f = "xpcall" -> CReturn(S, Top(t) - t.base)
         [] OTHER -> CReturn(With(S, PutStatus(t, Top(t) - t.base)), Top(t) + 1 - t.base)

(* Coroutines. *)
\* The end of auxresume in the thread that resumed co: the values move there (lua_xmove).
ReceiveUnchecked(t, vals, ok) == [t EXCEPT !.stack = @ \o vals]
Receive(t, vals, ok) ==
    LET u == IF ok THEN CheckStackC(t, Len(vals)) ELSE t
    IN [u EXCEPT !.stack = @ \o vals]
\* coroutine.resume returns a status too, coroutine.wrap hands an error on.
EndResume(S, n, ok) ==
    CASE TopC(S).f = "resume" -> CReturn(With(S, PutStatus(Cur(S), n)), n + 1)
      [] TopC(S).f = "wrap" /\ ok -> CReturn(S, n)
      [] TopC(S).f = "wrap" /\ ~ ok -> Do(S, "error")
Resumed(S, co, ok) ==
    LET c == S.L[co]
        first == IF ok THEN c.base ELSE Len(c.stack)
        vals == SubSeq(c.stack, first, Len(c.stack))
    IN EndResume(IF co = S.cur THEN S
                 ELSE [S EXCEPT !.L[co] = SetTop(@, first), !.L[S.cur] = Receive(@, vals, ok)],
                 Len(vals), ok)
ResumeReturns(S, status, ok) ==
    LET f == TopC(S)
        t == [Cur(S) EXCEPT !.status = status, !.jmp = f.jmp]
    IN Resumed([PopC(With(S, t)) EXCEPT !.cur = f.from], S.cur, ok)

ResumeBodyOne(S) ==
    LET t == Cur(S)
        u == Poscall(t, Top(t) - 1)
    IN IF t.status # "yield" THEN Precall(S, "lua", Top(t) - 2, MULTRET)
       ELSE Do(PushC(With(S, [Continue(u) EXCEPT !.status = "ok"]), [k |-> "exec", th |-> S.cur, n |-> 1]), "run")
\* resume: precall of the body, or the end of the OP_CALL that yielded.
ResumeBody(S) ==
    LET t == Cur(S)
        u == Poscall(t, Top(t) - 1)
        v == IF CI(t).nres = MULTRET THEN u ELSE Continue(u)
    IN IF t.status # "yield" THEN Precall(S, "lua", Top(t) - 2, MULTRET)
       ELSE Do(PushC(With(S, [v EXCEPT !.status = "ok"]), [k |-> "exec", th |-> S.cur, n |-> Len(u.ci) - 1]), "run")

ResumeError(S, co) ==
    LET c == S.L[co] IN Resumed([S EXCEPT !.L[co] = Push(SetTop(c, CI(c).base), Value)], co, FALSE)

LuaResume(S, co) ==
    LET c == S.L[co]
        R == PushC(S, [k |-> "resume", th |-> co, from |-> S.cur, jmp |-> c.jmp])
    IN IF c.status # "yield" /\ (c.status # "ok" \/ Len(c.ci) > 1) THEN ResumeError(S, co)
       ELSE ResumeBody([R EXCEPT !.cur = co, !.L[co].jmp = Len(R.cs)])

\* auxresume with one argument.
AuxResume(S, co) ==
    LET c == CheckStackC(S.L[co], 1)
        C == [S EXCEPT !.L[co] = c]
    IN IF c.status = "ok" /\ Top(c) = c.base
       THEN EndResume([C EXCEPT !.L[S.cur] = Put(@, Value)], 1, FALSE)
       ELSE LuaResume(IF co = S.cur THEN C
                      ELSE [C EXCEPT !.L[co] = Put(c, Value), !.L[S.cur].stack = Front(@)], co)

LuaYieldAnywhere(S) ==
    LET r == {i \in DOMAIN S.cs : S.cs[i].k = "resume" /\ S.cs[i].th = S.cur}
    IN IF r = {} THEN RunError(S) ELSE ResumeReturns([S EXCEPT !.cs = SubSeq(@, 1, Max(r))], "yield", TRUE)
\* All arguments are yielded, so base stays.  Out of the C function and of
\* luaV_execute, back to lua_resume.
LuaYield(S) ==
    IF Cur(S).nCcalls > 0 THEN RunError(S)
    ELSE ResumeReturns(PopC(PopC(S)), "yield", TRUE)

StackInit == [status |-> "ok", base |-> 2, nCcalls |-> 0, errfunc |-> 0, jmp |-> 0, sizeci |-> BasicCI,
              stacksize |-> BasicStack + ExtraStack, open |-> {}, stack |-> <<Nil>>,
              ci |-> <<[func |-> 1, base |-> 2, top |-> 2 + MinStack, nres |-> 0, lua |-> FALSE]>>]
CoCreate(S, co) == CReturn(With([S EXCEPT !.L[co] = Put(StackInit, Value)], Put(Cur(S), Value)), 1)

-----------------------------------------------------------------------------
(* What C does next. *)

\* luaD_throw and what the frame that is jumped to does with the error; which error
\* it is (LUA_ERRRUN, LUA_ERRMEM, LUA_ERRERR) makes no difference but to the message.
LuaDThrow(S) ==
    LET j == Cur(S).jmp
        J == [S EXCEPT !.cs = SubSeq(@, 1, j)]
        t == Cur(S)
    IN IF j = 0 THEN [S EXCEPT !.cs = <<>>]    \* panic and exit
       ELSE IF S.cs[j].k = "pcall" THEN PcallDone(PcallRecover(J, S.cs[j]))
       ELSE ResumeReturns(With(J, [SetErrorObj(t, Top(t)) EXCEPT !.ci[Len(t.ci)].top = Top(t) + 1]), "err", FALSE)

\* luaG_errormsg: the handler is put below the error and called.
ErrorMsg(S) ==
    LET t == CheckStack(Cur(S), 1)
        u == [t EXCEPT !.stack = Front(@) \o <<Handler, Value>>]
    IN IF t.errfunc = 0 \/ t.stack[t.errfunc] # Handler THEN Do(S, "throw")
       ELSE LuaDCall(PushC(With(S, u), [k |-> "msg", th |-> S.cur]), "lua", Top(u) - 2, 1)

\* A call came back to the C frame on top.
AfterC(S) ==
    LET f == TopC(S)
        t == Cur(S)
    IN CASE f.k = "exec" -> Do(With(S, Continue(t)), "run")
         [] f.k = "call" -> With(PopC(S), [t EXCEPT !.nCcalls = @ - 1])
         [] f.k = "pcall" -> PcallDone(PcallLeave(S, f))
         [] f.k = "msg" -> Do(PopC(S), "throw")
         [] f.k = "c" -> Do(S, "run")

-----------------------------------------------------------------------------
State == [L |-> L, cur |-> cur, cs |-> cs, op |-> op, ret |-> ret]
Become(S) == L' = S.L /\ cur' = S.cur /\ cs' = S.cs /\ op' = S.op /\ ret' = S.ret
Top1 == Last(cs)
t0 == L[cur]
Created == {th \in Thread : L[th].status # "none"}
\* The coroutines that a C function may be called for.
Subjects(f) == CASE f = "create" -> Coroutines \ Created
                 [] f = "resume" -> Created \ {"main"}
                 [] f = "wrap" -> Created \ {"main", cur}
Room == Len(t0.ci) < MaxFrames /\ FoldSet(LAMBDA th, n : n + Len(L[th].ci), 0, Created) < MaxTotal
InLua == op = "run" /\ Top1.k = "exec"
InC(f) == op = "run" /\ Top1.k = "c" /\ Top1.f = f

\* The registers of a call: the function in the second one, and its arguments.
CallArgs(args) == With(State, [t0 EXCEPT !.stack = SubSeq(@, 1, t0.base) \o <<Value>> \o args])
Args == [pcall |-> {<<Value>>}, xpcall |-> {<<Value, Handler>>, <<Value, Nil>>}, error |-> {<<Value>>},
         yield |-> {<<Value>>, <<Value, Value, Value>>}, callback |-> {<<Value>>}, create |-> {<<Value>>},
         resume |-> {<<Value, Value>>}, wrap |-> {<<Value>>}]

Init ==
    /\ L = [th \in Thread |-> IF th = "main" THEN StackInit ELSE [StackInit EXCEPT !.status = "none"]]
    /\ cur = "main" /\ cs = <<[k |-> "c", th |-> "main", f |-> "host"]>> /\ op = "run" /\ ret = 0

\* The host runs a chunk with lua_pcall.
HostCall == /\ InC("host") /\ Room
            /\ Become(Pcall(With(State, Push(t0, Value)), Top(t0), 0))

(* luaV_execute. *)
\* OP_CALL of a Lua or a C function, with one result.
CallLua == InLua /\ Room /\ Become(Precall(CallArgs(<<Value>>), "lua", t0.base + 1, 1))
CallC(f) ==
    /\ InLua /\ Room /\ (f \in {"create", "resume", "wrap"} => Subjects(f) # {})
    /\ \E args \in Args[f] : Become(Precall(CallArgs(args), f, t0.base + 1, 1))
\* tryfuncTM: the called object becomes the first argument of its __call.
CallObject == InLua /\ Room /\ Become(Precall(CallArgs(<<Value, Value>>), "vararg", t0.base + 1, 1))
\* A metamethod: callTMres pushes it above the registers and calls it.
CallTM(f) ==
    LET t == CheckStack(t0, 3)
    IN /\ InLua /\ Room
       /\ Become(LuaDCall(With(State, [t EXCEPT !.stack = @ \o <<Value, Value, Value>>]), f, Top(t), 1))
TailCall ==
    LET S == CallArgs(<<Value>>)
        t == CheckStack(Cur(S), MaxStack)
        N == NewFrame(GrowCI(t), t0.base + 1, MULTRET, FALSE)
    IN /\ InLua /\ Room
       /\ Become(IF Overflow(t) THEN OverflowError(With(S, t)) ELSE With(S, SetLocal(MoveFrameDown(N))))
\* A closure captures the local of the function; one at a time is enough.
Capture == InLua /\ (\A th \in Created : L[th].open = {}) /\ Become(With(State, [t0 EXCEPT !.open = @ \union {t0.base}]))
\* OP_RETURN with one result.
Return ==
    LET t == Poscall(SetTop(LuaFClose(t0, t0.base), t0.base + 2), t0.base + 1)
        S == With(State, t)
    IN /\ InLua
       /\ Become(IF Top1.n > 1 THEN [With(S, Continue(t)) EXCEPT !.cs[Len(cs)].n = @ - 1]
                 ELSE IF cs[Len(cs) - 1].k = "resume" THEN ResumeReturns(PopC(S), "ok", TRUE)
                 ELSE Do(PopC(S), "after"))
Error == InLua /\ Become(RunError(State))
\* An allocation fails: the handler is not called (where there is none, Error does as much).
MemoryError == InLua /\ t0.errfunc # 0 /\ Become(Do(State, "throw"))

(* The C functions; "callback" stands for gsub with a function (add_value). *)
PcallBody == InC("pcall") /\ Become(Pcall(State, t0.base, 0))
XpcallBody ==
    LET t == [t0 EXCEPT !.stack[t0.base] = t0.stack[t0.base + 1], !.stack[t0.base + 1] = Value]
    IN InC("xpcall") /\ Become(Pcall(With(State, t), t0.base + 1, t0.base))
ErrorBody == InC("error") /\ Become(Do(State, "error"))
YieldBody == InC("yield") /\ Become(LuaYield(State))
CreateBody == InC("create") /\ Subjects("create") # {} /\ Become(CoCreate(State, CHOOSE co \in Subjects("create") : TRUE))
Resume(co) == InC("resume") /\ co \in Subjects("resume") /\ Become(AuxResume(State, co))
Wrap(co) == InC("wrap") /\ co \in Subjects("wrap") /\ Become(AuxResume(State, co))
\* The function is pushed, then room for the captures is asked for (push_captures).
\* The result is used at once.
Callback ==
    LET t == CheckStackC(Put(t0, Value), 1)
    IN InC("callback") /\ Room /\ Become(LuaDCall(With(State, Put(t, Value)), "lua", Top(t0), 0))
CallbackReturn == InC("callback") /\ Become(CReturn(State, 0))

(* The rest of a call, an error or a jump. *)
CReturns == op = "return" /\ Become(CReturned(State))
After == op = "after" /\ Become(AfterC(State))
Message == op = "error" /\ Become(ErrorMsg(State))
Throw == op = "throw" /\ Become(LuaDThrow(State))

Next ==
    \/ HostCall \/ CallLua \/ CallObject \/ TailCall \/ Capture \/ Return \/ Error \/ MemoryError
    \/ \E f \in DOMAIN Args : CallC(f)
    \/ \E f \in {"lua", "yield"} : CallTM(f)
    \/ PcallBody \/ XpcallBody \/ ErrorBody \/ YieldBody \/ CreateBody \/ Callback \/ CallbackReturn
    \/ \E co \in Coroutines : Resume(co) \/ Wrap(co)
    \/ CReturns \/ After \/ Message \/ Throw
Spec == Init /\ [][Next]_vars
-----------------------------------------------------------------------------
Frames(th, k) == {i \in DOMAIN cs : cs[i].th = th /\ cs[i].k = k}
Alive == {th \in Created : L[th].status # "err"}
Active == {th \in Thread : \E i \in DOMAIN cs : cs[i].th = th}

\* The functions that a frame of the C stack runs for its thread.
Runs(f) == CASE f.k = "exec" -> f.n [] f.k = "c" /\ f.f # "host" -> 1 [] OTHER -> 0
Running(th) == UNION {{i} \X (1..Runs(cs[i])) : i \in {j \in DOMAIN cs : cs[j].th = th}}

\* Whatever errors, yields and tail calls happen, the CallInfos of a thread are the
\* ones of the functions that the C stack is running for it: luaV_execute never
\* goes on in a frame that is not its own (ldo.c, lvm.c nexeccalls).
CallInfosInStep == \A th \in Active : Len(L[th].ci) = 1 + Cardinality(Running(th))

\* nCcalls, which limits the depth of the C stack and forbids a yield, is the
\* number of luaD_calls in progress, also after errors have skipped their returns,
\* and keeps to its limit and the room for errors above it.
CCallsInStep ==
    /\ \A th \in Alive : L[th].nCcalls = Cardinality(Frames(th, "call"))
    /\ \A th \in Created : L[th].nCcalls <= MaxCCalls + ErrorCalls

\* An error of the running thread is caught by the innermost setjmp of the C
\* stack, and handled by the handler of the innermost xpcall of the thread.
HandlersInStep ==
    /\ cs # <<>> /\ L[cur].jmp = Max({0} \union {i \in DOMAIN cs : cs[i].k \in {"pcall", "resume"}})
    /\ \A th \in Alive :
          L[th].errfunc = LET p == Frames(th, "pcall") IN IF p = {} THEN 0 ELSE cs[Max(p)].ef

\* All that lua_State keeps to describe the C stack is in step with it.
StacksInStep == CallInfosInStep /\ CCallsInStep /\ HandlersInStep

\* lua_assert( L->errfunc == 0 && L->nCcalls == 0 ) of lua_resume, and a C function
\* is what a suspended coroutine waits in.
SuspendedClean ==
    \A th \in Created : L[th].status = "yield" =>
        th \notin Active /\ L[th].errfunc = 0 /\ L[th].nCcalls = 0 /\ ~ CI(L[th]).lua

\* No call, return, error or resume overwrites a local of a function that has not
\* returned, and an open upvalue points to such a local: returns, tail calls and
\* caught errors close the others.
LocalsKept ==
    /\ \A th \in Alive : \A d \in DOMAIN L[th].ci :
          L[th].ci[d].lua => L[th].ci[d].base <= Len(L[th].stack) /\ L[th].stack[L[th].ci[d].base] = Local(d)
    /\ \A th \in Created : \A u \in L[th].open : \E d \in DOMAIN L[th].ci : L[th].ci[d].lua /\ L[th].ci[d].base = u

\* The asserts ci->top <= L->stack_last of luaD_precall and the collector: a function
\* has the stack it may use without asking, wherever it is called from.  And what C
\* functions push and receive never reaches the EXTRA_STACK, not even the status that
\* coroutine.resume adds to results that fill its frame.
StackFits ==
    \A th \in Created : /\ \A d \in DOMAIN L[th].ci : L[th].ci[d].top - 1 <= StackLast(L[th])
                        /\ Len(L[th].stack) <= StackLast(L[th])

=============================================================================
