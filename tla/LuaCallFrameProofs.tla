------------------------- MODULE LuaCallFrameProofs -------------------------
(***************************************************************************)
(* The C stack of a Lua state, the threads that run on it, and their stacks*)
(* of values: what the inductive invariant says of each, and the lemmas on *)
(* the operators that push, pop and cut them, for every limit of the code. *)
(***************************************************************************)
EXTENDS LuaCall, TLAPS, FiniteSetTheorems, SequenceTheorems

\* The types of the state.
Ops == {"run", "return", "after", "error", "throw"}
Statuses == {"none", "ok", "yield", "err"}
CallInfo == [func : Nat, base : Nat, top : Nat, nres : {0, 1, MULTRET}, lua : BOOLEAN]
ThreadT == [status : Statuses, base : Nat, nCcalls : Nat, errfunc : Nat, jmp : Nat, sizeci : Nat,
            stacksize : Nat, open : SUBSET Nat, stack : Seq(Int), ci : Seq(CallInfo)]
CFunctions == {"host", "pcall", "xpcall", "error", "yield", "callback", "create", "resume", "wrap"}
CFrame ==
    [k : {"exec"}, th : Thread, n : Nat \ {0}] \union [k : {"call", "msg"}, th : Thread]
    \union [k : {"c"}, th : Thread, f : CFunctions]
    \union [k : {"pcall"}, th : Thread, oldtop : Nat, nCcalls : Nat, ci : Nat, errfunc : Nat, jmp : Nat, ef : Nat]
    \union [k : {"resume"}, th : Thread, from : Thread, jmp : Nat]
StateT == [L : [Thread -> ThreadT], cur : Thread, cs : Seq(CFrame), op : Ops, ret : Nat]

-----------------------------------------------------------------------------
(* What the first i frames of a C stack C say of a thread. *)
FramesTo(C, th, k, i) == {j \in 1..i : C[j].th = th /\ C[j].k = k}
\* The luaD_calls, the functions that run, the CallInfos they have, and the setjmps.
Calls(C, th, i) == Cardinality(FramesTo(C, th, "call", i))
RunTo(C, th, i) == UNION {{j} \X (1..Runs(C[j])) : j \in {m \in 1..i : C[m].th = th}}
Infos(C, th, i) == 1 + Cardinality(RunTo(C, th, i))
Catches(C, th, i) == {j \in 1..i : C[j].th = th /\ C[j].k \in {"pcall", "resume"}}
\* The innermost setjmp of the thread, and the handler of its innermost luaD_pcall.
Catcher(C, th, i) == Max({0} \union Catches(C, th, i))
HandlerOf(C, th, i) == LET p == FramesTo(C, th, "pcall", i) IN IF p = {} THEN 0 ELSE C[Max(p)].ef

\* The frames of two C stacks up to m are the same.
SameTo(C, D, m) == /\ m \in 0..Len(C) /\ m \in 0..Len(D)
                   /\ \A j \in 1..m : D[j] = C[j]

\* Every frame is a record with a thread and a kind, and runs so many functions.
LEMMA FrameFacts ==
    ASSUME NEW f \in CFrame
    PROVE  /\ f.th \in Thread /\ f.k \in {"exec", "call", "msg", "c", "pcall", "resume"} /\ Runs(f) \in Nat
           /\ f.k = "exec" => f.n \in Nat \ {0} /\ Runs(f) = f.n
           /\ f.k = "c" => f.f \in CFunctions /\ Runs(f) = IF f.f = "host" THEN 0 ELSE 1
           /\ f.k \notin {"exec", "c"} => Runs(f) = 0
           /\ f.k = "pcall" => f.oldtop \in Nat /\ f.nCcalls \in Nat /\ f.ci \in Nat /\ f.errfunc \in Nat /\ f.jmp \in Nat /\ f.ef \in Nat
           /\ f.k = "resume" => f.from \in Thread /\ f.jmp \in Nat
  BY DEF CFrame, Runs

\* The functions of one frame, counted.
LEMMA CardSlice ==
    ASSUME NEW j, NEW n \in Nat
    PROVE  IsFiniteSet({j} \X (1..n)) /\ Cardinality({j} \X (1..n)) = n
<1>1. IsFiniteSet({j}) /\ Cardinality({j}) = 1  BY FS_Singleton
<1>2. IsFiniteSet(1..n) /\ Cardinality(1..n) = n
  <2>1. 1 \in Int /\ n \in Int  OBVIOUS
  <2> QED  BY <2>1, FS_Interval
<1> DEFINE A == {j}
           B == 1..n
<1> HIDE DEF A, B
<1>3. IsFiniteSet(A) /\ Cardinality(A) = 1 /\ IsFiniteSet(B) /\ Cardinality(B) = n  BY <1>1, <1>2 DEF A, B
<1>4. IsFiniteSet(A \X B) /\ Cardinality(A \X B) = Cardinality(A) * Cardinality(B)  BY <1>3, FS_Product
<1>5. Cardinality(A) * Cardinality(B) = n  BY <1>3
<1> QED  BY <1>4, <1>5 DEF A, B

\* The functions that run are finitely many.
LEMMA RunToFinite ==
    ASSUME NEW C \in Seq(CFrame), NEW th, NEW i \in 0..Len(C)
    PROVE  IsFiniteSet(RunTo(C, th, i))
<1> DEFINE J == {m \in 1..i : C[m].th = th}
           F == [j \in J |-> {j} \X (1..Runs(C[j]))]
           T == {{j} \X (1..Runs(C[j])) : j \in J}
<1>1. IsFiniteSet(J)
  <2>1. IsFiniteSet(1..i)  BY FS_Interval
  <2>2. J \in SUBSET (1..i)  OBVIOUS
  <2> QED  BY <2>1, <2>2, FS_Subset
<1>2. F \in Surjection(J, T)  BY DEF Surjection
<1>3. IsFiniteSet(T)  BY <1>1, <1>2, FS_Surjection
<1>4. \A X \in T : IsFiniteSet(X)
  <2> SUFFICES ASSUME NEW j \in J PROVE IsFiniteSet({j} \X (1..Runs(C[j])))  OBVIOUS
  <2>1. Runs(C[j]) \in Nat  BY FrameFacts, ElementOfSeq
  <2> QED  BY <2>1, CardSlice
<1>5. RunTo(C, th, i) = UNION T  BY DEF RunTo
<1> QED  BY <1>3, <1>4, <1>5, FS_UNION

\* So are the frames of a kind.
LEMMA FramesFinite ==
    ASSUME NEW C, NEW th, NEW k, NEW i \in Nat
    PROVE  IsFiniteSet(FramesTo(C, th, k, i))
<1>1. IsFiniteSet(1..i)  BY FS_Interval
<1>2. FramesTo(C, th, k, i) \in SUBSET (1..i)  BY DEF FramesTo
<1> QED  BY <1>1, <1>2, FS_Subset

\* The maximum of a set with a greatest element.
LEMMA MaxIs ==
    ASSUME NEW S, S \subseteq Int, NEW m \in S, \A x \in S : x <= m
    PROVE  Max(S) = m
<1>1. m \in S /\ \A y \in S : m >= y  OBVIOUS
<1>2. PICK k : k = Max(S)  OBVIOUS
<1>3. k \in S /\ \A y \in S : k >= y  BY <1>1, <1>2 DEF Max
<1>4. k >= m /\ m >= k /\ k \in Int /\ m \in Int  BY <1>1, <1>3
<1>5. k = m  BY <1>4
<1> QED  BY <1>2, <1>5

\* A set of numbers up to n has its maximum.
LEMMA MaxInSet ==
    ASSUME NEW n \in Nat, NEW S, S \subseteq 1..n, S # {}
    PROVE  Max(S) \in S /\ \A x \in S : x <= Max(S)
<1> DEFINE R == {ss \in Nat \X Nat : ss[1] < ss[2]}
           T == {n - x : x \in S}
<1>1. IsWellFoundedOn(R, Nat)  BY NatLessThanWellFounded DEF OpToRel
<1>2. T \subseteq Nat /\ T # {}
  <2>1. \A x \in S : n - x \in Nat  OBVIOUS
  <2>2. PICK x \in S : TRUE  OBVIOUS
  <2>3. n - x \in T  OBVIOUS
  <2> QED  BY <2>1, <2>3
<1>3. PICK y \in T : \A z \in T : <<z, y>> \notin R
  <2> HIDE DEF R, T
  <2> QED  BY <1>1, <1>2, WFMin
<1>4. PICK m \in S : y = n - m  OBVIOUS
<1>5. \A x \in S : x <= m
  <2> SUFFICES ASSUME NEW x \in S PROVE x <= m  OBVIOUS
  <2>1. n - x \in T /\ n - x \in Nat /\ y \in Nat  OBVIOUS
  <2>2. ~ (n - x < y)  BY <1>3, <2>1
  <2> QED  BY <2>2, <1>4
<1>6. Max(S) = m
  <2>1. S \subseteq Int  OBVIOUS
  <2> QED  BY <2>1, <1>5, MaxIs
<1> QED  BY <1>5, <1>6

\* The counts are of the frames up to i.
LEMMA CountSame ==
    ASSUME NEW C \in Seq(CFrame), NEW D \in Seq(CFrame), NEW m, SameTo(C, D, m), NEW th, NEW i \in 0..m
    PROVE  /\ Calls(D, th, i) = Calls(C, th, i) /\ Infos(D, th, i) = Infos(C, th, i)
           /\ Catcher(D, th, i) = Catcher(C, th, i) /\ HandlerOf(D, th, i) = HandlerOf(C, th, i)
<1>1. \A j \in 1..i : D[j] = C[j]  BY DEF SameTo
<1>2. \A k : FramesTo(D, th, k, i) = FramesTo(C, th, k, i)  BY <1>1 DEF FramesTo
<1>3. RunTo(D, th, i) = RunTo(C, th, i)
  <2>1. {n \in 1..i : D[n].th = th} = {n \in 1..i : C[n].th = th}  BY <1>1
  <2>2. \A j \in {n \in 1..i : C[n].th = th} : D[j] = C[j]  BY <1>1
  <2> QED  BY <2>1, <2>2 DEF RunTo
<1>4. Catches(D, th, i) = Catches(C, th, i)  BY <1>1 DEF Catches
<1>5. Calls(D, th, i) = Calls(C, th, i)  BY <1>2 DEF Calls
<1>6. Infos(D, th, i) = Infos(C, th, i)  BY <1>3 DEF Infos
<1>7. Catcher(D, th, i) = Catcher(C, th, i)  BY <1>4 DEF Catcher
<1>8. HandlerOf(D, th, i) = HandlerOf(C, th, i)
  <2> DEFINE p == FramesTo(C, th, "pcall", i)
  <2>1. CASE p = {}  BY <2>1, <1>2 DEF HandlerOf
  <2>2. CASE p # {}
    <3>1. PICK M : M = Max(p)  OBVIOUS
    <3>2. M \in p
      <4>1. p \subseteq 1..i  BY DEF FramesTo
      <4> QED  BY <4>1, <2>2, <3>1, MaxInSet
    <3>3. M \in 1..i  BY <3>2 DEF FramesTo
    <3>4. HandlerOf(D, th, i) = D[M].ef /\ HandlerOf(C, th, i) = C[M].ef
      <4> HIDE DEF p
      <4>1. FramesTo(D, th, "pcall", i) = p /\ FramesTo(C, th, "pcall", i) = p  BY <1>2 DEF p
      <4> QED  BY <4>1, <2>2, <3>1 DEF HandlerOf
    <3> QED  BY <1>1, <3>3, <3>4
  <2> QED  BY <2>1, <2>2
<1> QED  BY <1>5, <1>6, <1>7, <1>8

\* The counts are numbers.
LEMMA CountTypes ==
    ASSUME NEW C \in Seq(CFrame), NEW th, NEW i \in 0..Len(C)
    PROVE  Calls(C, th, i) \in Nat /\ Infos(C, th, i) \in Nat /\ Infos(C, th, i) >= 1
<1>1. i \in Nat  OBVIOUS
<1>2. IsFiniteSet(FramesTo(C, th, "call", i))  BY <1>1, FramesFinite
<1>3. Calls(C, th, i) \in Nat  BY <1>2, FS_CardinalityType DEF Calls
<1>4. Cardinality(RunTo(C, th, i)) \in Nat  BY RunToFinite, FS_CardinalityType
<1> QED  BY <1>3, <1>4 DEF Infos

\* A frame of another thread adds nothing, a frame of the thread what it stands for.
LEMMA CountStep ==
    ASSUME NEW C \in Seq(CFrame), NEW th, NEW i \in 1..Len(C)
    PROVE  /\ Calls(C, th, i) = Calls(C, th, i - 1) + (IF C[i].th = th /\ C[i].k = "call" THEN 1 ELSE 0)
           /\ Infos(C, th, i) = Infos(C, th, i - 1) + (IF C[i].th = th THEN Runs(C[i]) ELSE 0)
           /\ Catcher(C, th, i) = IF C[i].th = th /\ C[i].k \in {"pcall", "resume"} THEN i ELSE Catcher(C, th, i - 1)
           /\ HandlerOf(C, th, i) = IF C[i].th = th /\ C[i].k = "pcall" THEN C[i].ef ELSE HandlerOf(C, th, i - 1)
<1>0. i - 1 \in 0..Len(C) /\ i - 1 \in Nat /\ i \in 0..Len(C)  OBVIOUS
<1>1. \A k : FramesTo(C, th, k, i) = IF C[i].th = th /\ C[i].k = k THEN FramesTo(C, th, k, i - 1) \union {i}
                                     ELSE FramesTo(C, th, k, i - 1)
  BY DEF FramesTo
<1>2. Calls(C, th, i) = Calls(C, th, i - 1) + (IF C[i].th = th /\ C[i].k = "call" THEN 1 ELSE 0)
  <2> DEFINE A == FramesTo(C, th, "call", i - 1)
  <2>1. IsFiniteSet(A) /\ Cardinality(A) \in Nat  BY <1>0, FramesFinite, FS_CardinalityType
  <2>2. i \notin A  BY DEF FramesTo
  <2>3. Cardinality(A \union {i}) = Cardinality(A) + 1
    <3> HIDE DEF A
    <3> QED  BY <2>1, <2>2, FS_AddElement
  <2>4. FramesTo(C, th, "call", i) = IF C[i].th = th /\ C[i].k = "call" THEN A \union {i} ELSE A  BY <1>1
  <2>5. Calls(C, th, i - 1) = Cardinality(A)  BY DEF Calls
  <2>6. Calls(C, th, i) = Cardinality(FramesTo(C, th, "call", i))  BY DEF Calls
  <2> HIDE DEF A
  <2>7. CASE C[i].th = th /\ C[i].k = "call"  BY <2>1, <2>3, <2>4, <2>5, <2>6, <2>7
  <2>8. CASE ~ (C[i].th = th /\ C[i].k = "call")
    <3>1. Calls(C, th, i) = Cardinality(A)  BY <2>4, <2>6, <2>8
    <3> QED  BY <3>1, <2>1, <2>5, <2>8
  <2> QED  BY <2>7, <2>8
<1>3. Infos(C, th, i) = Infos(C, th, i - 1) + (IF C[i].th = th THEN Runs(C[i]) ELSE 0)
  <2> DEFINE A == RunTo(C, th, i - 1)
             B == {i} \X (1..Runs(C[i]))
  <2>1. Runs(C[i]) \in Nat  BY FrameFacts, ElementOfSeq
  <2>2. IsFiniteSet(A) /\ Cardinality(A) \in Nat  BY <1>0, RunToFinite, FS_CardinalityType
  <2>3. IsFiniteSet(B) /\ Cardinality(B) = Runs(C[i])  BY <2>1, CardSlice
  <2>4. A \cap B = {}  BY DEF RunTo
  <2>5. CASE C[i].th = th
    <3>1. {n \in 1..i : C[n].th = th} = {n \in 1..(i - 1) : C[n].th = th} \union {i}  BY <2>5
    <3>2. RunTo(C, th, i) = A \union B  BY <3>1 DEF RunTo
    <3>3. Cardinality(A \union B) = Cardinality(A) + Cardinality(B) - Cardinality(A \cap B)
      <4> HIDE DEF A, B
      <4> QED  BY <2>2, <2>3, FS_Union
    <3>4. Cardinality(A \cap B) = 0  BY <2>4, FS_EmptySet
    <3> QED  BY <3>2, <3>3, <3>4, <2>1, <2>2, <2>3, <2>5 DEF Infos
  <2>6. CASE C[i].th # th
    <3>1. {n \in 1..i : C[n].th = th} = {n \in 1..(i - 1) : C[n].th = th}  BY <2>6
    <3>2. RunTo(C, th, i) = A  BY <3>1 DEF RunTo
    <3> QED  BY <3>2, <2>2, <2>6 DEF Infos
  <2> QED  BY <2>5, <2>6
<1>4. Catcher(C, th, i) = IF C[i].th = th /\ C[i].k \in {"pcall", "resume"} THEN i ELSE Catcher(C, th, i - 1)
  <2>1. CASE C[i].th = th /\ C[i].k \in {"pcall", "resume"}
    <3> DEFINE S == {0} \union Catches(C, th, i)
    <3>1. S \subseteq Int /\ i \in S /\ \A x \in S : x <= i  BY <2>1 DEF Catches
    <3>2. Max(S) = i
      <4> HIDE DEF S
      <4> QED  BY <3>1, MaxIs
    <3> QED  BY <3>2, <2>1 DEF Catcher
  <2>2. CASE ~ (C[i].th = th /\ C[i].k \in {"pcall", "resume"})
    <3>1. Catches(C, th, i) = Catches(C, th, i - 1)  BY <2>2 DEF Catches
    <3> QED  BY <3>1, <2>2 DEF Catcher
  <2> QED  BY <2>1, <2>2
<1>5. HandlerOf(C, th, i) = IF C[i].th = th /\ C[i].k = "pcall" THEN C[i].ef ELSE HandlerOf(C, th, i - 1)
  <2>1. CASE C[i].th = th /\ C[i].k = "pcall"
    <3> DEFINE S == FramesTo(C, th, "pcall", i)
    <3>1. S \subseteq Int /\ i \in S /\ \A x \in S : x <= i  BY <2>1 DEF FramesTo
    <3>2. Max(S) = i /\ S # {}
      <4> HIDE DEF S
      <4> QED  BY <3>1, MaxIs
    <3>3. HandlerOf(C, th, i) = C[Max(S)].ef  BY <3>2 DEF HandlerOf
    <3> QED  BY <3>2, <3>3, <2>1
  <2>2. CASE ~ (C[i].th = th /\ C[i].k = "pcall")
    <3>1. FramesTo(C, th, "pcall", i) = FramesTo(C, th, "pcall", i - 1)  BY <1>1, <2>2
    <3> QED  BY <3>1, <2>2 DEF HandlerOf
  <2> QED  BY <2>1, <2>2
<1> QED  BY <1>2, <1>3, <1>4, <1>5

\* Where the thread has no frames, the counts stay.
LEMMA CountStill ==
    ASSUME NEW C, NEW th, NEW i \in Nat, NEW j \in Nat, i <= j,
           \A m \in (i + 1)..j : C[m].th # th
    PROVE  /\ Calls(C, th, j) = Calls(C, th, i) /\ Infos(C, th, j) = Infos(C, th, i)
           /\ Catcher(C, th, j) = Catcher(C, th, i) /\ HandlerOf(C, th, j) = HandlerOf(C, th, i)
<1>1. \A m \in 1..j : C[m].th = th => m \in 1..i  OBVIOUS
<1>2. \A m \in 1..i : m \in 1..j  OBVIOUS
<1>3. \A k : FramesTo(C, th, k, j) = FramesTo(C, th, k, i)  BY <1>1, <1>2 DEF FramesTo
<1>4. {m \in 1..j : C[m].th = th} = {m \in 1..i : C[m].th = th}  BY <1>1, <1>2
<1>5. RunTo(C, th, j) = RunTo(C, th, i)  BY <1>4 DEF RunTo
<1>6. Catches(C, th, j) = Catches(C, th, i)  BY <1>1, <1>2 DEF Catches
<1> QED  BY <1>3, <1>5, <1>6 DEF Calls, Infos, Catcher, HandlerOf

\* At the bottom nothing is counted but the base of the thread.
LEMMA CountNone ==
    ASSUME NEW C, NEW th
    PROVE  Calls(C, th, 0) = 0 /\ Infos(C, th, 0) = 1 /\ Catcher(C, th, 0) = 0 /\ HandlerOf(C, th, 0) = 0
<1>1. \A k : FramesTo(C, th, k, 0) = {}  BY DEF FramesTo
<1>2. RunTo(C, th, 0) = {}  BY DEF RunTo
<1>3. Cardinality({}) = 0  BY FS_EmptySet
<1>4. Catches(C, th, 0) = {}  BY DEF Catches
<1>5. Max({0} \union {}) = 0
  <2> DEFINE S == {0} \union {}
  <2>1. S \subseteq Int /\ 0 \in S /\ \A x \in S : x <= 0  OBVIOUS
  <2> HIDE DEF S
  <2>2. Max(S) = 0  BY <2>1, MaxIs
  <2> QED  BY <2>2 DEF S
<1>6. Calls(C, th, 0) = 0  BY <1>1, <1>3 DEF Calls
<1>7. Infos(C, th, 0) = 1  BY <1>2, <1>3 DEF Infos
<1>8. Catcher(C, th, 0) = 0  BY <1>4, <1>5 DEF Catcher
<1>9. HandlerOf(C, th, 0) = 0  BY <1>1 DEF HandlerOf
<1> QED  BY <1>6, <1>7, <1>8, <1>9

\* More frames, more functions.
LEMMA CountGrows ==
    ASSUME NEW C \in Seq(CFrame), NEW th, NEW i \in 0..Len(C), NEW j \in 0..Len(C), i <= j
    PROVE  Infos(C, th, i) <= Infos(C, th, j) /\ Calls(C, th, i) <= Calls(C, th, j)
<1>1. IsFiniteSet(RunTo(C, th, j)) /\ IsFiniteSet(FramesTo(C, th, "call", j))  BY RunToFinite, FramesFinite
<1>2. RunTo(C, th, i) \in SUBSET RunTo(C, th, j)
  <2>1. {m \in 1..i : C[m].th = th} \subseteq {m \in 1..j : C[m].th = th}  OBVIOUS
  <2> QED  BY <2>1 DEF RunTo
<1>3. FramesTo(C, th, "call", i) \in SUBSET FramesTo(C, th, "call", j)  BY DEF FramesTo
<1>4. Cardinality(RunTo(C, th, i)) <= Cardinality(RunTo(C, th, j))  BY <1>1, <1>2, FS_Subset
<1>5. Calls(C, th, i) <= Calls(C, th, j)  BY <1>1, <1>3, FS_Subset DEF Calls
<1>6. Infos(C, th, i) \in Nat /\ Infos(C, th, j) \in Nat  BY CountTypes
<1>7. Cardinality(RunTo(C, th, i)) \in Nat /\ Cardinality(RunTo(C, th, j)) \in Nat  BY RunToFinite, FS_CardinalityType
<1> QED  BY <1>4, <1>5, <1>7 DEF Infos

\* The setjmp that catches is the innermost one.
LEMMA CatcherIs ==
    ASSUME NEW C, NEW th, NEW i \in Nat
    PROVE  /\ Catcher(C, th, i) \in 0..i
           /\ Catcher(C, th, i) # 0 => Catcher(C, th, i) \in Catches(C, th, i)
           /\ \A m \in Catches(C, th, i) : m <= Catcher(C, th, i)
<1> DEFINE K == Catches(C, th, i)
<1>1. K \subseteq 1..i  BY DEF Catches
<1>2. CASE K = {}
  <2>1. Max({0} \union {}) = 0
    <3> DEFINE S == {0} \union {}
    <3>1. S \subseteq Int /\ 0 \in S /\ \A x \in S : x <= 0  OBVIOUS
    <3> HIDE DEF S
    <3>2. Max(S) = 0  BY <3>1, MaxIs
    <3> QED  BY <3>2 DEF S
  <2> QED  BY <2>1, <1>2 DEF Catcher
<1>3. CASE K # {}
  <2>1. PICK m : m = Max(K)  OBVIOUS
  <2>2. m \in K /\ \A x \in K : x <= m
    <3> HIDE DEF K
    <3> QED  BY <1>1, <1>3, <2>1, MaxInSet
  <2>3. ({0} \union K) \subseteq Int /\ m \in {0} \union K /\ \A x \in {0} \union K : x <= m  BY <1>1, <2>2
  <2>4. Max({0} \union K) = m
    <3> HIDE DEF K
    <3> QED  BY <2>3, MaxIs
  <2>5. Catcher(C, th, i) = m  BY <2>4 DEF Catcher
  <2> QED  BY <1>1, <2>2, <2>5
<1> QED  BY <1>2, <1>3

-----------------------------------------------------------------------------
(* The shape of the C stack *)

\* The host program, at the bottom.
Host == [k |-> "c", th |-> "main", f |-> "host"]

\* What a frame f may be above of: b calls it.
CallsFrame(b, f) ==
    /\ f.k = "resume" => b.k = "c" /\ b.f \in {"resume", "wrap"} /\ f.from = b.th
    /\ f.k # "resume" => f.th = b.th
    /\ f.k = "exec" => b.k \in {"call", "resume"}
    /\ f.k = "call" => b.k \in {"pcall", "exec", "msg"} \/ (b.k = "c" /\ b.f = "callback")
    /\ f.k = "pcall" => b.k = "c" /\ b.f \in {"host", "pcall", "xpcall"}
    /\ f.k = "c" => f.f # "host" /\ b.k \in {"exec", "call"}
    /\ f.k = "msg" => b.k \in {"exec", "call", "resume"} \/ (b.k = "c" /\ b.f # "host")

\* The host is at the bottom; a thread comes in with the setjmp of its resume,
\* below which it has no frames.
Shape(C) ==
    /\ Len(C) >= 1 /\ C[1] = Host
    /\ \A i \in 2..Len(C) : CallsFrame(C[i - 1], C[i])
    /\ \A i, j \in 1..Len(C) : i < j /\ C[i].th # C[j].th =>
          \E m \in (i + 1)..j : C[m].k = "resume" /\ C[m].th = C[j].th
    /\ \A i, j \in 1..Len(C) : i < j /\ C[j].k = "resume" => C[i].th # C[j].th

\* A frame is pushed, for the thread on top or for a new one.
LEMMA ShapePush ==
    ASSUME NEW C \in Seq(CFrame), NEW f \in CFrame, Shape(C), CallsFrame(C[Len(C)], f),
           f.k = "resume" => \A i \in 1..Len(C) : C[i].th # f.th
    PROVE  Shape(Append(C, f))
<1> DEFINE n == Len(C)
           D == Append(C, f)
<1>1. n \in Nat /\ n >= 1 /\ Len(D) = n + 1 /\ D[n + 1] = f /\ \A i \in 1..n : D[i] = C[i]
  BY AppendProperties DEF Shape
<1> HIDE DEF D
<1>2. D[1] = Host  BY <1>1 DEF Shape
<1>3. ASSUME NEW i \in 2..(n + 1) PROVE CallsFrame(D[i - 1], D[i])
  <2>1. CASE i = n + 1  BY <2>1, <1>1
  <2>2. CASE i # n + 1
    <3>1. i \in 2..n /\ i \in 1..n /\ i - 1 \in 1..n  BY <2>2, <1>1
    <3> QED  BY <3>1, <1>1 DEF Shape
  <2> QED  BY <2>1, <2>2
<1>4. ASSUME NEW i \in 1..(n + 1), NEW j \in 1..(n + 1), i < j, D[i].th # D[j].th
      PROVE  \E m \in (i + 1)..j : D[m].k = "resume" /\ D[m].th = D[j].th
  <2>1. CASE j \in 1..n
    <3>1. i \in 1..n /\ D[i] = C[i] /\ D[j] = C[j]  BY <2>1, <1>1, <1>4
    <3>2. PICK m \in (i + 1)..j : C[m].k = "resume" /\ C[m].th = C[j].th  BY <3>1, <2>1, <1>4 DEF Shape
    <3>3. D[m] = C[m]  BY <3>1, <2>1, <1>1
    <3> QED  BY <3>1, <3>2, <3>3
  <2>2. CASE j = n + 1 /\ f.k = "resume"
    <3>1. j \in (i + 1)..j  BY <1>4
    <3> QED  BY <3>1, <2>2, <1>1
  <2>3. CASE j = n + 1 /\ f.k # "resume"
    <3>1. f.th = C[n].th  BY <2>3 DEF CallsFrame
    <3>2. i \in 1..n /\ n \in 1..n /\ D[i] = C[i] /\ D[j] = f  BY <2>3, <1>1, <1>4
    <3>3. i < n /\ C[i].th # C[n].th  BY <3>1, <3>2, <1>4
    <3>4. PICK m \in (i + 1)..n : C[m].k = "resume" /\ C[m].th = C[n].th  BY <3>2, <3>3 DEF Shape
    <3>5. m \in (i + 1)..j /\ D[m] = C[m]  BY <3>2, <2>3, <1>1
    <3> QED  BY <3>1, <3>2, <3>4, <3>5
  <2> QED  BY <2>1, <2>2, <2>3, <1>1
<1>5. ASSUME NEW i \in 1..(n + 1), NEW j \in 1..(n + 1), i < j, D[j].k = "resume" PROVE D[i].th # D[j].th
  <2>1. i \in 1..n /\ D[i] = C[i]  BY <1>1, <1>5
  <2>2. CASE j \in 1..n
    <3>1. \A a, b \in 1..n : a < b /\ C[b].k = "resume" => C[a].th # C[b].th  BY DEF Shape
    <3>2. D[j] = C[j] /\ C[j].k = "resume"  BY <2>2, <1>1, <1>5
    <3> HIDE DEF n
    <3> QED  BY <3>1, <3>2, <2>1, <2>2, <1>5
  <2>3. CASE j = n + 1  BY <2>1, <2>3, <1>1, <1>5
  <2> QED  BY <2>2, <2>3, <1>1
<1>6. Len(D) >= 1 /\ Len(D) = n + 1  BY <1>1
<1> HIDE DEF n
<1>7. Shape(D)
  <2>1. \A i \in 2..Len(D) : CallsFrame(D[i - 1], D[i])  BY <1>3, <1>6
  <2>2. \A i, j \in 1..Len(D) : i < j /\ D[i].th # D[j].th =>
           \E m \in (i + 1)..j : D[m].k = "resume" /\ D[m].th = D[j].th
    BY <1>4, <1>6
  <2>3. \A i, j \in 1..Len(D) : i < j /\ D[j].k = "resume" => D[i].th # D[j].th  BY <1>5, <1>6
  <2> QED  BY <1>2, <1>6, <2>1, <2>2, <2>3 DEF Shape
<1> QED  BY <1>7 DEF D

\* The stack is cut.
LEMMA ShapePrefix ==
    ASSUME NEW C \in Seq(CFrame), Shape(C), NEW D \in Seq(CFrame), NEW m \in 1..Len(C), SameTo(C, D, m), Len(D) = m
    PROVE  Shape(D)
<1>1. \A i \in 1..m : D[i] = C[i] /\ i \in 1..Len(C)  BY DEF SameTo
<1>2. Len(D) >= 1 /\ D[1] = Host  BY <1>1 DEF Shape
<1>3. \A i \in 2..m : CallsFrame(D[i - 1], D[i])
  <2> SUFFICES ASSUME NEW i \in 2..m PROVE CallsFrame(D[i - 1], D[i])  OBVIOUS
  <2>1. i \in 1..m /\ i - 1 \in 1..m /\ i \in 2..Len(C)  OBVIOUS
  <2> QED  BY <2>1, <1>1 DEF Shape
<1>4. \A i, j \in 1..m : i < j /\ D[i].th # D[j].th =>
         \E k \in (i + 1)..j : D[k].k = "resume" /\ D[k].th = D[j].th
  <2> SUFFICES ASSUME NEW i \in 1..m, NEW j \in 1..m, i < j, D[i].th # D[j].th
               PROVE  \E k \in (i + 1)..j : D[k].k = "resume" /\ D[k].th = D[j].th
    OBVIOUS
  <2>1. D[i] = C[i] /\ D[j] = C[j] /\ i \in 1..Len(C) /\ j \in 1..Len(C)  BY <1>1
  <2>2. PICK k \in (i + 1)..j : C[k].k = "resume" /\ C[k].th = C[j].th  BY <2>1 DEF Shape
  <2>3. D[k] = C[k]  BY <1>1
  <2> QED  BY <2>1, <2>2, <2>3
<1>5. \A i, j \in 1..m : i < j /\ D[j].k = "resume" => D[i].th # D[j].th
  <2> SUFFICES ASSUME NEW i \in 1..m, NEW j \in 1..m, i < j, D[j].k = "resume" PROVE D[i].th # D[j].th  OBVIOUS
  <2>1. D[i] = C[i] /\ D[j] = C[j] /\ i \in 1..Len(C) /\ j \in 1..Len(C)  BY <1>1
  <2> QED  BY <2>1 DEF Shape
<1> QED  BY <1>2, <1>3, <1>4, <1>5 DEF Shape

\* luaV_execute on top runs more functions, or fewer.
LEMMA ShapeTop ==
    ASSUME NEW C \in Seq(CFrame), Shape(C), NEW D \in Seq(CFrame), Len(D) = Len(C), SameTo(C, D, Len(C) - 1),
           C[Len(C)].k = "exec", D[Len(C)].k = "exec", D[Len(C)].th = C[Len(C)].th
    PROVE  Shape(D)
<1> DEFINE n == Len(C)
<1>0. n \in Nat /\ n >= 1 /\ n # 1  BY DEF Shape, Host
<1>1. \A i \in 1..n : i # n => D[i] = C[i]  BY <1>0 DEF SameTo
<1>2. \A i \in 1..n : D[i].th = C[i].th /\ D[i].k = C[i].k  BY <1>1
<1>3. D[1] = Host  BY <1>0, <1>1 DEF Shape
<1>4. \A i \in 2..n : CallsFrame(D[i - 1], D[i])
  <2> SUFFICES ASSUME NEW i \in 2..n PROVE CallsFrame(D[i - 1], D[i])  OBVIOUS
  <2>1. i \in 1..n /\ i - 1 \in 1..n /\ i - 1 # n /\ CallsFrame(C[i - 1], C[i])  BY <1>0 DEF Shape
  <2>2. D[i - 1] = C[i - 1]  BY <2>1, <1>1
  <2>3. CASE i # n  BY <2>1, <2>2, <2>3, <1>1
  <2>4. CASE i = n  BY <2>1, <2>2, <2>4 DEF CallsFrame
  <2> QED  BY <2>3, <2>4
<1>5. \A i, j \in 1..n : i < j /\ D[i].th # D[j].th =>
         \E k \in (i + 1)..j : D[k].k = "resume" /\ D[k].th = D[j].th
  <2> SUFFICES ASSUME NEW i \in 1..n, NEW j \in 1..n, i < j, D[i].th # D[j].th
               PROVE  \E k \in (i + 1)..j : D[k].k = "resume" /\ D[k].th = D[j].th
    OBVIOUS
  <2>1. C[i].th # C[j].th  BY <1>2
  <2>2. PICK k \in (i + 1)..j : C[k].k = "resume" /\ C[k].th = C[j].th  BY <2>1 DEF Shape
  <2>3. k \in 1..n  OBVIOUS
  <2> QED  BY <2>2, <2>3, <1>2
<1>6. \A i, j \in 1..n : i < j /\ D[j].k = "resume" => D[i].th # D[j].th
  <2> SUFFICES ASSUME NEW i \in 1..n, NEW j \in 1..n, i < j, D[j].k = "resume" PROVE D[i].th # D[j].th  OBVIOUS
  <2>1. D[i].th = C[i].th /\ D[j].th = C[j].th /\ C[j].k = "resume"  BY <1>2
  <2> QED  BY <2>1 DEF Shape
<1> QED  BY <1>0, <1>3, <1>4, <1>5, <1>6 DEF Shape

\* The thread that resumed another one has no frames above.
LEMMA WaiterBelow ==
    ASSUME NEW C \in Seq(CFrame), Shape(C), NEW i \in 1..Len(C), C[i].k = "resume"
    PROVE  /\ i >= 2 /\ C[i - 1].k = "c" /\ C[i - 1].f \in {"resume", "wrap"} /\ C[i - 1].th = C[i].from
           /\ \A m \in i..Len(C) : C[m].th # C[i].from
           /\ \A m \in 1..(i - 1) : C[m].th # C[i].th
<1>1. i # 1  BY DEF Shape, Host
<1>2. i \in 2..Len(C) /\ i - 1 \in 1..Len(C)  BY <1>1
<1>3. CallsFrame(C[i - 1], C[i])  BY <1>2 DEF Shape
<1>4. C[i - 1].k = "c" /\ C[i - 1].f \in {"resume", "wrap"} /\ C[i - 1].th = C[i].from  BY <1>3 DEF CallsFrame
<1>5. \A m \in 1..(i - 1) : C[m].th # C[i].th
  <2>1. \A a, b \in 1..Len(C) : a < b /\ C[b].k = "resume" => C[a].th # C[b].th  BY DEF Shape
  <2>2. \A m \in 1..(i - 1) : m \in 1..Len(C) /\ m < i  BY <1>2
  <2> QED  BY <2>1, <2>2
<1>6. ASSUME NEW m \in i..Len(C), C[m].th = C[i].from PROVE FALSE
  <2>1. C[i].th # C[i].from  BY <1>2, <1>4, <1>5
  <2>2. i < m /\ m \in 1..Len(C)  BY <2>1, <1>6
  <2>3. PICK k \in (i + 1)..m : C[k].k = "resume" /\ C[k].th = C[m].th  BY <2>1, <2>2, <1>6 DEF Shape
  <2>4. i - 1 < k /\ k \in 1..Len(C)  BY <2>2, <1>2
  <2>5. C[i - 1].th # C[k].th  BY <2>3, <2>4, <1>2 DEF Shape
  <2> QED  BY <2>3, <2>5, <1>4, <1>6
<1> QED  BY <1>2, <1>4, <1>5, <1>6

\* The frames above the innermost setjmp of the running thread are its own, and so
\* no setjmp of another thread is above.
LEMMA TopSegment ==
    ASSUME NEW C \in Seq(CFrame), Shape(C), NEW th, th = C[Len(C)].th
    PROVE  /\ \A i \in (Catcher(C, th, Len(C)) + 1)..Len(C) : C[i].th = th
           /\ th # "main" => Catcher(C, th, Len(C)) # 0
           /\ \A i \in 1..Len(C) : C[i].k \in {"pcall", "resume"} => i <= Catcher(C, th, Len(C))
<1> DEFINE n == Len(C)
<1>0. PICK j : j = Catcher(C, th, n)  OBVIOUS
<1>1. n \in Nat /\ n >= 1  BY DEF Shape
<1>2. j \in 0..n /\ \A m \in 1..n : C[m].th = th /\ C[m].k \in {"pcall", "resume"} => m <= j
  BY <1>0, <1>1, CatcherIs DEF Catches
<1>3. ASSUME NEW i \in 1..n, C[i].th # th PROVE i < j
  <2>1. i < n /\ n \in 1..n  BY <1>1, <1>3
  <2>2. PICK m \in (i + 1)..n : C[m].k = "resume" /\ C[m].th = C[n].th  BY <2>1, <1>3 DEF Shape
  <2>3. m \in 1..n /\ m <= j  BY <2>2, <1>2
  <2> QED  BY <2>3, <1>2
<1>4. \A i \in (j + 1)..n : C[i].th = th
  <2> SUFFICES ASSUME NEW i \in (j + 1)..n, C[i].th # th PROVE FALSE  OBVIOUS
  <2>1. i \in 1..n  BY <1>2
  <2> QED  BY <2>1, <1>2, <1>3
<1>5. th # "main" => j # 0
  <2>1. SUFFICES ASSUME th # "main" PROVE j # 0  OBVIOUS
  <2>2. 1 \in 1..n /\ C[1].th # th  BY <1>1, <2>1 DEF Shape, Host
  <2> QED  BY <2>2, <1>2, <1>3
<1>6. \A i \in 1..n : C[i].k \in {"pcall", "resume"} => i <= j
  <2> SUFFICES ASSUME NEW i \in 1..n, C[i].k \in {"pcall", "resume"} PROVE i <= j  OBVIOUS
  <2>1. CASE C[i].th = th  BY <2>1, <1>2
  <2>2. CASE C[i].th # th  BY <2>2, <1>2, <1>3
  <2> QED  BY <2>1, <2>2
<1> QED  BY <1>0, <1>4, <1>5, <1>6

-----------------------------------------------------------------------------
(* The C stack and the threads *)

\* No thread has more nested luaD_calls.
Limit == MaxCCalls + ErrorCalls

\* What luaD_pcall and lua_resume saved in the frame at i.
SavedFrame(C, i) ==
    /\ C[i].k = "pcall" =>
       /\ C[i].nCcalls = Calls(C, C[i].th, i - 1) /\ C[i].nCcalls < Limit
       /\ C[i].ci = Infos(C, C[i].th, i - 1)
       /\ C[i].errfunc = HandlerOf(C, C[i].th, i - 1) /\ C[i].jmp = Catcher(C, C[i].th, i - 1)
    /\ C[i].k = "resume" => C[i].jmp = 0
Saved(C) == \A i \in 1..Len(C) : SavedFrame(C, i)

\* The CallInfos are of the kind of the frames that run them.
Kinds(ci, C, th) ==
    /\ ~ ci[1].lua
    /\ \A i \in 1..Len(C) : C[i].th = th =>
          /\ (C[i].k = "c" /\ C[i].f # "host") => ~ ci[Infos(C, th, i)].lua
          /\ C[i].k = "exec" => \A d \in (Infos(C, th, i - 1) + 1)..Infos(C, th, i) : ci[d].lua

\* A thread with frames on the C stack, and one without.
Runner(t, C, th) ==
    /\ t.status = "ok" /\ t.nCcalls = Calls(C, th, Len(C)) /\ Len(t.ci) = Infos(C, th, Len(C))
    /\ t.errfunc = HandlerOf(C, th, Len(C)) /\ t.jmp = Catcher(C, th, Len(C))
    /\ Kinds(t.ci, C, th)
Sleeper(t) ==
    /\ t.jmp = 0 /\ t.nCcalls <= Limit
    /\ t.status # "err" => t.nCcalls = 0 /\ t.errfunc = 0 /\ ~ t.ci[1].lua
    /\ t.status \in {"none", "ok"} => Len(t.ci) = 1
    /\ t.status = "yield" => Len(t.ci) >= 3 /\ ~ t.ci[Len(t.ci)].lua /\ \A d \in 2..(Len(t.ci) - 1) : t.ci[d].lua

\* The running thread and those that wait for it have frames, the others do not.
HasFrames(C, th) == \E i \in 1..Len(C) : C[i].th = th
InStep(t, C, th) == IF HasFrames(C, th) THEN Runner(t, C, th) ELSE Sleeper(t)
\* The C stack has its shape and has saved what it should, every thread is in step.
Core(threads, C, running) ==
    /\ Shape(C) /\ Saved(C) /\ C[Len(C)].th = running
    /\ \A th \in Thread : InStep(threads[th], C, th)

\* A thread is in step with two C stacks that differ in frames of others only.
LEMMA ElsewhereSame ==
    ASSUME NEW C \in Seq(CFrame), NEW D \in Seq(CFrame), NEW m, SameTo(C, D, m), NEW th, NEW t,
           \A i \in (m + 1)..Len(C) : C[i].th # th, \A i \in (m + 1)..Len(D) : D[i].th # th,
           InStep(t, C, th)
    PROVE  InStep(t, D, th)
<1>1. m \in Nat /\ m \in 0..Len(C) /\ m \in 0..Len(D) /\ Len(C) \in Nat /\ Len(D) \in Nat  BY DEF SameTo
<1>2. \A i \in 1..m : D[i] = C[i] /\ i \in 1..Len(C) /\ i \in 1..Len(D)  BY <1>1 DEF SameTo
<1>3. \A i \in 1..Len(C) : C[i].th = th => i \in 1..m  BY <1>1
<1>4. \A i \in 1..Len(D) : D[i].th = th => i \in 1..m  BY <1>1
<1>5. HasFrames(C, th) <=> HasFrames(D, th)  BY <1>2, <1>3, <1>4 DEF HasFrames
<1>6. CASE ~ HasFrames(C, th)  BY <1>5, <1>6 DEF InStep
<1>7. CASE HasFrames(C, th)
  <2>1. Runner(t, C, th)  BY <1>7 DEF InStep
  <2>2. /\ Calls(C, th, Len(C)) = Calls(C, th, m) /\ Infos(C, th, Len(C)) = Infos(C, th, m)
        /\ Catcher(C, th, Len(C)) = Catcher(C, th, m) /\ HandlerOf(C, th, Len(C)) = HandlerOf(C, th, m)
    BY <1>1, CountStill
  <2>3. /\ Calls(D, th, Len(D)) = Calls(D, th, m) /\ Infos(D, th, Len(D)) = Infos(D, th, m)
        /\ Catcher(D, th, Len(D)) = Catcher(D, th, m) /\ HandlerOf(D, th, Len(D)) = HandlerOf(D, th, m)
    BY <1>1, CountStill
  <2>4. \A i \in 0..m : /\ Calls(D, th, i) = Calls(C, th, i) /\ Infos(D, th, i) = Infos(C, th, i)
                        /\ Catcher(D, th, i) = Catcher(C, th, i) /\ HandlerOf(D, th, i) = HandlerOf(C, th, i)
    BY CountSame
  <2>5. m \in 0..m  BY <1>1
  <2>6. Kinds(t.ci, D, th)
    <3>1. ~ t.ci[1].lua  BY <2>1 DEF Runner, Kinds
    <3>2. ASSUME NEW i \in 1..Len(D), D[i].th = th
          PROVE  /\ (D[i].k = "c" /\ D[i].f # "host") => ~ t.ci[Infos(D, th, i)].lua
                 /\ D[i].k = "exec" => \A d \in (Infos(D, th, i - 1) + 1)..Infos(D, th, i) : t.ci[d].lua
      <4>1. i \in 1..m /\ i \in 0..m /\ i - 1 \in 0..m  BY <1>1, <1>4, <3>2
      <4>2. D[i] = C[i] /\ i \in 1..Len(C)  BY <4>1, <1>2
      <4>3. Infos(D, th, i) = Infos(C, th, i) /\ Infos(D, th, i - 1) = Infos(C, th, i - 1)  BY <4>1, <2>4
      <4> QED  BY <4>2, <4>3, <3>2, <2>1 DEF Runner, Kinds
    <3> QED  BY <3>1, <3>2 DEF Kinds
  <2>7. Runner(t, D, th)  BY <2>1, <2>2, <2>3, <2>4, <2>5, <2>6 DEF Runner
  <2> QED  BY <2>7, <1>5, <1>7 DEF InStep
<1> QED  BY <1>6, <1>7

\* What was saved stays so, and a frame is added.
LEMMA SavedSame ==
    ASSUME NEW C \in Seq(CFrame), NEW D \in Seq(CFrame), NEW m, SameTo(C, D, m), Saved(C),
           \A i \in (m + 1)..Len(D) : SavedFrame(D, i)
    PROVE  Saved(D)
<1> SUFFICES ASSUME NEW i \in 1..Len(D) PROVE SavedFrame(D, i)  BY DEF Saved
<1>1. CASE i \in (m + 1)..Len(D)  BY <1>1
<1>2. CASE i \in 1..m
  <2>1. D[i] = C[i] /\ i \in 1..Len(C) /\ i - 1 \in 0..m  BY <1>2 DEF SameTo
  <2>2. SavedFrame(C, i)  BY <2>1 DEF Saved
  <2>3. \A th : /\ Calls(D, th, i - 1) = Calls(C, th, i - 1) /\ Infos(D, th, i - 1) = Infos(C, th, i - 1)
                /\ Catcher(D, th, i - 1) = Catcher(C, th, i - 1) /\ HandlerOf(D, th, i - 1) = HandlerOf(C, th, i - 1)
    BY <2>1, CountSame
  <2> QED  BY <2>1, <2>2, <2>3 DEF SavedFrame
<1> QED  BY <1>1, <1>2 DEF SameTo

\* The running thread moves; no other thread sees it.
LEMMA CoreOwn ==
    ASSUME NEW threads, NEW C \in Seq(CFrame), NEW th \in Thread, Core(threads, C, th),
           NEW D \in Seq(CFrame), Shape(D), Saved(D), D[Len(D)].th = th,
           NEW m, SameTo(C, D, m), \A i \in (m + 1)..Len(C) : C[i].th = th, \A i \in (m + 1)..Len(D) : D[i].th = th,
           NEW after, \A o \in Thread : o # th => after[o] = threads[o], Runner(after[th], D, th)
    PROVE  Core(after, D, th)
<1>1. ASSUME NEW o \in Thread, o # th PROVE InStep(after[o], D, o)
  <2>1. InStep(threads[o], C, o)  BY DEF Core
  <2>2. InStep(threads[o], D, o)  BY <2>1, <1>1, ElsewhereSame
  <2> QED  BY <2>2, <1>1
<1>2. InStep(after[th], D, th)
  <2>1. Len(D) \in 1..Len(D)  BY DEF Shape
  <2>2. HasFrames(D, th)  BY <2>1 DEF HasFrames
  <2> QED  BY <2>2 DEF InStep
<1> QED  BY <1>1, <1>2 DEF Core

\* The running thread is a runner.
LEMMA CoreRunner ==
    ASSUME NEW threads, NEW C \in Seq(CFrame), NEW th \in Thread, Core(threads, C, th)
    PROVE  Runner(threads[th], C, th) /\ Len(C) \in Nat /\ Len(C) >= 1
<1>1. Len(C) \in 1..Len(C) /\ Len(C) \in Nat /\ Len(C) >= 1  BY DEF Core, Shape
<1>2. HasFrames(C, th)  BY <1>1 DEF HasFrames, Core
<1> QED  BY <1>1, <1>2 DEF Core, InStep

\* The running thread of D, derived from its last frame.
LEMMA RunnerStep ==
    ASSUME NEW D \in Seq(CFrame), NEW n \in Nat, n >= 1, Len(D) = n, NEW th, D[n].th = th, NEW t,
           t.status = "ok",
           t.nCcalls = Calls(D, th, n - 1) + (IF D[n].k = "call" THEN 1 ELSE 0),
           Len(t.ci) = Infos(D, th, n - 1) + Runs(D[n]),
           t.errfunc = IF D[n].k = "pcall" THEN D[n].ef ELSE HandlerOf(D, th, n - 1),
           t.jmp = IF D[n].k \in {"pcall", "resume"} THEN n ELSE Catcher(D, th, n - 1),
           Kinds(t.ci, D, th)
    PROVE  Runner(t, D, th)
<1>1. n \in 1..Len(D)  OBVIOUS
<1>2. /\ Calls(D, th, n) = Calls(D, th, n - 1) + (IF D[n].th = th /\ D[n].k = "call" THEN 1 ELSE 0)
      /\ Infos(D, th, n) = Infos(D, th, n - 1) + (IF D[n].th = th THEN Runs(D[n]) ELSE 0)
      /\ Catcher(D, th, n) = IF D[n].th = th /\ D[n].k \in {"pcall", "resume"} THEN n ELSE Catcher(D, th, n - 1)
      /\ HandlerOf(D, th, n) = IF D[n].th = th /\ D[n].k = "pcall" THEN D[n].ef ELSE HandlerOf(D, th, n - 1)
  BY <1>1, CountStep
<1> QED  BY <1>2 DEF Runner

\* CallInfos d follow c, which has k of them: they may be the ones of one more frame.
KindsFollow(c, d, k, D, m) ==
    /\ \A i \in 1..k : d[i].lua = c[i].lua
    /\ Len(D) \in {m, m + 1}
    /\ Len(D) = m + 1 =>
         /\ D[m + 1].k = "c" => ~ d[k + 1].lua
         /\ D[m + 1].k = "exec" => \A i \in (k + 1)..(k + D[m + 1].n) : d[i].lua

\* Kinds after a step: the common frames keep theirs, the new top frame has its own.
LEMMA KindsStep ==
    ASSUME NEW C \in Seq(CFrame), NEW D \in Seq(CFrame), NEW m, SameTo(C, D, m), NEW th,
           NEW c, Kinds(c, C, th), NEW d,
           KindsFollow(c, d, Infos(C, th, m), D, m)
    PROVE  Kinds(d, D, th)
<1>0. m \in Nat /\ m \in 0..Len(C) /\ m \in 0..Len(D) /\ m \in 0..m  BY DEF SameTo
<1>1. Infos(C, th, m) \in Nat /\ Infos(C, th, m) >= 1  BY <1>0, CountTypes
<1>2. ~ d[1].lua  BY <1>1 DEF Kinds, KindsFollow
<1>3. \A i \in 0..m : Infos(D, th, i) = Infos(C, th, i)  BY CountSame
<1>4. ASSUME NEW i \in 1..Len(D), D[i].th = th
      PROVE  /\ (D[i].k = "c" /\ D[i].f # "host") => ~ d[Infos(D, th, i)].lua
             /\ D[i].k = "exec" => \A e \in (Infos(D, th, i - 1) + 1)..Infos(D, th, i) : d[e].lua
  <2>1. CASE i \in 1..m
    <3>1. D[i] = C[i] /\ i \in 1..Len(C)  BY <2>1 DEF SameTo
    <3>2. i \in 0..m /\ i - 1 \in 0..m /\ i \in 0..Len(C) /\ i - 1 \in 0..Len(C) /\ i <= m  BY <2>1, <1>0
    <3>3. Infos(D, th, i) = Infos(C, th, i) /\ Infos(D, th, i - 1) = Infos(C, th, i - 1)  BY <3>2, <1>3
    <3>4. /\ Infos(C, th, i) \in Nat /\ Infos(C, th, i) >= 1 /\ Infos(C, th, i - 1) \in Nat
          /\ Infos(C, th, i - 1) >= 1 /\ Infos(C, th, i) <= Infos(C, th, m)
      BY <3>2, <1>0, CountTypes, CountGrows
    <3>5. /\ (C[i].k = "c" /\ C[i].f # "host") => ~ c[Infos(C, th, i)].lua
          /\ C[i].k = "exec" => \A e \in (Infos(C, th, i - 1) + 1)..Infos(C, th, i) : c[e].lua
      BY <3>1, <1>4 DEF Kinds
    <3>6. \A e \in 1..Infos(C, th, i) : d[e].lua = c[e].lua  BY <3>4, <1>1 DEF KindsFollow
    <3>7. Infos(C, th, i) \in 1..Infos(C, th, i)  BY <3>4
    <3>8. \A e \in (Infos(C, th, i - 1) + 1)..Infos(C, th, i) : e \in 1..Infos(C, th, i)  BY <3>4
    <3> QED  BY <3>1, <3>3, <3>5, <3>6, <3>7, <3>8
  <2>2. CASE i = m + 1
    <3>1. Len(D) = m + 1 /\ i - 1 = m  BY <2>2, <1>0 DEF KindsFollow
    <3>2. Infos(D, th, i) = Infos(D, th, m) + Runs(D[i])  BY <3>1, <1>4, CountStep
    <3>3. Infos(D, th, i) = Infos(C, th, m) + Runs(D[i])  BY <3>2, <1>0, <1>3
    <3>4. D[i] \in CFrame  BY ElementOfSeq
    <3>5. /\ D[i].k = "exec" => Runs(D[i]) = D[i].n
          /\ (D[i].k = "c" /\ D[i].f # "host") => Runs(D[i]) = 1
      BY <3>4, FrameFacts
    <3>6. Infos(D, th, i - 1) = Infos(C, th, m)  BY <3>1, <1>0, <1>3
    <3> QED  BY <2>2, <3>1, <3>3, <3>5, <3>6 DEF KindsFollow
  <2> QED  BY <2>1, <2>2, <1>0 DEF KindsFollow
<1> QED  BY <1>2, <1>4 DEF Kinds

\* A frame that the running thread pushes.
Pushed(t, u, f, n) ==
    /\ u.status = "ok"
    /\ u.nCcalls = t.nCcalls + (IF f.k = "call" THEN 1 ELSE 0)
    /\ Len(u.ci) = Len(t.ci) + Runs(f)
    /\ \A d \in 1..Len(t.ci) : u.ci[d].lua = t.ci[d].lua
    /\ f.k = "c" => ~ u.ci[Len(t.ci) + 1].lua
    /\ f.k = "exec" => \A d \in (Len(t.ci) + 1)..(Len(t.ci) + f.n) : u.ci[d].lua
    /\ u.errfunc = IF f.k = "pcall" THEN f.ef ELSE t.errfunc
    /\ u.jmp = IF f.k = "pcall" THEN n + 1 ELSE t.jmp
    /\ f.k = "pcall" => /\ f.nCcalls = t.nCcalls /\ t.nCcalls < Limit /\ f.ci = Len(t.ci)
                        /\ f.errfunc = t.errfunc /\ f.jmp = t.jmp

\* luaD_call, luaD_precall, luaD_pcall and luaG_errormsg push a frame.
LEMMA CorePush ==
    ASSUME NEW threads, NEW C \in Seq(CFrame), NEW th \in Thread, Core(threads, C, th),
           NEW f \in CFrame, f.th = th, f.k # "resume", CallsFrame(C[Len(C)], f),
           NEW after, \A o \in Thread : o # th => after[o] = threads[o],
           Pushed(threads[th], after[th], f, Len(C))
    PROVE  Core(after, Append(C, f), th)
<1> DEFINE D == Append(C, f)
           n == Len(C)
           t == threads[th]
           u == after[th]
<1>1. n \in Nat /\ n >= 1 /\ Runner(t, C, th)  BY CoreRunner
<1>2. D \in Seq(CFrame) /\ Len(D) = n + 1 /\ D[n + 1] = f /\ \A i \in 1..n : D[i] = C[i]  BY <1>1, AppendProperties
<1> HIDE DEF D
<1>3. SameTo(C, D, n) /\ n \in 0..Len(C)  BY <1>1, <1>2 DEF SameTo
<1>4. Shape(D)  BY ShapePush DEF Core, D
<1>5. /\ Calls(D, th, n) = t.nCcalls /\ Infos(D, th, n) = Len(t.ci)
      /\ Catcher(D, th, n) = t.jmp /\ HandlerOf(D, th, n) = t.errfunc
  <2>1. n \in 0..n  BY <1>1
  <2> QED  BY <2>1, <1>1, <1>2, <1>3, CountSame DEF Runner
<1>6. SavedFrame(D, n + 1)  BY <1>1, <1>2, <1>5 DEF SavedFrame, Pushed
<1>7. Saved(D)
  <2>1. \A i \in (n + 1)..Len(D) : SavedFrame(D, i)  BY <1>1, <1>2, <1>6
  <2> QED  BY <2>1, <1>2, <1>3, SavedSame DEF Core
<1>8. Kinds(u.ci, D, th)
  <2>1. Infos(C, th, n) = Len(t.ci) /\ Kinds(t.ci, C, th)  BY <1>1 DEF Runner
  <2>2. \A i \in 1..Infos(C, th, n) : u.ci[i].lua = t.ci[i].lua  BY <2>1 DEF Pushed
  <2>3. KindsFollow(t.ci, u.ci, Infos(C, th, n), D, n)  BY <2>1, <2>2, <1>1, <1>2 DEF Pushed, KindsFollow
  <2> HIDE DEF t, u
  <2> QED  BY <2>1, <2>3, <1>2, <1>3, KindsStep
<1>9. Runner(u, D, th)
  <2>1. n + 1 - 1 = n /\ n + 1 \in Nat /\ n + 1 >= 1  BY <1>1
  <2>2. D[n + 1] = f /\ f.th = th /\ f.k # "resume"  BY <1>2
  <2>3. Pushed(t, u, f, n)  OBVIOUS
  <2> HIDE DEF t, u, n
  <2>4. /\ u.status = "ok" /\ u.nCcalls = Calls(D, th, n) + (IF f.k = "call" THEN 1 ELSE 0)
        /\ Len(u.ci) = Infos(D, th, n) + Runs(f)
        /\ u.errfunc = IF f.k = "pcall" THEN f.ef ELSE HandlerOf(D, th, n)
    BY <2>3, <1>5 DEF Pushed
  <2>5. u.jmp = IF f.k \in {"pcall", "resume"} THEN n + 1 ELSE Catcher(D, th, n)
    BY <2>2, <2>3, <1>5 DEF Pushed
  <2> DEFINE m == n + 1
  <2>6. m \in Nat /\ m >= 1 /\ Len(D) = m /\ m - 1 = n /\ D[m] = f  BY <1>1, <2>1, <2>2, <1>2
  <2> HIDE DEF m
  <2>7. D \in Seq(CFrame) /\ D[m].th = th  BY <2>2, <2>6, <1>2
  <2>8. /\ u.status = "ok" /\ u.nCcalls = Calls(D, th, m - 1) + (IF D[m].k = "call" THEN 1 ELSE 0)
        /\ Len(u.ci) = Infos(D, th, m - 1) + Runs(D[m])
        /\ u.errfunc = IF D[m].k = "pcall" THEN D[m].ef ELSE HandlerOf(D, th, m - 1)
    BY <2>4, <2>6
  <2>9. u.jmp = IF D[m].k \in {"pcall", "resume"} THEN m ELSE Catcher(D, th, m - 1)
    BY <2>5, <2>6 DEF m
  <2> QED  BY <2>6, <2>7, <2>8, <2>9, <1>8, RunnerStep
<1>10. \A i \in (n + 1)..Len(C) : C[i].th = th  BY <1>1
<1>11. \A i \in (n + 1)..Len(D) : D[i].th = th  BY <1>1, <1>2
<1>12. D[Len(D)].th = th  BY <1>1, <1>2
<1> QED  BY <1>2, <1>3, <1>4, <1>7, <1>9, <1>10, <1>11, <1>12, CoreOwn DEF D

\* D is what is left of C when it is cut above m.
CutTo(C, D, m) == D \in Seq(CFrame) /\ m \in 0..Len(C) /\ Len(D) = m /\ \A i \in 1..m : D[i] = C[i]

\* What was counted up to m is what is counted in the rest.
LEMMA CutCounts ==
    ASSUME NEW C \in Seq(CFrame), NEW D, NEW m, CutTo(C, D, m)
    PROVE  /\ D \in Seq(CFrame) /\ m \in Nat /\ Len(D) = m /\ SameTo(C, D, m)
           /\ \A th : /\ Calls(D, th, m) = Calls(C, th, m) /\ Infos(D, th, m) = Infos(C, th, m)
                      /\ Catcher(D, th, m) = Catcher(C, th, m) /\ HandlerOf(D, th, m) = HandlerOf(C, th, m)
<1>1. D \in Seq(CFrame) /\ m \in Nat /\ Len(D) = m /\ SameTo(C, D, m) /\ m \in 0..m  BY DEF CutTo, SameTo
<1> QED  BY <1>1, CountSame

\* u is t when the stack was cut to m: what C says of the thread up to m.
CutBack(t, u, C, th, m) ==
    /\ u.status = "ok" /\ u.nCcalls = Calls(C, th, m) /\ Len(u.ci) = Infos(C, th, m)
    /\ \A d \in 1..Infos(C, th, m) : u.ci[d].lua = t.ci[d].lua
    /\ u.errfunc = HandlerOf(C, th, m) /\ u.jmp = Catcher(C, th, m)

\* The stack is cut down to a frame of the running thread.
LEMMA CoreCut ==
    ASSUME NEW threads, NEW C \in Seq(CFrame), NEW th \in Thread, Core(threads, C, th),
           NEW m \in 1..Len(C), NEW D, CutTo(C, D, m), \A i \in m..Len(C) : C[i].th = th,
           NEW after, \A o \in Thread : o # th => after[o] = threads[o],
           CutBack(threads[th], after[th], C, th, m)
    PROVE  Core(after, D, th)
<1> DEFINE t == threads[th]
           u == after[th]
<1>1. D \in Seq(CFrame) /\ m \in Nat /\ Len(D) = m /\ SameTo(C, D, m)  BY CutCounts
<1>2. Shape(D)  BY <1>1, ShapePrefix DEF Core
<1>3. Saved(D)
  <2>1. \A i \in (m + 1)..Len(D) : SavedFrame(D, i)  BY <1>1
  <2> QED  BY <2>1, <1>1, SavedSame DEF Core
<1>4. Kinds(t.ci, C, th)  BY CoreRunner DEF Runner
<1>5. Kinds(u.ci, D, th)
  <2>1. KindsFollow(t.ci, u.ci, Infos(C, th, m), D, m)  BY <1>1 DEF KindsFollow, CutBack
  <2> HIDE DEF t, u
  <2> QED  BY <2>1, <1>1, <1>4, KindsStep
<1>6. /\ Calls(D, th, m) = Calls(C, th, m) /\ Infos(D, th, m) = Infos(C, th, m)
      /\ Catcher(D, th, m) = Catcher(C, th, m) /\ HandlerOf(D, th, m) = HandlerOf(C, th, m)
  BY CutCounts
<1>7. Runner(u, D, th)  BY <1>1, <1>5, <1>6 DEF Runner, CutBack
<1>8. D[Len(D)].th = th  BY <1>1 DEF SameTo
<1>9. \A i \in (m + 1)..Len(C) : C[i].th = th  BY <1>1
<1>10. \A i \in (m + 1)..Len(D) : D[i].th = th  BY <1>1
<1>11. Runner(after[th], D, th)  BY <1>7
<1>12. D \in Seq(CFrame) /\ SameTo(C, D, m)  BY <1>1
<1> HIDE DEF t, u
<1> QED  BY <1>2, <1>3, <1>8, <1>9, <1>10, <1>11, <1>12, CoreOwn

\* The counts below the frame on top.
LEMMA BelowTop ==
    ASSUME NEW threads, NEW C \in Seq(CFrame), NEW th \in Thread, Core(threads, C, th),
           NEW n, n = Len(C), C[n].k # "resume", C[n] # Host
    PROVE  /\ n \in Nat /\ n >= 2 /\ C[n].th = th /\ C[n - 1].th = th /\ CallsFrame(C[n - 1], C[n])
           /\ C[n] \in CFrame /\ C[n - 1] \in CFrame
           /\ Calls(C, th, n - 1) = threads[th].nCcalls - (IF C[n].k = "call" THEN 1 ELSE 0)
           /\ Infos(C, th, n - 1) = Len(threads[th].ci) - Runs(C[n])
           /\ Infos(C, th, n - 1) \in Nat /\ Infos(C, th, n - 1) >= 1 /\ Runs(C[n]) \in Nat
           /\ Catcher(C, th, n - 1) = IF C[n].k = "pcall" THEN C[n].jmp ELSE threads[th].jmp
           /\ HandlerOf(C, th, n - 1) = IF C[n].k = "pcall" THEN C[n].errfunc ELSE threads[th].errfunc
<1>1. n \in Nat /\ n >= 1 /\ Runner(threads[th], C, th)  BY CoreRunner
<1>2. n # 1 /\ C[n].th = th  BY <1>1 DEF Core, Shape
<1>3. n >= 2 /\ n \in 2..Len(C) /\ n \in 1..Len(C) /\ n - 1 \in 1..Len(C) /\ n - 1 \in 0..Len(C)  BY <1>1, <1>2
<1>4. CallsFrame(C[n - 1], C[n]) /\ SavedFrame(C, n)  BY <1>3 DEF Core, Shape, Saved
<1>5. C[n - 1].th = th  BY <1>2, <1>4 DEF CallsFrame
<1>6. C[n] \in CFrame /\ C[n - 1] \in CFrame  BY <1>3, ElementOfSeq
<1>7. Runs(C[n]) \in Nat  BY <1>6, FrameFacts
<1>8. /\ Calls(C, th, n) = Calls(C, th, n - 1) + (IF C[n].th = th /\ C[n].k = "call" THEN 1 ELSE 0)
      /\ Infos(C, th, n) = Infos(C, th, n - 1) + (IF C[n].th = th THEN Runs(C[n]) ELSE 0)
      /\ Catcher(C, th, n) = IF C[n].th = th /\ C[n].k \in {"pcall", "resume"} THEN n ELSE Catcher(C, th, n - 1)
      /\ HandlerOf(C, th, n) = IF C[n].th = th /\ C[n].k = "pcall" THEN C[n].ef ELSE HandlerOf(C, th, n - 1)
  BY <1>3, CountStep
<1>9. /\ Infos(C, th, n - 1) \in Nat /\ Infos(C, th, n - 1) >= 1 /\ Calls(C, th, n - 1) \in Nat
  BY <1>3, CountTypes
<1>10. /\ threads[th].nCcalls = Calls(C, th, n) /\ Len(threads[th].ci) = Infos(C, th, n)
       /\ threads[th].errfunc = HandlerOf(C, th, n) /\ threads[th].jmp = Catcher(C, th, n)
  BY <1>1 DEF Runner
<1>11. C[n].k = "pcall" => C[n].errfunc = HandlerOf(C, th, n - 1) /\ C[n].jmp = Catcher(C, th, n - 1)
  BY <1>2, <1>4 DEF SavedFrame
<1> QED  BY <1>1, <1>2, <1>3, <1>4, <1>5, <1>6, <1>7, <1>8, <1>9, <1>10, <1>11

\* A frame that the running thread pops.
Popped(t, u, f) ==
    /\ u.status = "ok"
    /\ u.nCcalls = t.nCcalls - (IF f.k = "call" THEN 1 ELSE 0)
    /\ Len(u.ci) = Len(t.ci) - Runs(f)
    /\ \A d \in 1..Len(u.ci) : u.ci[d].lua = t.ci[d].lua
    /\ u.errfunc = IF f.k = "pcall" THEN f.errfunc ELSE t.errfunc
    /\ u.jmp = IF f.k = "pcall" THEN f.jmp ELSE t.jmp

\* The frame on top returns.
LEMMA CorePop ==
    ASSUME NEW threads, NEW C \in Seq(CFrame), NEW th \in Thread, Core(threads, C, th),
           C[Len(C)].k # "resume", C[Len(C)] # Host,
           NEW D, CutTo(C, D, Len(C) - 1),
           NEW after, \A o \in Thread : o # th => after[o] = threads[o],
           Popped(threads[th], after[th], C[Len(C)])
    PROVE  Core(after, D, th)
<1> DEFINE n == Len(C)
           m == n - 1
<1>1. /\ n \in Nat /\ n >= 2 /\ C[n].th = th /\ C[m].th = th
      /\ Calls(C, th, m) = threads[th].nCcalls - (IF C[n].k = "call" THEN 1 ELSE 0)
      /\ Infos(C, th, m) = Len(threads[th].ci) - Runs(C[n])
      /\ Catcher(C, th, m) = IF C[n].k = "pcall" THEN C[n].jmp ELSE threads[th].jmp
      /\ HandlerOf(C, th, m) = IF C[n].k = "pcall" THEN C[n].errfunc ELSE threads[th].errfunc
  BY BelowTop
<1>2. m \in 1..n /\ \A i \in m..n : C[i].th = th  BY <1>1
<1>3. /\ after[th].status = "ok" /\ after[th].nCcalls = Calls(C, th, m) /\ Len(after[th].ci) = Infos(C, th, m)
      /\ \A d \in 1..Infos(C, th, m) : after[th].ci[d].lua = threads[th].ci[d].lua
      /\ after[th].errfunc = HandlerOf(C, th, m) /\ after[th].jmp = Catcher(C, th, m)
  BY <1>1 DEF Popped
<1> HIDE DEF m
<1>4. CutTo(C, D, m)  BY DEF m
<1>5. CutBack(threads[th], after[th], C, th, m)  BY <1>3 DEF CutBack
<1> QED  BY <1>2, <1>4, <1>5, CoreCut

\* luaV_execute on top runs another number of functions.
Rerun(t, u, f, g) ==
    /\ u.status = "ok" /\ u.nCcalls = t.nCcalls /\ u.errfunc = t.errfunc /\ u.jmp = t.jmp
    /\ Len(u.ci) = Len(t.ci) - f.n + g.n
    /\ \A d \in 1..(Len(t.ci) - f.n) : u.ci[d].lua = t.ci[d].lua
    /\ \A d \in (Len(t.ci) - f.n + 1)..Len(u.ci) : u.ci[d].lua

\* luaV_execute goes on with another number of functions (nexeccalls).
LEMMA CoreTop ==
    ASSUME NEW threads, NEW C \in Seq(CFrame), NEW th \in Thread, Core(threads, C, th),
           NEW D \in Seq(CFrame), Len(D) = Len(C), SameTo(C, D, Len(C) - 1),
           C[Len(C)].k = "exec", D[Len(C)].k = "exec", D[Len(C)].th = th,
           NEW after, \A o \in Thread : o # th => after[o] = threads[o],
           Rerun(threads[th], after[th], C[Len(C)], D[Len(C)])
    PROVE  Core(after, D, th)
<1> DEFINE n == Len(C)
           m == n - 1
           t == threads[th]
           u == after[th]
<1>1. /\ n \in Nat /\ n >= 2 /\ C[n].th = th /\ C[m].th = th /\ C[n] \in CFrame
      /\ Calls(C, th, m) = t.nCcalls
      /\ Infos(C, th, m) = Len(t.ci) - Runs(C[n])
      /\ Catcher(C, th, m) = t.jmp /\ HandlerOf(C, th, m) = t.errfunc
  <2>1. C[n] # Host /\ C[n].k = "exec" /\ C[n].k # "resume"  BY DEF Host
  <2> HIDE DEF n, m, t, u
  <2>2. n = Len(C)  BY DEF n
  <2>3. /\ n \in Nat /\ n >= 2 /\ C[n].th = th /\ C[n - 1].th = th /\ C[n] \in CFrame
        /\ Calls(C, th, n - 1) = threads[th].nCcalls - 0
        /\ Infos(C, th, n - 1) = Len(threads[th].ci) - Runs(C[n])
        /\ Catcher(C, th, n - 1) = threads[th].jmp
        /\ HandlerOf(C, th, n - 1) = threads[th].errfunc
    BY <2>1, <2>2, BelowTop
  <2>4. Calls(C, th, n - 1) \in Nat /\ Calls(C, th, n) \in Nat  BY <2>2, <2>3, CountTypes
  <2>5. threads[th].nCcalls = Calls(C, th, n)  BY <2>2, CoreRunner DEF Runner
  <2>6. Calls(C, th, n - 1) = threads[th].nCcalls  BY <2>3, <2>4, <2>5
  <2> QED  BY <2>3, <2>6 DEF t, m
<1>2. n \in 1..Len(D) /\ D[n] \in CFrame  BY <1>1, ElementOfSeq
<1>3. Runs(C[n]) = C[n].n /\ Runs(D[n]) = D[n].n /\ C[n].n \in Nat /\ D[n].n \in Nat  BY <1>1, <1>2, FrameFacts
<1>4. Shape(D)  BY <1>1, ShapeTop DEF Core
<1>5. SameTo(C, D, m) /\ m \in 0..m  BY <1>1
<1>6. Saved(D)
  <2>1. \A i \in (m + 1)..Len(D) : SavedFrame(D, i)  BY <1>1 DEF SavedFrame
  <2> HIDE DEF m
  <2> QED  BY <2>1, <1>5, SavedSame DEF Core
<1>7. /\ Calls(D, th, m) = t.nCcalls /\ Infos(D, th, m) = Len(t.ci) - C[n].n
      /\ Catcher(D, th, m) = t.jmp /\ HandlerOf(D, th, m) = t.errfunc
  <2> HIDE DEF m
  <2> QED  BY <1>1, <1>3, <1>5, CountSame
<1>8. Kinds(u.ci, D, th)
  <2>1. Kinds(t.ci, C, th)  BY CoreRunner DEF Runner
  <2>2. Infos(C, th, m) = Len(t.ci) - C[n].n  BY <1>1, <1>3
  <2>3. KindsFollow(t.ci, u.ci, Infos(C, th, m), D, m)
    <3>1. m + 1 = n /\ Len(D) = m + 1 /\ D[m + 1].k = "exec"  BY <1>1
    <3>2. \A i \in 1..Infos(C, th, m) : u.ci[i].lua = t.ci[i].lua  BY <2>2 DEF Rerun
    <3>3. Infos(C, th, m) + D[n].n = Len(u.ci)  BY <2>2 DEF Rerun
    <3>4. \A i \in (Infos(C, th, m) + 1)..(Infos(C, th, m) + D[n].n) : u.ci[i].lua  BY <2>2, <3>3 DEF Rerun
    <3> HIDE DEF t, u, m, n
    <3> QED  BY <3>1, <3>2, <3>4 DEF KindsFollow
  <2> HIDE DEF t, u, m
  <2> QED  BY <2>1, <2>3, <1>5, KindsStep
<1>9. Runner(u, D, th)
  <2>1. n \in Nat /\ n >= 1 /\ Len(D) = n /\ D[n].th = th  BY <1>1
  <2>2. /\ u.status = "ok" /\ u.nCcalls = Calls(D, th, n - 1) /\ Len(u.ci) = Infos(D, th, n - 1) + Runs(D[n])
        /\ u.errfunc = HandlerOf(D, th, n - 1) /\ u.jmp = Catcher(D, th, n - 1)
    BY <1>3, <1>7 DEF Rerun
  <2>3. t.nCcalls + 0 = t.nCcalls /\ u.nCcalls = Calls(D, th, n - 1) + 0
    <3>1. n - 1 \in 0..Len(D)  BY <1>1
    <3> QED  BY <3>1, <1>7, <2>2, CountTypes
  <2> HIDE DEF n, t, u
  <2> QED  BY <2>1, <2>2, <2>3, <1>8, RunnerStep DEF n
<1>10. /\ \A i \in (m + 1)..Len(C) : C[i].th = th
       /\ \A i \in (m + 1)..Len(D) : D[i].th = th /\ D[Len(D)].th = th
  BY <1>1
<1>11. D[Len(D)].th = th  OBVIOUS
<1> HIDE DEF m
<1> QED  BY <1>4, <1>5, <1>6, <1>9, <1>10, <1>11, CoreOwn

\* The running thread leaves the C stack, and the one that resumed it goes on.
LEMMA CoreLeave ==
    ASSUME NEW threads, NEW C \in Seq(CFrame), NEW th \in Thread, Core(threads, C, th),
           NEW j \in 1..Len(C), C[j].k = "resume", \A i \in j..Len(C) : C[i].th = th,
           NEW D, CutTo(C, D, j - 1),
           NEW after, \A o \in Thread : o # th => after[o] = threads[o], Sleeper(after[th])
    PROVE  Core(after, D, C[j].from) /\ C[j].from \in Thread /\ C[j].from # th
<1> DEFINE m == j - 1
<1>1. /\ j >= 2 /\ C[m].th = C[j].from /\ \A i \in 1..m : C[i].th # C[j].th
      /\ \A i \in j..Len(C) : C[i].th # C[j].from
  BY WaiterBelow DEF Core
<1>2. C[j].th = th  OBVIOUS
<1>3. D \in Seq(CFrame) /\ m \in Nat /\ Len(D) = m /\ SameTo(C, D, m) /\ m \in 1..Len(C)
  <2> HIDE DEF m
  <2>1. D \in Seq(CFrame) /\ m \in Nat /\ Len(D) = m /\ SameTo(C, D, m)  BY CutCounts DEF m
  <2>2. m \in 1..Len(C)  BY <1>1 DEF m
  <2> QED  BY <2>1, <2>2
<1>4. \A i \in 1..m : D[i] = C[i]  BY <1>3 DEF SameTo
<1> HIDE DEF m
<1>5. Shape(D)  BY <1>3, ShapePrefix DEF Core
<1>6. Saved(D)
  <2>1. \A i \in (m + 1)..Len(D) : SavedFrame(D, i)  BY <1>3
  <2> QED  BY <2>1, <1>3, SavedSame DEF Core
<1>7. D[Len(D)].th = C[j].from  BY <1>1, <1>3, <1>4
<1>8. ASSUME NEW o \in Thread, o # th PROVE InStep(after[o], D, o)
  <2>1. InStep(threads[o], C, o)  BY DEF Core
  <2>2. \A i \in (m + 1)..Len(C) : C[i].th # o  BY <1>8 DEF m
  <2>3. \A i \in (m + 1)..Len(D) : D[i].th # o  BY <1>3
  <2>4. InStep(threads[o], D, o)  BY <2>1, <2>2, <2>3, <1>3, ElsewhereSame
  <2> QED  BY <2>4, <1>8
<1>9. InStep(after[th], D, th)
  <2>1. ~ HasFrames(D, th)  BY <1>1, <1>2, <1>3, <1>4 DEF HasFrames
  <2> QED  BY <2>1 DEF InStep
<1>10. C[j].from \in Thread
  <2>1. C[j] \in CFrame  BY ElementOfSeq
  <2> QED  BY <2>1, FrameFacts
<1>11. C[j].from # th  BY <1>1, <1>2
<1> QED  BY <1>5, <1>6, <1>7, <1>8, <1>9, <1>10, <1>11 DEF Core

\* A coroutine that has no frames comes onto the C stack.
LEMMA CoreEnter ==
    ASSUME NEW threads, NEW C \in Seq(CFrame), NEW th \in Thread, Core(threads, C, th),
           C[Len(C)].k = "c", C[Len(C)].f \in {"resume", "wrap"},
           NEW co \in Thread, ~ HasFrames(C, co),
           NEW f \in CFrame, f.k = "resume", f.th = co, f.from = th, f.jmp = 0,
           NEW after, \A o \in Thread : o # co => after[o] = threads[o],
           after[co].status = "ok", after[co].nCcalls = 0, after[co].errfunc = 0,
           Len(after[co].ci) = 1, ~ after[co].ci[1].lua, after[co].jmp = Len(C) + 1
    PROVE  Core(after, Append(C, f), co)
<1> DEFINE D == Append(C, f)
           n == Len(C)
           u == after[co]
<1>1. n \in Nat /\ n >= 1 /\ C[n].th = th  BY CoreRunner DEF Core
<1>2. D \in Seq(CFrame) /\ Len(D) = n + 1 /\ D[n + 1] = f /\ \A i \in 1..n : D[i] = C[i]  BY <1>1, AppendProperties
<1>3. Shape(D)
  <2>1. CallsFrame(C[Len(C)], f)  BY <1>1 DEF CallsFrame
  <2>2. \A i \in 1..Len(C) : C[i].th # f.th  BY DEF HasFrames
  <2> QED  BY <2>1, <2>2, ShapePush DEF Core
<1> HIDE DEF D
<1>4. SameTo(C, D, n)  BY <1>1, <1>2 DEF SameTo
<1>5. Saved(D)
  <2>1. SavedFrame(D, n + 1)  BY <1>2 DEF SavedFrame
  <2>2. \A i \in (n + 1)..Len(D) : SavedFrame(D, i)  BY <1>1, <1>2, <2>1
  <2> QED  BY <2>2, <1>2, <1>4, SavedSame DEF Core
<1>6. ASSUME NEW o \in Thread, o # co PROVE InStep(after[o], D, o)
  <2>1. InStep(threads[o], C, o)  BY DEF Core
  <2>2. \A i \in (n + 1)..Len(C) : C[i].th # o  BY <1>1
  <2>3. \A i \in (n + 1)..Len(D) : D[i].th # o  BY <1>1, <1>2, <1>6
  <2>4. InStep(threads[o], D, o)  BY <2>1, <2>2, <2>3, <1>2, <1>4, ElsewhereSame
  <2> QED  BY <2>4, <1>6
<1>7. InStep(u, D, co)
  <2>1. \A i \in (0 + 1)..n : D[i].th # co  BY <1>2 DEF HasFrames
  <2>2. Calls(D, co, n) = 0 /\ Infos(D, co, n) = 1 /\ Catcher(D, co, n) = 0 /\ HandlerOf(D, co, n) = 0
    <3>1. 0 \in Nat /\ 0 <= n  BY <1>1
    <3>2. /\ Calls(D, co, n) = Calls(D, co, 0) /\ Infos(D, co, n) = Infos(D, co, 0)
          /\ Catcher(D, co, n) = Catcher(D, co, 0) /\ HandlerOf(D, co, n) = HandlerOf(D, co, 0)
      BY <2>1, <3>1, <1>1, CountStill
    <3> QED  BY <3>2, CountNone
  <2>3. Runs(f) = 0  BY FrameFacts
  <2>4. Kinds(u.ci, D, co)
    <3>1. \A i \in 1..Len(D) : D[i].th = co => D[i].k = "resume"  BY <1>1, <1>2, <2>1
    <3> QED  BY <3>1 DEF Kinds
  <2>5. Runner(u, D, co)
    <3>1. PICK k : k = n + 1  OBVIOUS
    <3>2. k - 1 = n /\ k \in Nat /\ k >= 1 /\ Len(D) = k /\ D[k] = f /\ D[k].th = co  BY <3>1, <1>1, <1>2
    <3>3. /\ u.nCcalls = Calls(D, co, k - 1) + 0 /\ Len(u.ci) = Infos(D, co, k - 1) + Runs(D[k])
          /\ u.errfunc = HandlerOf(D, co, k - 1) /\ u.jmp = k /\ u.status = "ok"
      BY <3>1, <3>2, <2>2, <2>3
    <3>4. D[k].k = "resume"  BY <3>2
    <3> HIDE DEF n, u
    <3> QED  BY <3>2, <3>3, <3>4, <1>2, <2>4, RunnerStep
  <2>6. HasFrames(D, co)  BY <1>1, <1>2 DEF HasFrames
  <2> QED  BY <2>5, <2>6 DEF InStep
<1>8. D[Len(D)].th = co  BY <1>1, <1>2
<1> QED  BY <1>3, <1>5, <1>6, <1>7, <1>8 DEF Core, D
-----------------------------------------------------------------------------
(* The invariant *)

\* The CallInfos of a thread follow one another on its stack: a function is called
\* from above the base of its caller, and a Lua function has its local below.
Nested(ci) ==
    /\ Len(ci) >= 1
    /\ \A d \in 1..Len(ci) : 1 <= ci[d].func /\ ci[d].func < ci[d].base /\ ci[d].base < ci[d].top
    /\ \A d, e \in 1..Len(ci) : d < e =>
         ci[d].base <= ci[e].func /\ (ci[d].lua => ci[d].base < ci[e].func)
\* An open upvalue is a local; a local has its value.
Owned(t) == \A u \in t.open : \E d \in 1..Len(t.ci) : t.ci[d].lua /\ t.ci[d].base = u
Locals(t) ==
    \A d \in 1..Len(t.ci) : t.ci[d].lua =>
       /\ t.ci[d].base <= Len(t.stack) /\ t.stack[t.ci[d].base] = Local(d)
       /\ t.ci[d].top = t.ci[d].base + MaxStack
\* A thread that runs, waits or may be resumed; and one that died of an error.
Sound(t) ==
    /\ Nested(t.ci) /\ Owned(t) /\ Locals(t)
    /\ t.base = t.ci[Len(t.ci)].base /\ t.base <= Len(t.stack) + 1
    /\ \A d \in 1..Len(t.ci) : t.ci[d].top <= StackLast(t)
Dead(t) == Nested(t.ci) /\ Owned(t) /\ \A d \in 1..Len(t.ci) : t.ci[d].top - 1 <= StackLast(t)
\* There is room for one more value.
Fits(t) == Len(t.stack) < StackLast(t)

\* What luaD_pcall saved to go back to is below the functions it called.
Pcalls(C, th) == {i \in 1..Len(C) : C[i].k = "pcall" /\ C[i].th = th}
Caught(t, C, th) ==
    \A i \in Pcalls(C, th) :
       /\ C[i].oldtop <= Len(t.stack) + 1 /\ t.ci[C[i].ci].base <= C[i].oldtop
       /\ C[i].oldtop < t.ci[C[i].ci].top
       /\ \A d \in (C[i].ci + 1)..Len(t.ci) : C[i].oldtop <= t.ci[d].func
\* A thread that waits for another one has room for what it gets when that fails.
Waits(t, C, th) ==
    \A i \in 1..Len(C) : (C[i].k = "resume" /\ C[i].from = th) =>
       Len(t.stack) + 2 <= t.ci[Len(t.ci)].top /\ t.nCcalls < Limit
\* A thread is as it should be, whether it runs or not.
Fine(t, C, th) ==
    /\ (t.status # "err" => Sound(t)) /\ (t.status = "err" => Dead(t)) /\ Fits(t)
    /\ t.nCcalls <= Limit /\ Caught(t, C, th) /\ Waits(t, C, th)
\* So are all threads, and the C stack.
Good(S) ==
    /\ S \in StateT /\ Core(S.L, S.cs, S.cur)
    /\ \A th \in Thread : Fine(S.L[th], S.cs, th)

\* The arguments a C function reads.
Arity(f) == IF f = "xpcall" THEN 2 ELSE IF f \in {"host", "callback"} THEN 0 ELSE 1
\* The frame on top can do what op says next.
RunReady(f, t) ==
    /\ f.k \in {"exec", "c"}
    /\ f.k = "c" => t.base + Arity(f.f) <= Len(t.stack) + 1
    /\ (f.k = "c" /\ f.f # "callback") => Len(t.stack) + 2 <= t.ci[Len(t.ci)].top
AfterReady(f) == f.k \in {"exec", "call", "pcall", "msg"} \/ (f.k = "c" /\ f.f = "callback")
ErrorReady(f) == f.k \in {"exec", "call", "resume"} \/ (f.k = "c" /\ f.f # "host")
\* An error value is on the stack, above what the running function and luaD_pcall need.
Raised(t, C, th) ==
    /\ t.base <= Len(t.stack) /\ (t.ci[Len(t.ci)].lua => t.base < Len(t.stack))
    /\ \A i \in Pcalls(C, th) : C[i].oldtop <= Len(t.stack)
Ready(S) ==
    LET f == S.cs[Len(S.cs)]
        t == S.L[S.cur]
    IN /\ S.op = "run" => RunReady(f, t)
       /\ S.op = "after" => AfterReady(f)
       /\ S.op \in {"error", "throw"} => ErrorReady(f)
       /\ S.op = "error" => Raised(t, S.cs, S.cur)
       /\ S.op # "throw" => t.nCcalls < Limit
       /\ S.op # "return"

\* What the C stack stands for, but the CallInfos.
Shares(t, u) == u.status = t.status /\ u.nCcalls = t.nCcalls /\ u.errfunc = t.errfunc /\ u.jmp = t.jmp
\* The same calls, perhaps with more room for the last one.
SameInfos(t, u) ==
    /\ Len(u.ci) = Len(t.ci)
    /\ \A d \in 1..Len(t.ci) : /\ u.ci[d].func = t.ci[d].func /\ u.ci[d].base = t.ci[d].base
                               /\ u.ci[d].nres = t.ci[d].nres /\ u.ci[d].lua = t.ci[d].lua
                               /\ u.ci[d].top >= t.ci[d].top /\ (d # Len(t.ci) => u.ci[d].top = t.ci[d].top)
\* T is S where the running thread is u.
Moves(S, T, u) ==
    /\ T \in StateT /\ T.cur = S.cur /\ T.L[S.cur] = u
    /\ \A o \in Thread : o # S.cur => T.L[o] = S.L[o]
\* A C function returns: all was good before it pushed what it had room for, and one more.
Returning(S) ==
    LET v == S.L[S.cur]
        f == S.cs[Len(S.cs)]
    IN /\ S.op = "return" /\ f.k = "c" /\ f.f # "host" /\ v.nCcalls < Limit
       /\ v \in ThreadT /\ Sound(v) /\ Len(v.stack) <= StackLast(v) /\ v.base + S.ret <= Len(v.stack) + 1
       /\ \E P : /\ Good(P) /\ Moves(P, S, v) /\ P.cs = S.cs
                 /\ Shares(P.L[P.cur], v) /\ SameInfos(P.L[P.cur], v)
\* The inductive invariant.
IInv(S) == (Good(S) /\ Ready(S)) \/ Returning(S)

-----------------------------------------------------------------------------
(* Sequences and threads *)

\* A function on 1..n is a sequence.
LEMMA FunctionIsSeq ==
    ASSUME NEW S, NEW n \in Nat, NEW s \in [1..n -> S]
    PROVE  s \in Seq(S) /\ Len(s) = n
  OBVIOUS

\* An element put after a sequence.
LEMMA AppendFacts ==
    ASSUME NEW S, NEW s \in Seq(S), NEW e \in S, NEW w, w = Append(s, e)
    PROVE  /\ w \in Seq(S) /\ Len(w) = Len(s) + 1 /\ w[Len(s) + 1] = e /\ Len(s) \in Nat
           /\ \A i \in 1..Len(s) : w[i] = s[i]
  BY AppendProperties, LenProperties

\* The first n elements of a sequence.
LEMMA PrefixFacts ==
    ASSUME NEW S, NEW s \in Seq(S), NEW n \in 0..Len(s)
    PROVE  /\ SubSeq(s, 1, n) \in Seq(S) /\ Len(SubSeq(s, 1, n)) = n /\ \A i \in 1..n : SubSeq(s, 1, n)[i] = s[i]
<1>1. Len(s) \in Nat /\ n \in Nat /\ \A i \in 1..n : s[i] \in S  BY ElementOfSeq
<1>2. 1 \in Int /\ n \in Int  BY <1>1
<1>3. /\ SubSeq(s, 1, n) \in Seq(S)
      /\ Len(SubSeq(s, 1, n)) = IF 1 <= n THEN n - 1 + 1 ELSE 0
      /\ \A i \in 1..(n - 1 + 1) : SubSeq(s, 1, n)[i] = s[1 + i - 1]
  BY <1>1, <1>2, SubSeqProperties
<1> QED  BY <1>1, <1>3

\* A sequence without its last element.
LEMMA FrontFacts ==
    ASSUME NEW S, NEW s \in Seq(S), Len(s) >= 1
    PROVE  /\ Front(s) \in Seq(S) /\ Len(Front(s)) = Len(s) - 1 /\ \A i \in 1..(Len(s) - 1) : Front(s)[i] = s[i]
           /\ Last(s) = s[Len(s)] /\ Last(s) \in S
<1>1. Len(s) \in Nat /\ Len(s) - 1 \in 0..Len(s) /\ Len(s) \in 1..Len(s)  BY LenProperties
<1>2. s[Len(s)] \in S  BY <1>1, ElementOfSeq
<1> DEFINE m == Len(s) - 1
<1> HIDE DEF m
<1>3. m \in 0..Len(s)  BY <1>1 DEF m
<1>4. SubSeq(s, 1, m) \in Seq(S) /\ Len(SubSeq(s, 1, m)) = m /\ \A i \in 1..m : SubSeq(s, 1, m)[i] = s[i]
  BY <1>3, PrefixFacts
<1> QED  BY <1>2, <1>4 DEF Front, Last, m

\* The first n elements, and others after them.
LEMMA PrefixConcat ==
    ASSUME NEW S, NEW s \in Seq(S), NEW n \in 0..Len(s), NEW r \in Seq(S)
    PROVE  /\ SubSeq(s, 1, n) \o r \in Seq(S) /\ Len(SubSeq(s, 1, n) \o r) = n + Len(r)
           /\ \A i \in 1..n : (SubSeq(s, 1, n) \o r)[i] = s[i]
<1> DEFINE p == SubSeq(s, 1, n)
<1>1. p \in Seq(S) /\ Len(p) = n /\ \A i \in 1..n : p[i] = s[i]  BY PrefixFacts
<1> HIDE DEF p
<1>2. /\ p \o r \in Seq(S) /\ Len(p \o r) = Len(p) + Len(r)
      /\ \A i \in 1..(Len(p) + Len(r)) : (p \o r)[i] = IF i <= Len(p) THEN p[i] ELSE r[i - Len(p)]
  BY <1>1, ConcatProperties
<1>3. \A i \in 1..n : (p \o r)[i] = p[i]  BY <1>1, <1>2
<1> QED  BY <1>1, <1>2, <1>3 DEF p

\* The constants are numbers.
LEMMA Constants ==
    /\ MaxCCalls \in Nat /\ MaxCCalls >= 1 /\ ErrorCalls \in Nat /\ ErrorCalls >= 1
    /\ BasicCI \in Nat /\ MaxCalls \in Nat /\ ExtraStack \in Nat /\ MinStack \in Nat /\ MinStack >= 1
    /\ MaxStack \in Nat /\ MaxStack >= 5 /\ BasicStack \in Nat /\ BasicStack > MinStack + 2
    /\ Limit \in Nat /\ Limit > MaxCCalls /\ "main" \notin Coroutines
  BY CallAssumption DEF Limit

\* The fields of a thread.
LEMMA ThreadFacts ==
    ASSUME NEW t \in ThreadT
    PROVE  /\ t.status \in Statuses /\ t.base \in Nat /\ t.nCcalls \in Nat /\ t.errfunc \in Nat /\ t.jmp \in Nat
           /\ t.sizeci \in Nat /\ t.stacksize \in Nat /\ t.open \in SUBSET Nat
           /\ t.stack \in Seq(Int) /\ t.ci \in Seq(CallInfo) /\ Len(t.stack) \in Nat /\ Len(t.ci) \in Nat
           /\ StackLast(t) \in Int /\ StackLast(t) = t.stacksize - ExtraStack - 1 /\ Top(t) = Len(t.stack) + 1
           /\ \A d \in 1..Len(t.ci) : /\ t.ci[d] \in CallInfo /\ t.ci[d].func \in Nat /\ t.ci[d].base \in Nat
                                      /\ t.ci[d].top \in Nat /\ t.ci[d].nres \in {0, 1, MULTRET}
                                      /\ t.ci[d].lua \in BOOLEAN
<1>1. t.ci \in Seq(CallInfo) /\ t.stack \in Seq(Int)  BY DEF ThreadT
<1>2. \A d \in 1..Len(t.ci) : t.ci[d] \in CallInfo  BY <1>1, ElementOfSeq
<1>3. Len(t.stack) \in Nat /\ Len(t.ci) \in Nat  BY <1>1, LenProperties
<1>4. \A d \in 1..Len(t.ci) : /\ t.ci[d].func \in Nat /\ t.ci[d].base \in Nat /\ t.ci[d].top \in Nat
                              /\ t.ci[d].nres \in {0, 1, MULTRET} /\ t.ci[d].lua \in BOOLEAN
  BY <1>2 DEF CallInfo
<1>5. StackLast(t) \in Int /\ StackLast(t) = t.stacksize - ExtraStack - 1  BY Constants DEF ThreadT, StackLast
<1> QED  BY <1>1, <1>2, <1>3, <1>4, <1>5 DEF ThreadT, Top

\* The order of the CallInfos, with its types.
LEMMA NestedFacts ==
    ASSUME NEW ci \in Seq(CallInfo), Nested(ci)
    PROVE  /\ Len(ci) \in Nat /\ Len(ci) >= 1 /\ Len(ci) \in 1..Len(ci)
           /\ \A d \in 1..Len(ci) : /\ ci[d].func \in Nat /\ ci[d].base \in Nat /\ ci[d].top \in Nat
                                    /\ ci[d].func >= 1 /\ ci[d].func < ci[d].base /\ ci[d].base < ci[d].top
                                    /\ ci[d].base >= 2
           /\ \A d \in 1..(Len(ci) - 1) :
                 /\ ci[d].base <= ci[Len(ci)].func /\ (ci[d].lua => ci[d].base < ci[Len(ci)].func)
<1>1. Len(ci) \in Nat /\ Len(ci) >= 1 /\ Len(ci) \in 1..Len(ci)  BY LenProperties DEF Nested
<1>2. ASSUME NEW d \in 1..Len(ci)
      PROVE  /\ ci[d].func \in Nat /\ ci[d].base \in Nat /\ ci[d].top \in Nat
             /\ ci[d].func >= 1 /\ ci[d].func < ci[d].base /\ ci[d].base < ci[d].top /\ ci[d].base >= 2
  <2>1. ci[d] \in CallInfo  BY ElementOfSeq
  <2>2. ci[d].func \in Nat /\ ci[d].base \in Nat /\ ci[d].top \in Nat  BY <2>1 DEF CallInfo
  <2>3. 1 <= ci[d].func /\ ci[d].func < ci[d].base /\ ci[d].base < ci[d].top  BY DEF Nested
  <2> QED  BY <2>2, <2>3
<1>3. ASSUME NEW d \in 1..(Len(ci) - 1)
      PROVE  ci[d].base <= ci[Len(ci)].func /\ (ci[d].lua => ci[d].base < ci[Len(ci)].func)
  <2>1. d \in 1..Len(ci) /\ d < Len(ci)  BY <1>1
  <2> QED  BY <2>1, <1>1 DEF Nested
<1> QED  BY <1>1, <1>2, <1>3

\* The running function has its base on the stack, and a Lua function its local.
LEMMA BaseFacts ==
    ASSUME NEW t \in ThreadT, Sound(t)
    PROVE  /\ t.base = t.ci[Len(t.ci)].base /\ t.base \in Nat /\ t.base >= 2 /\ t.base <= Len(t.stack) + 1
           /\ t.ci[Len(t.ci)].lua => t.base <= Len(t.stack) /\ t.ci[Len(t.ci)].top = t.base + MaxStack
           /\ t.ci[Len(t.ci)].func < t.base /\ t.ci[Len(t.ci)].func >= 1 /\ t.ci[Len(t.ci)].func \in Nat
           /\ t.base < t.ci[Len(t.ci)].top /\ t.ci[Len(t.ci)].top <= StackLast(t) /\ t.ci[Len(t.ci)].top \in Nat
           /\ Len(t.ci) \in Nat /\ Len(t.ci) >= 1
<1>1. t.ci \in Seq(CallInfo) /\ Nested(t.ci) /\ Locals(t)  BY ThreadFacts DEF Sound
<1>2. /\ Len(t.ci) \in Nat /\ Len(t.ci) >= 1 /\ Len(t.ci) \in 1..Len(t.ci)
      /\ \A d \in 1..Len(t.ci) : /\ t.ci[d].func \in Nat /\ t.ci[d].base \in Nat /\ t.ci[d].top \in Nat
                                 /\ t.ci[d].func >= 1 /\ t.ci[d].func < t.ci[d].base /\ t.ci[d].base < t.ci[d].top
                                 /\ t.ci[d].base >= 2
  BY <1>1, NestedFacts
<1> QED  BY <1>1, <1>2 DEF Sound, Locals

\* u is t with other values on its stack, or a larger one.
SameCalls(t, u) ==
    /\ u.status = t.status /\ u.base = t.base /\ u.nCcalls = t.nCcalls /\ u.errfunc = t.errfunc /\ u.jmp = t.jmp
    /\ u.ci = t.ci
Regrown(t, u) == SameCalls(t, u) /\ u.open = t.open /\ u.stacksize >= t.stacksize

\* The values below the stack pointer of a call are not disturbed by what happens above.
LEMMA SoundRestack ==
    ASSUME NEW t \in ThreadT, Sound(t), NEW u \in ThreadT, Regrown(t, u), u.base <= Len(u.stack) + 1,
           \A i \in 1..Len(t.stack) : i < t.base => i <= Len(u.stack) /\ u.stack[i] = t.stack[i],
           t.ci[Len(t.ci)].lua => t.base <= Len(u.stack) /\ u.stack[t.base] = t.stack[t.base]
    PROVE  Sound(u)
<1>1. Nested(u.ci) /\ Owned(u)  BY DEF Sound, Regrown, SameCalls, Owned
<1>2. Locals(u)
  <2> SUFFICES ASSUME NEW d \in 1..Len(t.ci), t.ci[d].lua
               PROVE  /\ t.ci[d].base <= Len(u.stack) /\ u.stack[t.ci[d].base] = Local(d)
                      /\ t.ci[d].top = t.ci[d].base + MaxStack
    BY DEF Locals, Regrown, SameCalls
  <2>1. t.ci[d].base <= Len(t.stack) /\ t.stack[t.ci[d].base] = Local(d) /\ t.ci[d].top = t.ci[d].base + MaxStack
    BY DEF Sound, Locals
  <2>2. t.base = t.ci[Len(t.ci)].base  BY DEF Sound
  <2>3. CASE d = Len(t.ci)  BY <2>1, <2>2, <2>3
  <2>4. CASE d # Len(t.ci)
    <3>1. t.ci \in Seq(CallInfo) /\ Nested(t.ci)  BY ThreadFacts DEF Sound
    <3>2. Len(t.ci) \in Nat /\ Len(t.ci) \in 1..Len(t.ci)  BY <3>1, NestedFacts
    <3>3. d \in 1..(Len(t.ci) - 1)  BY <2>4, <3>2
    <3>4. t.ci[d].base < t.ci[Len(t.ci)].func  BY <3>1, <3>3, NestedFacts
    <3>5. /\ t.ci[Len(t.ci)].func \in Nat /\ t.ci[Len(t.ci)].func < t.base /\ t.base \in Nat  BY BaseFacts
    <3>6. t.ci[d].base \in Nat /\ t.ci[d].base >= 2  BY <3>1, NestedFacts
    <3>7. t.ci[d].base < t.base  BY <3>4, <3>5, <3>6
    <3>8. t.ci[d].base \in 1..Len(t.stack)  BY <2>1, <3>6, ThreadFacts
    <3> QED  BY <2>1, <3>7, <3>8
  <2> QED  BY <2>3, <2>4
<1>3. u.base = u.ci[Len(u.ci)].base  BY DEF Sound, Regrown, SameCalls
<1>4. \A d \in 1..Len(u.ci) : u.ci[d].top <= StackLast(u)
  <2> SUFFICES ASSUME NEW d \in 1..Len(t.ci) PROVE t.ci[d].top <= StackLast(u)  BY DEF Regrown, SameCalls
  <2>1. t.ci[d].top <= StackLast(t) /\ t.ci[d].top \in Nat  BY ThreadFacts DEF Sound
  <2>2. StackLast(t) <= StackLast(u) /\ StackLast(t) \in Int /\ StackLast(u) \in Int
    BY SMTT(30), ThreadFacts, Constants DEF Regrown
  <2> QED  BY <2>1, <2>2
<1> QED  BY <1>1, <1>2, <1>3, <1>4 DEF Sound

\* luaD_checkstack makes the room it was asked for.
LEMMA CheckStackFacts ==
    ASSUME NEW t \in ThreadT, NEW n \in Nat, Len(t.stack) <= StackLast(t)
    PROVE  /\ CheckStack(t, n) \in ThreadT /\ Regrown(t, CheckStack(t, n)) /\ CheckStack(t, n).stack = t.stack
           /\ CheckStack(t, n).sizeci = t.sizeci
           /\ Len(t.stack) + n < StackLast(CheckStack(t, n))
<1> DEFINE u == CheckStack(t, n)
<1>1. CASE StackLast(t) - Len(t.stack) <= n
  <2> DEFINE size == 1 + ExtraStack + (IF n <= t.stacksize THEN 2 * t.stacksize ELSE t.stacksize + n)
  <2>1. u = [t EXCEPT !.stacksize = size]  BY <1>1 DEF CheckStack, GrowStack
  <2>2. t.stacksize \in Nat /\ ExtraStack \in Nat /\ Len(t.stack) \in Nat /\ StackLast(t) = t.stacksize - ExtraStack - 1
    BY ThreadFacts, Constants
  <2>3. size \in Nat /\ size >= t.stacksize /\ Len(t.stack) + n < size - ExtraStack - 1
    <3>1. CASE n <= t.stacksize  BY SMTT(30), <2>2, <3>1
    <3>2. CASE n > t.stacksize  BY SMTT(30), <2>2, <3>2
    <3> QED  BY <2>2, <3>1, <3>2
  <2> HIDE DEF size, u
  <2>4. u \in ThreadT /\ u.stacksize = size /\ u.stack = t.stack /\ SameCalls(t, u) /\ u.open = t.open /\ u.sizeci = t.sizeci
    BY <2>1, <2>3 DEF ThreadT, SameCalls
  <2>5. StackLast(u) = size - ExtraStack - 1  BY <2>4 DEF StackLast
  <2> QED  BY <2>3, <2>4, <2>5 DEF u, Regrown
<1>2. CASE ~ (StackLast(t) - Len(t.stack) <= n)
  <2>1. u = t  BY <1>2 DEF CheckStack
  <2>2. Len(t.stack) + n < StackLast(t)  BY <1>2, ThreadFacts
  <2> QED  BY <2>1, <2>2, ThreadFacts DEF Regrown, SameCalls
<1> QED  BY <1>1, <1>2

\* A larger stack for the same values.
LEMMA CheckStackSound ==
    ASSUME NEW t \in ThreadT, NEW n \in Nat, Sound(t), Fits(t)
    PROVE  /\ CheckStack(t, n) \in ThreadT /\ Regrown(t, CheckStack(t, n)) /\ CheckStack(t, n).stack = t.stack
           /\ CheckStack(t, n).sizeci = t.sizeci
           /\ Len(t.stack) + n < StackLast(CheckStack(t, n))
           /\ Sound(CheckStack(t, n)) /\ Fits(CheckStack(t, n))
<1> DEFINE u == CheckStack(t, n)
<1>1. Len(t.stack) <= StackLast(t) /\ Len(t.stack) \in Nat /\ StackLast(t) \in Int  BY ThreadFacts DEF Fits
<1>2. u \in ThreadT /\ Regrown(t, u) /\ u.stack = t.stack /\ Len(t.stack) + n < StackLast(u) /\ u.sizeci = t.sizeci
  BY <1>1, CheckStackFacts
<1> HIDE DEF u
<1>3. u.base <= Len(u.stack) + 1  BY <1>2 DEF Regrown, SameCalls, Sound
<1>4. t.ci[Len(t.ci)].lua => t.base <= Len(t.stack)  BY BaseFacts
<1>5. Sound(u)  BY <1>2, <1>3, <1>4, SoundRestack
<1>6. Fits(u)  BY <1>1, <1>2, ThreadFacts DEF Fits
<1> QED  BY <1>2, <1>5, <1>6 DEF u

\* Values are put on top of the stack.
LEMMA ConcatSound ==
    ASSUME NEW t \in ThreadT, Sound(t), NEW vals \in Seq(Int)
    PROVE  /\ [t EXCEPT !.stack = @ \o vals] \in ThreadT /\ Sound([t EXCEPT !.stack = @ \o vals])
           /\ Regrown(t, [t EXCEPT !.stack = @ \o vals]) /\ [t EXCEPT !.stack = @ \o vals].stacksize = t.stacksize
           /\ [t EXCEPT !.stack = @ \o vals].sizeci = t.sizeci
           /\ Len([t EXCEPT !.stack = @ \o vals].stack) = Len(t.stack) + Len(vals)
           /\ StackLast([t EXCEPT !.stack = @ \o vals]) = StackLast(t)
<1> DEFINE s == t.stack \o vals
           u == [t EXCEPT !.stack = s]
<1>1. /\ s \in Seq(Int) /\ Len(s) = Len(t.stack) + Len(vals) /\ Len(vals) \in Nat /\ Len(t.stack) \in Nat
      /\ \A i \in 1..Len(t.stack) : s[i] = t.stack[i]
  BY ConcatProperties, ThreadFacts, LenProperties
<1> HIDE DEF s
<1>2. u \in ThreadT /\ u.stack = s /\ Regrown(t, u) /\ u.stacksize = t.stacksize /\ u.sizeci = t.sizeci
  <2>1. u \in ThreadT  BY <1>1 DEF ThreadT
  <2>2. u.stack = s /\ SameCalls(t, u) /\ u.open = t.open /\ u.stacksize = t.stacksize /\ u.sizeci = t.sizeci
    BY DEF ThreadT, SameCalls
  <2>3. t.stacksize >= t.stacksize  BY ThreadFacts
  <2> QED  BY <2>1, <2>2, <2>3 DEF Regrown
<1> HIDE DEF u
<1>3. u.base <= Len(u.stack) + 1
  <2>1. u.base = t.base  BY <1>2 DEF Regrown, SameCalls
  <2>2. t.base \in Nat /\ t.base <= Len(t.stack) + 1  BY BaseFacts
  <2> QED  BY <1>1, <1>2, <2>1, <2>2
<1>4. /\ t.base >= 2 /\ t.base \in Nat /\ t.base <= Len(t.stack) + 1
      /\ t.ci[Len(t.ci)].lua => t.base <= Len(t.stack)
  BY BaseFacts
<1>5. Sound(u)
  <2>1. \A i \in 1..Len(t.stack) : i < t.base => i <= Len(u.stack) /\ u.stack[i] = t.stack[i]  BY <1>1, <1>2
  <2>2. t.ci[Len(t.ci)].lua => t.base <= Len(u.stack) /\ u.stack[t.base] = t.stack[t.base]  BY SMTT(30), <1>1, <1>2, <1>4
  <2> QED  BY <1>2, <1>3, <2>1, <2>2, SoundRestack
<1>6. StackLast(u) = StackLast(t)  BY <1>2 DEF StackLast
<1> QED  BY <1>1, <1>2, <1>5, <1>6 DEF u, s

\* A thread with another stack of values.
LEMMA Restacked ==
    ASSUME NEW t \in ThreadT, NEW s \in Seq(Int)
    PROVE  LET u == [t EXCEPT !.stack = s]
           IN /\ u \in ThreadT /\ u.stack = s /\ SameCalls(t, u) /\ u.open = t.open /\ u.stacksize = t.stacksize
              /\ u.sizeci = t.sizeci /\ Regrown(t, u) /\ StackLast(u) = StackLast(t)
<1> DEFINE u == [t EXCEPT !.stack = s]
<1>1. u \in ThreadT  BY DEF ThreadT
<1>2. u.stack = s /\ SameCalls(t, u) /\ u.open = t.open /\ u.stacksize = t.stacksize /\ u.sizeci = t.sizeci
  BY DEF ThreadT, SameCalls
<1>3. t.stacksize >= t.stacksize  BY ThreadFacts
<1>4. StackLast(u) = StackLast(t)  BY <1>2 DEF StackLast
<1> HIDE DEF u
<1>5. Regrown(t, u)  BY <1>2, <1>3 DEF Regrown
<1> QED  BY <1>1, <1>2, <1>4, <1>5 DEF u

\* One value is put on top.
LEMMA PutSound ==
    ASSUME NEW t \in ThreadT, Sound(t), NEW v \in Int
    PROVE  /\ Put(t, v) \in ThreadT /\ Sound(Put(t, v)) /\ Regrown(t, Put(t, v)) /\ Put(t, v).sizeci = t.sizeci
           /\ Len(Put(t, v).stack) = Len(t.stack) + 1 /\ StackLast(Put(t, v)) = StackLast(t)
<1>1. t.stack \in Seq(Int)  BY ThreadFacts
<1>2. Append(t.stack, v) = t.stack \o <<v>>  BY <1>1, AppendIsConcat
<1>3. <<v>> \in Seq(Int) /\ Len(<<v>>) = 1  OBVIOUS
<1>4. Put(t, v) = [t EXCEPT !.stack = @ \o <<v>>]  BY <1>2 DEF Put
<1> QED  BY <1>3, <1>4, ConcatSound

\* incr_top.
LEMMA PushSound ==
    ASSUME NEW t \in ThreadT, Sound(t), Fits(t), NEW v \in Int
    PROVE  /\ Push(t, v) \in ThreadT /\ Sound(Push(t, v)) /\ Regrown(t, Push(t, v)) /\ Fits(Push(t, v))
           /\ Len(Push(t, v).stack) = Len(t.stack) + 1 /\ Push(t, v).sizeci = t.sizeci
<1> DEFINE c == CheckStack(t, 1)
<1>1. /\ c \in ThreadT /\ Regrown(t, c) /\ c.stack = t.stack /\ Sound(c) /\ Len(t.stack) + 1 < StackLast(c)
      /\ c.sizeci = t.sizeci
  BY CheckStackSound
<1> HIDE DEF c
<1>2. /\ Put(c, v) \in ThreadT /\ Sound(Put(c, v)) /\ Regrown(c, Put(c, v)) /\ Put(c, v).sizeci = c.sizeci
      /\ Len(Put(c, v).stack) = Len(c.stack) + 1 /\ StackLast(Put(c, v)) = StackLast(c)
  BY <1>1, PutSound
<1>3. Push(t, v) = Put(c, v)  BY DEF Push, c
<1>4. Regrown(t, Put(c, v))
  <2>1. /\ t.stacksize \in Nat /\ c.stacksize \in Nat /\ Put(c, v).stacksize \in Nat  BY <1>1, <1>2, ThreadFacts
  <2> QED  BY <1>1, <1>2, <2>1 DEF Regrown, SameCalls
<1> QED  BY <1>1, <1>2, <1>3, <1>4 DEF Fits

\* The values up to keep stay, and the rest up to top is nil.
LEMMA FillFacts ==
    ASSUME NEW t \in ThreadT, NEW keep \in 0..Len(t.stack), NEW top \in Nat, top >= 1
    PROVE  LET u == Fill(t, keep, top)
           IN /\ u \in ThreadT /\ Regrown(t, u) /\ u.open = t.open /\ u.stacksize = t.stacksize /\ u.sizeci = t.sizeci
              /\ Len(u.stack) = top - 1 /\ StackLast(u) = StackLast(t)
              /\ \A i \in 1..(top - 1) : i <= keep => u.stack[i] = t.stack[i]
<1> DEFINE s == [i \in 1..(top - 1) |-> IF i <= keep THEN t.stack[i] ELSE Nil]
           u == [t EXCEPT !.stack = s]
<1>1. top - 1 \in Nat  OBVIOUS
<1>2. \A i \in 1..(top - 1) : i <= keep => t.stack[i] \in Int
  <2> SUFFICES ASSUME NEW i \in 1..(top - 1), i <= keep PROVE t.stack[i] \in Int  OBVIOUS
  <2>1. i \in 1..Len(t.stack) /\ t.stack \in Seq(Int)  BY ThreadFacts
  <2> QED  BY <2>1, ElementOfSeq
<1>3. s \in [1..(top - 1) -> Int]  BY <1>2 DEF Nil
<1>4. s \in Seq(Int) /\ Len(s) = top - 1  BY <1>1, <1>3, FunctionIsSeq
<1>5. \A i \in 1..(top - 1) : i <= keep => s[i] = t.stack[i]  OBVIOUS
<1> HIDE DEF s
<1>6. /\ u \in ThreadT /\ u.stack = s /\ Regrown(t, u) /\ StackLast(u) = StackLast(t) /\ u.sizeci = t.sizeci
      /\ u.open = t.open /\ u.stacksize = t.stacksize
  BY <1>4, Restacked
<1>7. Fill(t, keep, top) = u  BY DEF Fill, s
<1> HIDE DEF u
<1> QED  BY <1>4, <1>5, <1>6, <1>7

\* No local is lost by that.
LEMMA FillSound ==
    ASSUME NEW t \in ThreadT, Sound(t), NEW keep \in 0..Len(t.stack), NEW top \in Nat, t.base <= top,
           t.base <= keep + 1, t.ci[Len(t.ci)].lua => t.base <= keep /\ t.base < top
    PROVE  /\ Fill(t, keep, top) \in ThreadT /\ Sound(Fill(t, keep, top)) /\ Regrown(t, Fill(t, keep, top))
           /\ Len(Fill(t, keep, top).stack) = top - 1 /\ StackLast(Fill(t, keep, top)) = StackLast(t)
           /\ Fill(t, keep, top).sizeci = t.sizeci
<1> DEFINE u == Fill(t, keep, top)
<1>0. t.base \in Nat /\ t.base >= 2 /\ Len(t.stack) \in Nat /\ top >= 1  BY BaseFacts, ThreadFacts
<1>1. /\ u \in ThreadT /\ Regrown(t, u) /\ u.sizeci = t.sizeci
      /\ Len(u.stack) = top - 1 /\ StackLast(u) = StackLast(t)
      /\ \A i \in 1..(top - 1) : i <= keep => u.stack[i] = t.stack[i]
  BY <1>0, FillFacts
<1> HIDE DEF u
<1>2. u.base <= Len(u.stack) + 1  BY <1>0, <1>1 DEF Regrown, SameCalls
<1>3. \A i \in 1..Len(t.stack) : i < t.base => i <= Len(u.stack) /\ u.stack[i] = t.stack[i]  BY <1>0, <1>1
<1>4. t.ci[Len(t.ci)].lua => t.base <= Len(u.stack) /\ u.stack[t.base] = t.stack[t.base]  BY <1>0, <1>1
<1>5. Sound(u)  BY <1>1, <1>2, <1>3, <1>4, SoundRestack
<1> QED  BY <1>1, <1>5 DEF u

\* lua_settop, also of a thread that died.
LEMMA SetTopSound ==
    ASSUME NEW t \in ThreadT, Sound(t), NEW top \in Nat, t.base <= top, t.ci[Len(t.ci)].lua => t.base < top
    PROVE  /\ SetTop(t, top) \in ThreadT /\ Sound(SetTop(t, top)) /\ Regrown(t, SetTop(t, top))
           /\ Len(SetTop(t, top).stack) = top - 1 /\ StackLast(SetTop(t, top)) = StackLast(t)
           /\ SetTop(t, top).sizeci = t.sizeci
<1>1. Len(t.stack) \in 0..Len(t.stack)  BY ThreadFacts
<1>2. t.base <= Len(t.stack) + 1 /\ (t.ci[Len(t.ci)].lua => t.base <= Len(t.stack))  BY BaseFacts
<1>3. /\ t.base <= Len(t.stack) + 1
      /\ t.ci[Len(t.ci)].lua => t.base <= Len(t.stack) /\ t.base < top
  BY <1>2
<1> DEFINE keep == Len(t.stack)
<1> HIDE DEF keep
<1>4. keep \in 0..Len(t.stack) /\ t.base <= keep + 1 /\ (t.ci[Len(t.ci)].lua => t.base <= keep /\ t.base < top)
  BY <1>1, <1>3 DEF keep
<1>5. SetTop(t, top) = Fill(t, keep, top)  BY DEF SetTop, keep
<1> QED  BY <1>4, <1>5, FillSound

\* A Lua function goes on: it has its registers and no more.
LEMMA ContinueSound ==
    ASSUME NEW t \in ThreadT, Sound(t), t.ci[Len(t.ci)].lua
    PROVE  /\ Continue(t) \in ThreadT /\ Sound(Continue(t)) /\ Regrown(t, Continue(t)) /\ Fits(Continue(t))
           /\ Len(Continue(t).stack) = t.ci[Len(t.ci)].top - 1 /\ Continue(t).sizeci = t.sizeci
           /\ Len(Continue(t).stack) >= t.base
<1> DEFINE top == t.ci[Len(t.ci)].top
<1>1. /\ t.base = t.ci[Len(t.ci)].base /\ t.base \in Nat /\ t.base >= 2 /\ t.base <= Len(t.stack)
      /\ t.base < top /\ top <= StackLast(t) /\ top \in Nat
  BY BaseFacts
<1>2. Continue(t) = Fill(t, t.base, top)  BY <1>1 DEF Continue, CI, Last
<1> HIDE DEF top
<1>3. t.base \in 0..Len(t.stack)  BY <1>1, ThreadFacts
<1>4. /\ Fill(t, t.base, top) \in ThreadT /\ Sound(Fill(t, t.base, top)) /\ Regrown(t, Fill(t, t.base, top))
      /\ Len(Fill(t, t.base, top).stack) = top - 1 /\ StackLast(Fill(t, t.base, top)) = StackLast(t)
      /\ Fill(t, t.base, top).sizeci = t.sizeci
  <2>1. t.base <= top /\ t.base <= t.base + 1  BY <1>1
  <2> QED  BY <1>1, <1>3, <2>1, FillSound
<1>5. top - 1 < StackLast(t) /\ top - 1 >= t.base  BY <1>1, ThreadFacts
<1> QED  BY <1>2, <1>4, <1>5 DEF top, Fits

\* The values of a C function may be any above its base.
LEMMA StatusSound ==
    ASSUME NEW t \in ThreadT, Sound(t), ~ t.ci[Len(t.ci)].lua, NEW n \in Nat, t.base + n <= Len(t.stack) + 1
    PROVE  /\ PutStatus(t, n) \in ThreadT /\ Sound(PutStatus(t, n)) /\ Regrown(t, PutStatus(t, n))
           /\ Len(PutStatus(t, n).stack) = Len(t.stack) + 1 /\ StackLast(PutStatus(t, n)) = StackLast(t)
           /\ PutStatus(t, n).sizeci = t.sizeci
<1> DEFINE m == Len(t.stack) - n
           q == SubSeq(t.stack, m + 1, Len(t.stack))
           p == SubSeq(t.stack, 1, m) \o <<Value>>
           s == p \o q
<1>0. t.base \in Nat /\ t.base >= 2 /\ Len(t.stack) \in Nat /\ t.stack \in Seq(Int)  BY BaseFacts, ThreadFacts
<1>1. m \in 0..Len(t.stack) /\ m + 1 \in Int /\ m + 1 >= t.base  BY SMTT(30), <1>0
<1> HIDE DEF m
<1>2. <<Value>> \in Seq(Int) /\ Len(<<Value>>) = 1  BY DEF Value
<1>3. p \in Seq(Int) /\ Len(p) = m + 1 /\ \A i \in 1..m : p[i] = t.stack[i]
  <2> DEFINE r == <<Value>>
  <2>1. r \in Seq(Int) /\ Len(r) = 1  BY <1>2
  <2> HIDE DEF r
  <2>2. /\ SubSeq(t.stack, 1, m) \o r \in Seq(Int) /\ Len(SubSeq(t.stack, 1, m) \o r) = m + Len(r)
        /\ \A i \in 1..m : (SubSeq(t.stack, 1, m) \o r)[i] = t.stack[i]
    BY <1>0, <1>1, <2>1, PrefixConcat
  <2> QED  BY <2>1, <2>2 DEF r
<1>4. q \in Seq(Int) /\ Len(q) = Len(t.stack) - m
  <2>1. \A i \in (m + 1)..Len(t.stack) : t.stack[i] \in Int
    <3> SUFFICES ASSUME NEW i \in (m + 1)..Len(t.stack) PROVE t.stack[i] \in Int  OBVIOUS
    <3>1. i \in 1..Len(t.stack)  BY <1>1
    <3> QED  BY <3>1, <1>0, ElementOfSeq
  <2>2. Len(t.stack) \in Int  BY <1>0
  <2>3. q \in Seq(Int) /\ Len(q) = IF m + 1 <= Len(t.stack) THEN Len(t.stack) - (m + 1) + 1 ELSE 0
    BY <1>1, <2>1, <2>2, SubSeqProperties
  <2> HIDE DEF q
  <2> QED  BY <2>3, <1>0, <1>1
<1> HIDE DEF p, q
<1>5. /\ s \in Seq(Int) /\ Len(s) = Len(p) + Len(q)
      /\ \A i \in 1..(Len(p) + Len(q)) : s[i] = IF i <= Len(p) THEN p[i] ELSE q[i - Len(p)]
  BY <1>3, <1>4, ConcatProperties
<1> HIDE DEF s
<1>a. PICK k : k = m  OBVIOUS
<1>b. PICK l : l = Len(t.stack)  OBVIOUS
<1>c. PICK lp : lp = Len(p)  OBVIOUS
<1>d. PICK lq : lq = Len(q)  OBVIOUS
<1>e. k \in Nat /\ l \in Nat /\ lp = k + 1 /\ lq = l - k /\ k <= l  BY <1>0, <1>1, <1>3, <1>4, <1>a, <1>b, <1>c, <1>d
<1>f. lp \in Nat /\ lq \in Nat /\ lp + lq = l + 1 /\ k <= lp  BY <1>e
<1>6. Len(s) = Len(t.stack) + 1 /\ \A i \in 1..m : s[i] = t.stack[i]
  <2>1. Len(s) = Len(t.stack) + 1  BY <1>5, <1>f, <1>b, <1>c, <1>d
  <2>2. ASSUME NEW i \in 1..k PROVE s[i] = t.stack[i]
    <3>1. i \in 1..(lp + lq) /\ i <= lp  BY <1>e, <1>f
    <3>2. s[i] = p[i]  BY <3>1, <1>5, <1>c, <1>d
    <3> QED  BY <3>2, <1>3, <1>a
  <2> QED  BY <2>1, <2>2, <1>a
<1>7. PutStatus(t, n) = [t EXCEPT !.stack = s]  BY DEF PutStatus, s, p, q, m
<1> DEFINE u == [t EXCEPT !.stack = s]
<1>8. u \in ThreadT /\ u.stack = s /\ Regrown(t, u) /\ StackLast(u) = StackLast(t) /\ u.sizeci = t.sizeci
  BY <1>5, Restacked
<1> HIDE DEF u
<1>9. Sound(u)
  <2>1. u.base <= Len(u.stack) + 1  BY <1>0, <1>6, <1>8, BaseFacts DEF Regrown, SameCalls
  <2>2. \A i \in 1..Len(t.stack) : i < t.base => i <= Len(u.stack) /\ u.stack[i] = t.stack[i]
    BY SMTT(30), <1>0, <1>1, <1>6, <1>8
  <2> QED  BY <1>8, <2>1, <2>2, SoundRestack
<1> QED  BY <1>6, <1>7, <1>8, <1>9 DEF u

\* A thread with another top of its last CallInfo.
LEMMA Retopped ==
    ASSUME NEW t \in ThreadT, Len(t.ci) >= 1, NEW v \in Nat, v >= t.ci[Len(t.ci)].top
    PROVE  LET u == [t EXCEPT !.ci[Len(t.ci)].top = v]
           IN /\ u \in ThreadT /\ Shares(t, u) /\ u.base = t.base /\ u.stack = t.stack /\ u.open = t.open
              /\ u.stacksize = t.stacksize /\ u.sizeci = t.sizeci /\ SameInfos(t, u) /\ u.ci[Len(t.ci)].top = v
<1> DEFINE n == Len(t.ci)
           e == [t.ci[n] EXCEPT !.top = v]
           c == [t.ci EXCEPT ![n] = e]
           u == [t EXCEPT !.ci = c]
<1>1. n \in 1..Len(t.ci) /\ t.ci \in Seq(CallInfo) /\ t.ci[n] \in CallInfo  BY ThreadFacts
<1>2. e \in CallInfo /\ e.func = t.ci[n].func /\ e.base = t.ci[n].base /\ e.nres = t.ci[n].nres
      /\ e.lua = t.ci[n].lua /\ e.top = v
  BY <1>1 DEF CallInfo
<1> HIDE DEF e
<1>3. c \in Seq(CallInfo) /\ Len(c) = Len(t.ci) /\ \A d \in 1..Len(t.ci) : c[d] = IF d = n THEN e ELSE t.ci[d]
  BY <1>1, <1>2, ExceptSeq
<1> HIDE DEF c
<1>4. u \in ThreadT /\ u.ci = c /\ Shares(t, u) /\ u.base = t.base /\ u.stack = t.stack /\ u.open = t.open
      /\ u.stacksize = t.stacksize /\ u.sizeci = t.sizeci
  BY <1>3 DEF ThreadT, Shares
<1>5. u = [t EXCEPT !.ci[Len(t.ci)].top = v]  BY DEF c, e, ThreadT
<1> HIDE DEF u
<1>6. SameInfos(t, u)
  <2>1. \A d \in 1..Len(t.ci) : t.ci[d].top \in Nat  BY ThreadFacts
  <2> QED  BY <1>2, <1>3, <1>4, <2>1 DEF SameInfos
<1>7. u.ci[Len(t.ci)].top = v  BY <1>1, <1>2, <1>3, <1>4
<1> QED  BY <1>4, <1>5, <1>6, <1>7

\* The order of the calls is the same.
LEMMA NestedSame ==
    ASSUME NEW t \in ThreadT, NEW u \in ThreadT, Nested(t.ci), SameInfos(t, u), u.open \subseteq t.open
    PROVE  Nested(u.ci) /\ (Owned(t) => Owned(u))
<1>1. \A d \in 1..Len(t.ci) : t.ci[d].top \in Nat /\ u.ci[d].top \in Nat /\ t.ci[d].base \in Nat
  BY ThreadFacts DEF SameInfos
<1>2. Len(u.ci) >= 1  BY DEF Nested, SameInfos
<1>3. \A d \in 1..Len(u.ci) : 1 <= u.ci[d].func /\ u.ci[d].func < u.ci[d].base /\ u.ci[d].base < u.ci[d].top
  BY SMTT(30), <1>1 DEF Nested, SameInfos
<1>4. \A d, e \in 1..Len(u.ci) : d < e => u.ci[d].base <= u.ci[e].func /\ (u.ci[d].lua => u.ci[d].base < u.ci[e].func)
  <2> SUFFICES ASSUME NEW d \in 1..Len(u.ci), NEW e \in 1..Len(u.ci), d < e
               PROVE  u.ci[d].base <= u.ci[e].func /\ (u.ci[d].lua => u.ci[d].base < u.ci[e].func)
    OBVIOUS
  <2>1. d \in 1..Len(t.ci) /\ e \in 1..Len(t.ci)  BY DEF SameInfos
  <2>2. t.ci[d].base <= t.ci[e].func /\ (t.ci[d].lua => t.ci[d].base < t.ci[e].func)  BY <2>1 DEF Nested
  <2> QED  BY <2>1, <2>2 DEF SameInfos
<1>5. Owned(t) => Owned(u)  BY DEF Owned, SameInfos
<1> QED  BY <1>2, <1>3, <1>4, <1>5 DEF Nested

\* The room that lua_checkstack makes.
LEMMA CheckStackCFacts ==
    ASSUME NEW t \in ThreadT, Len(t.ci) >= 1, NEW n \in Nat, Len(t.stack) <= StackLast(t)
    PROVE  LET u == CheckStackC(t, n)
           IN /\ u \in ThreadT /\ Shares(t, u) /\ u.base = t.base /\ u.stack = t.stack /\ u.open = t.open
              /\ u.stacksize >= t.stacksize /\ SameInfos(t, u) /\ Fits(u)
              /\ Len(t.stack) + 1 + n <= StackLast(u)
              /\ u.ci[Len(t.ci)].top >= Len(t.stack) + 1 + n
              /\ u.ci[Len(t.ci)].top = t.ci[Len(t.ci)].top \/ u.ci[Len(t.ci)].top <= StackLast(u)
<1> DEFINE c == CheckStack(t, n)
           old == c.ci[Len(c.ci)].top
           new == Top(c) + n
           v == Max({old, new})
           u == [c EXCEPT !.ci[Len(c.ci)].top = v]
<1>1. Len(t.stack) \in Nat /\ StackLast(t) \in Int /\ Len(t.stack) <= StackLast(t)  BY ThreadFacts
<1>2. c \in ThreadT /\ Regrown(t, c) /\ c.stack = t.stack /\ Len(t.stack) + n < StackLast(c)
  BY <1>1, CheckStackFacts
<1>3. c.ci = t.ci /\ Shares(t, c) /\ c.base = t.base /\ c.open = t.open /\ c.stacksize >= t.stacksize
  BY <1>2 DEF Regrown, SameCalls, Shares
<1>4. CheckStackC(t, n) = u  BY DEF CheckStackC
<1> HIDE DEF c
<1>5. old \in Nat /\ new \in Nat /\ new = Len(t.stack) + 1 + n
  <2>1. Len(c.ci) \in 1..Len(c.ci)  BY <1>2, <1>3, ThreadFacts
  <2>2. old \in Nat  BY <1>2, <2>1, ThreadFacts
  <2>3. new = Len(t.stack) + 1 + n  BY <1>1, <1>2 DEF Top
  <2> QED  BY <1>1, <2>2, <2>3
<1>6. old = t.ci[Len(t.ci)].top  BY <1>3
<1> HIDE DEF old, new
<1>7. v \in {old, new} /\ v >= old /\ v >= new /\ v \in Nat
  <2>1. CASE old <= new
    <3>1. {old, new} \subseteq Int /\ new \in {old, new} /\ \A x \in {old, new} : x <= new  BY <1>5, <2>1
    <3>2. v = new  BY <3>1, MaxIs
    <3> QED  BY <3>2, <1>5, <2>1
  <2>2. CASE ~ (old <= new)
    <3>1. {old, new} \subseteq Int /\ old \in {old, new} /\ \A x \in {old, new} : x <= old  BY <1>5, <2>2
    <3>2. v = old  BY <3>1, MaxIs
    <3> QED  BY <3>2, <1>5, <2>2
  <2> QED  BY <2>1, <2>2
<1> HIDE DEF v
<1>8. /\ u \in ThreadT /\ Shares(c, u) /\ u.base = c.base /\ u.stack = c.stack /\ u.open = c.open
      /\ u.stacksize = c.stacksize /\ SameInfos(c, u) /\ u.ci[Len(c.ci)].top = v
  <2>1. Len(c.ci) >= 1 /\ v >= c.ci[Len(c.ci)].top  BY <1>3, <1>6, <1>7
  <2> QED  BY <1>2, <1>7, <2>1, Retopped
<1> HIDE DEF u
<1>9. SameInfos(t, u) /\ Shares(t, u)  BY <1>3, <1>8 DEF SameInfos, Shares
<1>10. StackLast(u) = StackLast(c) /\ StackLast(c) \in Int  BY <1>2, <1>8, ThreadFacts DEF StackLast
<1>11. Len(t.stack) + 1 + n <= StackLast(u) /\ Fits(u)  BY <1>1, <1>2, <1>8, <1>10 DEF Fits
<1>12. /\ u.ci[Len(t.ci)].top >= Len(t.stack) + 1 + n
       /\ u.ci[Len(t.ci)].top = t.ci[Len(t.ci)].top \/ u.ci[Len(t.ci)].top <= StackLast(u)
  BY <1>3, <1>5, <1>6, <1>7, <1>8, <1>11
<1> QED  BY <1>2, <1>3, <1>4, <1>8, <1>9, <1>11, <1>12

\* A C function may ask for it, or a thread that died be asked.
LEMMA CheckStackCSound ==
    ASSUME NEW t \in ThreadT, NEW n \in Nat, Len(t.stack) <= StackLast(t), Nested(t.ci)
    PROVE  LET u == CheckStackC(t, n)
           IN /\ Sound(t) /\ ~ t.ci[Len(t.ci)].lua => Sound(u)
              /\ Dead(t) => Dead(u)
<1> DEFINE u == CheckStackC(t, n)
           k == Len(t.ci)
<1>1. k \in Nat /\ k >= 1 /\ k \in 1..Len(t.ci)  BY ThreadFacts, NestedFacts
<1>2. /\ u \in ThreadT /\ Shares(t, u) /\ u.base = t.base /\ u.stack = t.stack /\ u.open = t.open
      /\ u.stacksize >= t.stacksize /\ SameInfos(t, u) /\ Fits(u)
      /\ u.ci[k].top = t.ci[k].top \/ u.ci[k].top <= StackLast(u)
  BY <1>1, CheckStackCFacts
<1> HIDE DEF u
<1>3. Nested(u.ci) /\ (Owned(t) => Owned(u))  BY <1>2, NestedSame
<1>4. StackLast(t) \in Int /\ StackLast(u) \in Int /\ StackLast(t) <= StackLast(u)
  BY SMTT(30), <1>2, ThreadFacts, Constants
<1>5. \A d \in 1..Len(u.ci) : d \in 1..Len(t.ci) /\ u.ci[d].top \in Nat
                              /\ (u.ci[d].top = t.ci[d].top \/ u.ci[d].top <= StackLast(u))
  BY <1>2, ThreadFacts DEF SameInfos
<1>6. ASSUME Sound(t), ~ t.ci[Len(t.ci)].lua PROVE Sound(u)
  <2>1. Locals(u)
    <3> SUFFICES ASSUME NEW d \in 1..Len(u.ci), u.ci[d].lua
                 PROVE  /\ u.ci[d].base <= Len(u.stack) /\ u.stack[u.ci[d].base] = Local(d)
                        /\ u.ci[d].top = u.ci[d].base + MaxStack
      BY DEF Locals
    <3>1. d \in 1..Len(t.ci) /\ t.ci[d].lua /\ t.ci[d].base = u.ci[d].base  BY <1>2 DEF SameInfos
    <3>2. d # Len(t.ci)  BY <1>6, <3>1
    <3>3. u.ci[d].top = t.ci[d].top  BY <1>2, <3>1, <3>2 DEF SameInfos
    <3> QED  BY <1>2, <1>6, <3>1, <3>3 DEF Sound, Locals
  <2>2. u.base = u.ci[Len(u.ci)].base /\ u.base <= Len(u.stack) + 1  BY <1>1, <1>2, <1>6 DEF Sound, SameInfos
  <2>3. \A d \in 1..Len(u.ci) : u.ci[d].top <= StackLast(u)  BY SMTT(30), <1>4, <1>5, <1>6 DEF Sound
  <2> QED  BY <1>3, <1>6, <2>1, <2>2, <2>3 DEF Sound
<1>7. ASSUME Dead(t) PROVE Dead(u)
  <2>1. \A d \in 1..Len(u.ci) : u.ci[d].top - 1 <= StackLast(u)  BY SMTT(30), <1>4, <1>5, <1>7 DEF Dead
  <2> QED  BY <1>3, <1>7, <2>1 DEF Dead
<1> QED  BY <1>6, <1>7 DEF u

\* luaF_close.
LEMMA CloseSound ==
    ASSUME NEW t \in ThreadT, Sound(t), NEW level
    PROVE  LET u == LuaFClose(t, level)
           IN /\ u \in ThreadT /\ Sound(u) /\ SameCalls(t, u) /\ u.stack = t.stack /\ StackLast(u) = StackLast(t)
              /\ u.sizeci = t.sizeci /\ u.stacksize = t.stacksize
              /\ \A x \in u.open : x \in t.open /\ x < level
<1> DEFINE u == LuaFClose(t, level)
<1>1. u = [t EXCEPT !.open = {x \in t.open : x < level}]  BY DEF LuaFClose
<1>2. {x \in t.open : x < level} \subseteq Nat  BY ThreadFacts
<1>3. /\ u \in ThreadT /\ SameCalls(t, u) /\ u.stack = t.stack /\ u.stacksize = t.stacksize /\ u.sizeci = t.sizeci
      /\ u.open = {x \in t.open : x < level}
  BY <1>1, <1>2 DEF ThreadT, SameCalls
<1> HIDE DEF u
<1>4. StackLast(u) = StackLast(t)  BY <1>3 DEF StackLast
<1>5. Sound(u)  BY <1>3, <1>4 DEF Sound, SameCalls, Owned, Locals
<1> QED  BY <1>3, <1>4, <1>5 DEF u

\* luaD_poscall: the function and its values give way to its results.
LEMMA PoscallSound ==
    ASSUME NEW t \in ThreadT, Sound(t), Len(t.ci) >= 2, Len(t.stack) <= StackLast(t),
           NEW first \in Nat, t.base <= first, first <= Len(t.stack) + 1,
           t.ci[Len(t.ci)].lua => \A x \in t.open : x < t.base
    PROVE  LET u == Poscall(t, first)
           IN /\ u \in ThreadT /\ Sound(u) /\ Fits(u) /\ Shares(t, u) /\ u.ci = Front(t.ci)
              /\ t.ci[Len(t.ci)].func <= Len(u.stack) + 1 /\ Len(u.stack) < Len(t.stack) + 1
              /\ u.stacksize = t.stacksize /\ u.sizeci = t.sizeci /\ u.open = t.open
              /\ \A i \in 1..(t.ci[Len(t.ci)].func - 1) : u.stack[i] = t.stack[i]
<1> DEFINE n == Len(t.ci)
           c == t.ci[n]
           res == Results(t, first)
           s == SubSeq(t.stack, 1, c.func - 1) \o res
           u == Poscall(t, first)
<1>a. PICK l : l = Len(t.stack)  OBVIOUS
<1>b. PICK fn : fn = c.func  OBVIOUS
<1>c. PICK base : base = t.base  OBVIOUS
<1>d. PICK last : last = StackLast(t)  OBVIOUS
<1>1. /\ n \in Nat /\ n >= 2 /\ l \in Nat /\ base \in Nat /\ base <= l + 1 /\ fn \in Nat /\ fn >= 1 /\ fn < base
      /\ last \in Int /\ base < last /\ l <= last
  BY SMTT(30), BaseFacts, ThreadFacts, <1>a, <1>b, <1>c, <1>d
<1>2. base <= first /\ first <= l + 1  BY <1>a, <1>c
<1>3. c.nres \in {0, 1, MULTRET} /\ t.stack \in Seq(Int) /\ t.ci \in Seq(CallInfo)
  <2>1. n \in 1..Len(t.ci)  BY <1>1
  <2> QED  BY <2>1, ThreadFacts
<1>4. PICK k \in Nat : res \in Seq(Int) /\ Len(res) = k /\ fn - 1 + k < last /\ fn - 1 + k < l + 1
  <2> DEFINE q == SubSeq(t.stack, first, Len(t.stack))
  <2>1. q \in Seq(Int) /\ Len(q) = l + 1 - first
    <3>1. \A i \in first..l : t.stack[i] \in Int
      <4> SUFFICES ASSUME NEW i \in first..l PROVE t.stack[i] \in Int  OBVIOUS
      <4>1. i \in 1..Len(t.stack)  BY <1>1, <1>2, <1>a
      <4> QED  BY <4>1, <1>3, ElementOfSeq
    <3>2. first \in Int /\ l \in Int  BY <1>1
    <3>3. /\ SubSeq(t.stack, first, l) \in Seq(Int)
          /\ Len(SubSeq(t.stack, first, l)) = IF first <= l THEN l - first + 1 ELSE 0
      BY <3>1, <3>2, SubSeqProperties
    <3>4. (IF first <= l THEN l - first + 1 ELSE 0) = l + 1 - first  BY <1>1, <1>2
    <3> QED  BY <3>3, <3>4, <1>a
  <2> HIDE DEF q
  <2>2. res = IF c.nres = MULTRET THEN q ELSE [i \in 1..c.nres |-> IF i <= Len(q) THEN q[i] ELSE Nil]
    BY DEF Results, CI, Last, q
  <2> HIDE DEF c, res
  <2>3. CASE c.nres = MULTRET
    <3>1. res \in Seq(Int) /\ Len(res) = l + 1 - first  BY <2>1, <2>2, <2>3
    <3>2. l + 1 - first \in Nat /\ fn - 1 + (l + 1 - first) < last /\ fn - 1 + (l + 1 - first) < l + 1  BY <1>1, <1>2
    <3> QED  BY <3>1, <3>2
  <2>4. CASE c.nres # MULTRET
    <3>1. c.nres \in {0, 1}  BY <2>4, <1>3
    <3>2. \A i \in 1..c.nres : i <= Len(q) => q[i] \in Int
      <4> SUFFICES ASSUME NEW i \in 1..c.nres, i <= Len(q) PROVE q[i] \in Int  OBVIOUS
      <4>1. i \in 1..Len(q)  BY <3>1, <2>1, LenProperties
      <4> QED  BY <4>1, <2>1, ElementOfSeq
    <3>3. res \in [1..c.nres -> Int]  BY <2>2, <2>4, <3>2 DEF Nil
    <3>4. res \in Seq(Int) /\ Len(res) = c.nres  BY <3>1, <3>3, FunctionIsSeq
    <3>5. c.nres \in Nat /\ fn - 1 + c.nres < last /\ fn - 1 + c.nres < l + 1  BY <3>1, <1>1
    <3> QED  BY <3>4, <3>5
  <2> QED  BY <2>3, <2>4
<1>5. s \in Seq(Int) /\ Len(s) = fn - 1 + k /\ \A i \in 1..(fn - 1) : s[i] = t.stack[i]
  <2>1. fn - 1 \in 0..Len(t.stack)  BY <1>1, <1>a
  <2> HIDE DEF res
  <2> QED  BY Zenon, <2>1, <1>3, <1>4, <1>b, PrefixConcat
<1>6. /\ Front(t.ci) \in Seq(CallInfo) /\ Len(Front(t.ci)) = n - 1 /\ \A i \in 1..(n - 1) : Front(t.ci)[i] = t.ci[i]
  <2>1. Len(t.ci) >= 1  BY <1>1
  <2>2. /\ Front(t.ci) \in Seq(CallInfo) /\ Len(Front(t.ci)) = Len(t.ci) - 1
        /\ \A i \in 1..(Len(t.ci) - 1) : Front(t.ci)[i] = t.ci[i]
    BY <2>1, <1>3, FrontFacts
  <2> QED  BY <2>2
<1>7. n - 1 \in 1..Len(t.ci)  BY <1>1
<1>8. t.ci[n - 1].base \in Nat  BY <1>7, ThreadFacts
<1>9. /\ u \in ThreadT /\ u.stack = s /\ u.ci = Front(t.ci) /\ u.base = t.ci[n - 1].base /\ Shares(t, u)
      /\ u.open = t.open /\ u.stacksize = t.stacksize /\ u.sizeci = t.sizeci
  <2>1. u = [t EXCEPT !.stack = s, !.ci = Front(t.ci), !.base = t.ci[n - 1].base]  BY DEF Poscall, CI, Last
  <2> HIDE DEF s, u
  <2> QED  BY <2>1, <1>5, <1>6, <1>8 DEF ThreadT, Shares
<1> HIDE DEF s, u
<1>10. Len(u.stack) = fn - 1 + k /\ StackLast(u) = last /\ Fits(u)
  BY <1>1, <1>4, <1>5, <1>9, <1>d DEF StackLast, Fits
<1>11. /\ Len(u.ci) = n - 1 /\ \A i \in 1..(n - 1) : u.ci[i] = t.ci[i]
  BY <1>6, <1>9
<1>12. \A d \in 1..(n - 1) : d \in 1..Len(t.ci)
                             /\ t.ci[d].base \in Nat /\ t.ci[d].base >= 2
                             /\ t.ci[d].base <= fn /\ (t.ci[d].lua => t.ci[d].base < fn)
  <2>1. Nested(t.ci)  BY DEF Sound
  <2> QED  BY <1>1, <1>3, <1>b, <2>1, NestedFacts
<1>13. Sound(u)
  <2>1. Nested(u.ci)
    <3>1. Len(u.ci) >= 1  BY <1>1, <1>11
    <3>2. \A d \in 1..Len(u.ci) : 1 <= u.ci[d].func /\ u.ci[d].func < u.ci[d].base /\ u.ci[d].base < u.ci[d].top
      BY <1>11, <1>12 DEF Sound, Nested
    <3>3. \A d, e \in 1..Len(u.ci) : d < e =>
             u.ci[d].base <= u.ci[e].func /\ (u.ci[d].lua => u.ci[d].base < u.ci[e].func)
      BY <1>11, <1>12 DEF Sound, Nested
    <3> QED  BY <3>1, <3>2, <3>3 DEF Nested
  <2>2. Owned(u)
    <3> SUFFICES ASSUME NEW x \in u.open PROVE \E d \in 1..Len(u.ci) : u.ci[d].lua /\ u.ci[d].base = x  BY DEF Owned
    <3>1. PICK d \in 1..Len(t.ci) : t.ci[d].lua /\ t.ci[d].base = x  BY <1>9 DEF Sound, Owned
    <3>2. d # n
      <4>1. SUFFICES ASSUME d = n PROVE FALSE  OBVIOUS
      <4>2. x = base /\ t.ci[Len(t.ci)].lua  BY <4>1, <3>1, <1>c, BaseFacts
      <4>3. x < base  BY <4>2, <1>9, <1>c
      <4> QED  BY <4>2, <4>3, <1>1
    <3>3. d \in 1..(n - 1)  BY <3>2, <1>1
    <3> QED  BY <3>1, <3>3, <1>11
  <2>3. Locals(u)
    <3> SUFFICES ASSUME NEW d \in 1..(n - 1), t.ci[d].lua
                 PROVE  /\ t.ci[d].base <= Len(u.stack) /\ u.stack[t.ci[d].base] = Local(d)
                        /\ t.ci[d].top = t.ci[d].base + MaxStack
      BY <1>11 DEF Locals
    <3>1. t.ci[d].base \in 1..(fn - 1)  BY <1>1, <1>12
    <3>2. t.stack[t.ci[d].base] = Local(d) /\ t.ci[d].top = t.ci[d].base + MaxStack  BY <1>12 DEF Sound, Locals
    <3>3. t.ci[d].base <= fn - 1 + k
      <4>1. PICK b \in 1..(fn - 1) : b = t.ci[d].base  BY <3>1
      <4>2. b <= fn - 1 + k  BY <4>1, <1>1, <1>4
      <4> QED  BY <4>1, <4>2
    <3> QED  BY <3>1, <3>2, <3>3, <1>5, <1>9, <1>10
  <2>4. u.base = u.ci[Len(u.ci)].base /\ u.base <= Len(u.stack) + 1
    <3>1. n - 1 \in 1..(n - 1)  BY <1>1
    <3>2. u.base <= fn  BY <3>1, <1>9, <1>12
    <3>3. fn <= fn - 1 + k + 1  BY <1>1, <1>4
    <3>4. u.base \in Nat  BY <1>8, <1>9
    <3>5. u.base <= Len(u.stack) + 1  BY <3>2, <3>3, <3>4, <1>1, <1>4, <1>10
    <3> QED  BY <3>1, <3>5, <1>9, <1>11
  <2>5. \A d \in 1..Len(u.ci) : u.ci[d].top <= StackLast(u)  BY <1>10, <1>11, <1>12, <1>d DEF Sound
  <2> QED  BY <2>1, <2>2, <2>3, <2>4, <2>5 DEF Sound
<1>14. fn <= Len(u.stack) + 1 /\ Len(u.stack) < l + 1  BY <1>1, <1>4, <1>10
<1>15. \A i \in 1..(fn - 1) : u.stack[i] = t.stack[i]  BY <1>5, <1>9
<1> QED  BY <1>9, <1>10, <1>13, <1>14, <1>15, <1>a, <1>b DEF u

\* u is t with one more CallInfo, c.
Called(t, u, c) ==
    /\ t.base <= c.func /\ (t.ci[Len(t.ci)].lua => t.base < c.func) /\ c.func < c.base /\ c.base < c.top
    /\ u.ci = Append(t.ci, c) /\ u.base = c.base /\ u.open \subseteq t.open /\ StackLast(t) <= StackLast(u)
    /\ \A i \in 1..Len(t.stack) : i < c.func => i <= Len(u.stack) /\ u.stack[i] = t.stack[i]
    /\ c.base <= Len(u.stack) + 1 /\ c.top <= StackLast(u)
    /\ c.lua => /\ c.base <= Len(u.stack) /\ u.stack[c.base] = Local(Len(t.ci) + 1)
                /\ c.top = c.base + MaxStack

\* luaD_precall: a CallInfo is added.
LEMMA CalledSound ==
    ASSUME NEW t \in ThreadT, Sound(t), NEW u \in ThreadT, NEW c \in CallInfo, Called(t, u, c)
    PROVE  Sound(u)
<1>0. PICK n : n = Len(t.ci)  OBVIOUS
<1>1. t.ci \in Seq(CallInfo) /\ Nested(t.ci) /\ n \in Nat  BY <1>0, ThreadFacts DEF Sound
<1>2. Len(u.ci) = n + 1 /\ u.ci[n + 1] = c /\ \A d \in 1..n : u.ci[d] = t.ci[d]  BY <1>0, <1>1, AppendProperties DEF Called
<1>3. /\ n >= 1 /\ n \in 1..n
      /\ \A d \in 1..n : /\ t.ci[d].func \in Nat /\ t.ci[d].base \in Nat /\ t.ci[d].top \in Nat
                         /\ t.ci[d].func >= 1 /\ t.ci[d].func < t.ci[d].base /\ t.ci[d].base < t.ci[d].top
                         /\ t.ci[d].base >= 2
      /\ \A d \in 1..(n - 1) : t.ci[d].base <= t.ci[n].func /\ (t.ci[d].lua => t.ci[d].base < t.ci[n].func)
  BY <1>0, <1>1, NestedFacts
<1>4. c.func \in Nat /\ c.base \in Nat /\ c.top \in Nat /\ t.base = t.ci[n].base  BY <1>0, BaseFacts DEF CallInfo
<1>4a. /\ t.base <= c.func /\ (t.ci[Len(t.ci)].lua => t.base < c.func) /\ c.func < c.base /\ c.base < c.top
       /\ u.base = c.base /\ u.open \subseteq t.open /\ StackLast(t) <= StackLast(u) /\ c.top <= StackLast(u)
  BY DEF Called
<1>5. \A d \in 1..n : t.ci[d].base <= c.func /\ (t.ci[d].lua => t.ci[d].base < c.func)
  <2> SUFFICES ASSUME NEW d \in 1..n PROVE t.ci[d].base <= c.func /\ (t.ci[d].lua => t.ci[d].base < c.func)  OBVIOUS
  <2>1. CASE d = n  BY <2>1, <1>0, <1>4, <1>4a
  <2>2. CASE d # n
    <3>1. d \in 1..(n - 1)  BY <2>2, <1>1
    <3>2. t.ci[d].base <= t.ci[n].func /\ t.ci[n].func < t.ci[n].base  BY <3>1, <1>3
    <3>3. t.ci[d].base \in Nat /\ t.ci[n].func \in Nat /\ t.ci[n].base \in Nat  BY <1>3
    <3>4. t.ci[d].base < c.func  BY SMTT(30), <3>2, <3>3, <1>4, <1>4a
    <3> QED  BY <3>4, <3>3, <1>4
  <2> QED  BY <2>1, <2>2, <1>1
<1>6. Nested(u.ci)
  <2>1. ASSUME NEW d \in 1..(n + 1)
        PROVE  1 <= u.ci[d].func /\ u.ci[d].func < u.ci[d].base /\ u.ci[d].base < u.ci[d].top
    <3>1. CASE d = n + 1
      <4>1. t.base \in Nat /\ t.base >= 2  BY BaseFacts
      <4> QED  BY <3>1, <4>1, <1>2, <1>4, <1>4a
    <3>2. CASE d \in 1..n  BY <3>2, <1>2, <1>3
    <3> QED  BY <3>1, <3>2, <1>1
  <2>2. ASSUME NEW d \in 1..(n + 1), NEW e \in 1..(n + 1), d < e
        PROVE  u.ci[d].base <= u.ci[e].func /\ (u.ci[d].lua => u.ci[d].base < u.ci[e].func)
    <3>0. d \in 1..n /\ u.ci[d] = t.ci[d]  BY <2>2, <1>1, <1>2
    <3>1. CASE e = n + 1  BY <3>0, <3>1, <1>2, <1>5
    <3>2. CASE e \in 1..n
      <4>1. u.ci[e] = t.ci[e]  BY <3>2, <1>2
      <4>2. t.ci[d].base <= t.ci[e].func /\ (t.ci[d].lua => t.ci[d].base < t.ci[e].func)
        BY <3>0, <3>2, <2>2, <1>0, <1>1 DEF Nested
      <4> QED  BY <4>1, <4>2, <3>0
    <3> QED  BY <3>1, <3>2, <1>1
  <2>3. Len(u.ci) >= 1  BY <1>1, <1>2
  <2> QED  BY <2>1, <2>2, <2>3, <1>2 DEF Nested
<1>7. Owned(u)
  <2> SUFFICES ASSUME NEW x \in u.open PROVE \E d \in 1..Len(u.ci) : u.ci[d].lua /\ u.ci[d].base = x  BY DEF Owned
  <2>1. PICK d \in 1..n : t.ci[d].lua /\ t.ci[d].base = x  BY <1>0, <1>4a DEF Sound, Owned
  <2>2. d \in 1..(n + 1)  BY <1>1
  <2> QED  BY <2>1, <2>2, <1>2
<1>8. Locals(u)
  <2> SUFFICES ASSUME NEW d \in 1..(n + 1), u.ci[d].lua
               PROVE  /\ u.ci[d].base <= Len(u.stack) /\ u.stack[u.ci[d].base] = Local(d)
                      /\ u.ci[d].top = u.ci[d].base + MaxStack
    BY <1>2 DEF Locals
  <2>1. CASE d = n + 1  BY <2>1, <1>0, <1>2 DEF Called
  <2>2. CASE d \in 1..n
    <3>1. u.ci[d] = t.ci[d] /\ t.ci[d].lua  BY <2>2, <1>2
    <3>2. /\ t.ci[d].base <= Len(t.stack) /\ t.stack[t.ci[d].base] = Local(d)
          /\ t.ci[d].top = t.ci[d].base + MaxStack
      BY <2>2, <3>1, <1>0 DEF Sound, Locals
    <3>3. t.ci[d].base \in Nat /\ t.ci[d].base >= 2 /\ t.ci[d].base < c.func  BY <2>2, <3>1, <1>3, <1>5
    <3>4. t.ci[d].base \in 1..Len(t.stack)  BY <3>2, <3>3, ThreadFacts
    <3> QED  BY <3>1, <3>2, <3>3, <3>4 DEF Called
  <2> QED  BY <2>1, <2>2, <1>1
<1>9. u.base = u.ci[Len(u.ci)].base /\ u.base <= Len(u.stack) + 1  BY <1>2, <1>4a DEF Called
<1>10. \A d \in 1..Len(u.ci) : u.ci[d].top <= StackLast(u)
  <2> SUFFICES ASSUME NEW d \in 1..(n + 1) PROVE u.ci[d].top <= StackLast(u)  BY <1>2
  <2>1. CASE d = n + 1  BY <2>1, <1>2, <1>4a
  <2>2. CASE d \in 1..n
    <3>1. t.ci[d].top <= StackLast(t)  BY <2>2, <1>0 DEF Sound
    <3>2. StackLast(t) \in Int /\ StackLast(u) \in Int /\ t.ci[d].top \in Nat  BY <2>2, <1>3, ThreadFacts
    <3> QED  BY <2>2, <3>1, <3>2, <1>2, <1>4a
  <2> QED  BY <2>1, <2>2, <1>1
<1> QED  BY <1>6, <1>7, <1>8, <1>9, <1>10 DEF Sound

\* growCI leaves the calls alone.
LEMMA GrowCISound ==
    ASSUME NEW t \in ThreadT
    PROVE  LET u == GrowCI(t)
           IN /\ u \in ThreadT /\ SameCalls(t, u) /\ Regrown(t, u) /\ u.stack = t.stack /\ u.open = t.open
              /\ u.stacksize = t.stacksize /\ StackLast(u) = StackLast(t) /\ (Sound(t) => Sound(u))
<1> DEFINE u == GrowCI(t)
<1>1. t.sizeci \in Nat /\ 2 * t.sizeci \in Nat /\ t.stacksize \in Nat  BY ThreadFacts
<1>2. PICK k \in Nat : u = [t EXCEPT !.sizeci = k]
  <2>1. CASE Len(t.ci) = t.sizeci  BY <2>1, <1>1 DEF GrowCI
  <2>2. CASE Len(t.ci) # t.sizeci
    <3>1. u = t  BY <2>2 DEF GrowCI
    <3>2. t = [t EXCEPT !.sizeci = t.sizeci]  BY DEF ThreadT
    <3> QED  BY <3>1, <3>2, <1>1
  <2> QED  BY <2>1, <2>2
<1> HIDE DEF u
<1>3. u \in ThreadT /\ SameCalls(t, u) /\ u.stack = t.stack /\ u.open = t.open /\ u.stacksize = t.stacksize
  BY <1>2 DEF ThreadT, SameCalls
<1>4. StackLast(u) = StackLast(t) /\ u.stacksize >= t.stacksize  BY <1>1, <1>3 DEF StackLast
<1>5. Sound(t) => Sound(u)  BY <1>3, <1>4 DEF Sound, SameCalls, Owned, Locals
<1> QED  BY <1>3, <1>4, <1>5 DEF u, Regrown

\* Where a function may be called: above the base, and the local, of the running one.
Callable(t, func) ==
    /\ func \in Nat /\ t.base <= func /\ (t.ci[Len(t.ci)].lua => t.base < func) /\ func <= Len(t.stack)

\* u has one CallInfo more than t.
Added(t, u, c) ==
    /\ Len(u.ci) = Len(t.ci) + 1 /\ u.ci[Len(t.ci) + 1] = c
    /\ \A d \in 1..Len(t.ci) : u.ci[d] = t.ci[d]
\* The CallInfo of a C function, and the thread that calls it.
CInfo(t, func, nres) ==
    [func |-> func, base |-> func + 1, top |-> Top(t) + MinStack, nres |-> nres, lua |-> FALSE]
CThread(t, func, nres) == [t EXCEPT !.base = func + 1, !.ci = Append(t.ci, CInfo(t, func, nres))]

\* A C function is called.
LEMMA CalledC ==
    ASSUME NEW t \in ThreadT, Sound(t), NEW func, Callable(t, func), NEW nres \in {0, 1, MULTRET},
           Len(t.stack) + MinStack < StackLast(t)
    PROVE  /\ CThread(t, func, nres) \in ThreadT /\ Sound(CThread(t, func, nres)) /\ Fits(CThread(t, func, nres))
           /\ Shares(t, CThread(t, func, nres)) /\ CThread(t, func, nres).stack = t.stack
           /\ CInfo(t, func, nres) \in CallInfo /\ Added(t, CThread(t, func, nres), CInfo(t, func, nres))
           /\ CThread(t, func, nres).base = func + 1
<1>c. PICK c : c = [func |-> func, base |-> func + 1, top |-> Top(t) + MinStack, nres |-> nres, lua |-> FALSE]
  OBVIOUS
<1>d. PICK u : u = [t EXCEPT !.base = func + 1, !.ci = Append(t.ci, c)]  OBVIOUS
<1>a. PICK l : l = Len(t.stack)  OBVIOUS
<1>b. PICK last : last = StackLast(t)  OBVIOUS
<1>1. /\ l \in Nat /\ last \in Int /\ MinStack \in Nat /\ MinStack >= 1 /\ func \in Nat /\ func <= l /\ Top(t) = l + 1
      /\ l + MinStack < last /\ t.ci \in Seq(CallInfo)
  BY <1>a, <1>b, ThreadFacts, Constants DEF Callable
<1>2. c.top \in Nat /\ c.base \in Nat /\ c.func < c.base /\ c.base < c.top /\ c.top <= last /\ c.base <= l + 1
  BY <1>1, <1>c
<1>3. c \in CallInfo  BY <1>1, <1>2, <1>c DEF CallInfo
<1>4. c.func = func /\ c.base = func + 1 /\ ~ c.lua  BY <1>c
<1>5. c.top <= StackLast(t) /\ c.base <= Len(t.stack) + 1  BY <1>2, <1>a, <1>b
<1>6. Append(t.ci, c) \in Seq(CallInfo)  BY <1>1, <1>3, AppendProperties
<1>7. func + 1 \in Nat  BY <1>1
<1>8. /\ u \in ThreadT /\ Shares(t, u) /\ u.stack = t.stack /\ u.ci = Append(t.ci, c) /\ u.base = func + 1
      /\ u.open = t.open /\ u.stacksize = t.stacksize
  BY <1>6, <1>7, <1>d DEF ThreadT, Shares
<1>9. StackLast(u) = StackLast(t) /\ StackLast(t) \in Int /\ StackLast(t) <= StackLast(u)
  BY <1>8, ThreadFacts DEF StackLast
<1>10. Sound(u)
  <2>1. t.base <= c.func /\ (t.ci[Len(t.ci)].lua => t.base < c.func)  BY <1>4 DEF Callable
  <2>2. u.base = c.base /\ c.base <= Len(u.stack) + 1 /\ c.top <= StackLast(u) /\ u.open \subseteq t.open
    BY <1>4, <1>5, <1>8, <1>9
  <2>3. \A i \in 1..Len(t.stack) : i < c.func => i <= Len(u.stack) /\ u.stack[i] = t.stack[i]  BY <1>1, <1>8
  <2>4. c.func < c.base /\ c.base < c.top /\ ~ c.lua  BY <1>2, <1>4
  <2>5. Called(t, u, c)  BY <1>8, <1>9, <2>1, <2>2, <2>3, <2>4 DEF Called
  <2> QED  BY <1>3, <1>8, <2>5, CalledSound
<1>11. Fits(u)  BY <1>1, <1>8, <1>9, <1>a, <1>b DEF Fits
<1>12. Added(t, u, c)
  <2>1. PICK v : v = Append(t.ci, c)  OBVIOUS
  <2>2. Len(v) = Len(t.ci) + 1 /\ v[Len(t.ci) + 1] = c /\ \A d \in 1..Len(t.ci) : v[d] = t.ci[d]
    BY <2>1, <1>1, <1>3, AppendFacts
  <2>3. u.ci = v  BY <2>1, <1>8
  <2> QED  BY <2>2, <2>3 DEF Added
<1>13. c = CInfo(t, func, nres) /\ u = CThread(t, func, nres)  BY <1>c, <1>d DEF CInfo, CThread
<1> QED  BY <1>3, <1>8, <1>10, <1>11, <1>12, <1>13

\* A Lua function writes its local.
LEMMA SetLocalFacts ==
    ASSUME NEW t \in ThreadT
    PROVE  LET u == SetLocal(t)
           IN /\ u \in ThreadT /\ SameCalls(t, u) /\ u.open = t.open /\ u.stacksize = t.stacksize
              /\ StackLast(u) = StackLast(t) /\ Len(u.stack) = Len(t.stack)
              /\ \A i \in 1..Len(t.stack) : u.stack[i] = IF i = t.base THEN Local(Len(t.ci)) ELSE t.stack[i]
<1> DEFINE s == [i \in 1..Len(t.stack) |-> IF i = t.base THEN Local(Len(t.ci)) ELSE t.stack[i]]
           u == [t EXCEPT !.stack = s]
<1>1. Len(t.stack) \in Nat /\ t.stack \in Seq(Int) /\ Local(Len(t.ci)) \in Int  BY ThreadFacts DEF Local
<1>2. \A i \in 1..Len(t.stack) : t.stack[i] \in Int  BY <1>1, ElementOfSeq
<1>3. s \in [1..Len(t.stack) -> Int]  BY <1>1, <1>2
<1>4. s \in Seq(Int) /\ Len(s) = Len(t.stack)  BY <1>1, <1>3, FunctionIsSeq
<1>5. \A i \in 1..Len(t.stack) : s[i] = IF i = t.base THEN Local(Len(t.ci)) ELSE t.stack[i]  OBVIOUS
<1>6. SetLocal(t) = u  BY DEF SetLocal
<1> HIDE DEF s
<1>7. /\ u \in ThreadT /\ u.stack = s /\ SameCalls(t, u) /\ u.open = t.open /\ u.stacksize = t.stacksize
      /\ StackLast(u) = StackLast(t)
  BY <1>4, Restacked
<1> HIDE DEF u
<1> QED  BY <1>4, <1>5, <1>6, <1>7

\* The frame of a Lua function.
NewFrameOf(t, N, c) ==
    /\ N \in ThreadT /\ N.base = c.base /\ N.ci = Append(t.ci, c) /\ N.open = t.open /\ N.stacksize = t.stacksize
    /\ StackLast(N) = StackLast(t) /\ Shares(t, N) /\ Len(N.stack) = c.base + MaxStack - 1
    /\ \A i \in 1..(c.base - 1) : N.stack[i] = t.stack[i]
    /\ c.func < c.base /\ c.base <= Len(t.stack) + 1 /\ c.top = c.base + MaxStack /\ c.lua

\* The new frame of luaD_precall is such a frame.
LEMMA NewFrameFacts ==
    ASSUME NEW t \in ThreadT, Sound(t), NEW func, Callable(t, func), NEW nres \in {0, 1, MULTRET}, NEW va \in BOOLEAN
    PROVE  \E c \in CallInfo : /\ c.func = func /\ (~ va => c.base = func + 1) /\ c.nres = nres
                              /\ NewFrameOf(t, NewFrame(t, func, nres, va), c)
<1>1. PICK l : l = Len(t.stack)  OBVIOUS
<1>2. PICK base : base = IF va THEN Top(t) ELSE func + 1  OBVIOUS
<1>3. /\ l \in Nat /\ MaxStack \in Nat /\ MaxStack >= 5 /\ func \in Nat /\ func <= l /\ Top(t) = l + 1
      /\ t.ci \in Seq(CallInfo)
  BY <1>1, ThreadFacts, Constants DEF Callable
<1>4. base \in Nat /\ func < base /\ base <= l + 1  BY <1>2, <1>3
<1>5. PICK keep : keep = base - 1  OBVIOUS
<1>6. PICK top : top = base + MaxStack  OBVIOUS
<1>7. keep \in 0..Len(t.stack) /\ top \in Nat /\ top >= 1  BY <1>1, <1>3, <1>4, <1>5, <1>6
<1> DEFINE F == Fill(t, keep, top)
           c == [func |-> func, base |-> base, top |-> top, nres |-> nres, lua |-> TRUE]
           N == [F EXCEPT !.base = base, !.ci = Append(t.ci, c)]
<1>8. /\ F \in ThreadT /\ Regrown(t, F) /\ F.open = t.open /\ F.stacksize = t.stacksize
      /\ Len(F.stack) = top - 1 /\ StackLast(F) = StackLast(t)
      /\ \A i \in 1..(top - 1) : i <= keep => F.stack[i] = t.stack[i]
  BY <1>7, FillFacts
<1>9. c \in CallInfo  BY <1>3, <1>4, <1>7 DEF CallInfo
<1>10. c.func = func /\ c.base = base /\ c.top = top /\ c.lua /\ c.nres = nres  OBVIOUS
<1>11. N = NewFrame(t, func, nres, va)
  <2>1. F.ci = t.ci  BY <1>8 DEF Regrown, SameCalls
  <2> HIDE DEF F
  <2>2. N = [F EXCEPT !.base = base, !.ci = Append(@, c)]  BY <2>1, <1>8 DEF ThreadT
  <2> QED  BY <2>2, <1>2, <1>5, <1>6 DEF NewFrame, F
<1> HIDE DEF F, c
<1>12. Append(t.ci, c) \in Seq(CallInfo)  BY <1>3, <1>9, AppendProperties
<1>13. /\ N \in ThreadT /\ N.base = base /\ N.ci = Append(t.ci, c) /\ N.stack = F.stack /\ N.open = t.open
       /\ N.stacksize = t.stacksize /\ Shares(t, N)
  BY <1>4, <1>8, <1>12 DEF ThreadT, Shares, Regrown, SameCalls
<1> HIDE DEF N
<1>14. StackLast(N) = StackLast(t)  BY <1>13 DEF StackLast
<1>15. top - 1 = base + MaxStack - 1 /\ base - 1 <= top - 1  BY <1>3, <1>4, <1>6
<1>16. \A i \in 1..(base - 1) : N.stack[i] = t.stack[i]
  <2> SUFFICES ASSUME NEW i \in 1..(base - 1) PROVE N.stack[i] = t.stack[i]  OBVIOUS
  <2>1. i \in 1..(top - 1) /\ i <= keep  BY <1>3, <1>4, <1>5, <1>6
  <2> QED  BY <2>1, <1>8, <1>13
<1>17. NewFrameOf(t, N, c)
  <2>1. c.func < c.base /\ c.base <= Len(t.stack) + 1  BY <1>1, <1>4, <1>10
  <2>2. Len(N.stack) = c.base + MaxStack - 1  BY <1>8, <1>10, <1>13, <1>15
  <2> QED  BY <2>1, <2>2, <1>6, <1>10, <1>13, <1>14, <1>16 DEF NewFrameOf
<1>18. ~ va => c.base = func + 1  BY <1>2, <1>10
<1> QED  BY <1>9, <1>10, <1>11, <1>17, <1>18

\* It runs, with its local.
LEMMA CalledLua ==
    ASSUME NEW t \in ThreadT, Sound(t), NEW func, Callable(t, func), NEW nres \in {0, 1, MULTRET}, NEW va \in BOOLEAN,
           Len(t.stack) + MaxStack < StackLast(t)
    PROVE  LET u == SetLocal(NewFrame(t, func, nres, va))
           IN /\ u \in ThreadT /\ Sound(u) /\ Fits(u) /\ Shares(t, u) /\ Len(u.stack) >= func
              /\ \E c \in CallInfo : c.func = func /\ c.lua /\ Added(t, u, c)
<1> DEFINE N == NewFrame(t, func, nres, va)
           u == SetLocal(N)
<1>1. PICK l : l = Len(t.stack)  OBVIOUS
<1>2. PICK last : last = StackLast(t)  OBVIOUS
<1>3. PICK c \in CallInfo : c.func = func /\ NewFrameOf(t, N, c)  BY NewFrameFacts
<1> HIDE DEF N
<1>4. PICK base : base = c.base  OBVIOUS
<1>5. /\ l \in Nat /\ last \in Int /\ MaxStack \in Nat /\ MaxStack >= 5 /\ func \in Nat /\ func <= l
      /\ l + MaxStack < last /\ t.ci \in Seq(CallInfo)
  BY <1>1, <1>2, ThreadFacts, Constants DEF Callable
<1>6. /\ base \in Nat /\ func < base /\ base <= l + 1 /\ c.top = base + MaxStack /\ c.lua
      /\ N \in ThreadT /\ N.base = base /\ N.ci = Append(t.ci, c) /\ N.open = t.open /\ N.stacksize = t.stacksize
      /\ StackLast(N) = last /\ Shares(t, N) /\ Len(N.stack) = base + MaxStack - 1
      /\ \A i \in 1..(base - 1) : N.stack[i] = t.stack[i]
  BY <1>1, <1>2, <1>3, <1>4 DEF NewFrameOf, CallInfo
<1>6a. base \in Nat /\ func < base /\ base <= l + 1 /\ c.top = base + MaxStack /\ c.base = base  BY <1>4, <1>6
<1>6b. /\ l \in Nat /\ last \in Int /\ MaxStack \in Nat /\ MaxStack >= 5 /\ func \in Nat /\ func <= l
       /\ l + MaxStack < last
  BY <1>5
<1>7. Len(Append(t.ci, c)) = Len(t.ci) + 1  BY <1>5, AppendProperties
<1>8. /\ u \in ThreadT /\ SameCalls(N, u) /\ u.open = N.open /\ u.stacksize = N.stacksize
      /\ StackLast(u) = StackLast(N) /\ Len(u.stack) = Len(N.stack)
      /\ \A i \in 1..Len(N.stack) : u.stack[i] = IF i = N.base THEN Local(Len(N.ci)) ELSE N.stack[i]
  BY <1>6, SetLocalFacts
<1> HIDE DEF u
<1>9. /\ u.ci = Append(t.ci, c) /\ u.base = base /\ u.open = t.open /\ Shares(t, u) /\ StackLast(u) = last
      /\ Len(u.stack) = base + MaxStack - 1
  BY <1>6, <1>8 DEF SameCalls, Shares
<1>10. ASSUME NEW i \in 1..l, i < func PROVE i <= Len(u.stack) /\ u.stack[i] = t.stack[i]
  <2>1. i \in 1..(base - 1) /\ i \in 1..(base + MaxStack - 1) /\ i # base  BY <1>6a, <1>6b, <1>10
  <2>2. i <= base + MaxStack - 1  BY <2>1
  <2> QED  BY <2>1, <2>2, <1>6, <1>8, <1>9
<1>11. u.stack[base] = Local(Len(t.ci) + 1)
  <2>1. base \in 1..(base + MaxStack - 1)  BY SMTT(30), <1>5, <1>6
  <2> QED  BY <2>1, <1>6, <1>7, <1>8
<1>12. Called(t, u, c)
  <2>1. t.base <= c.func /\ (t.ci[Len(t.ci)].lua => t.base < c.func)  BY <1>3 DEF Callable
  <2>2. c.func < c.base /\ c.base < c.top /\ c.top <= StackLast(u)
    <3>1. func < base /\ base < base + MaxStack /\ base + MaxStack <= last  BY <1>6a, <1>6b
    <3> QED  BY <3>1, <1>3, <1>6a, <1>9
  <2>3. c.base <= Len(u.stack) + 1 /\ c.base <= Len(u.stack)  BY <1>4, <1>5, <1>6, <1>9
  <2>4. StackLast(t) <= StackLast(u)  BY <1>2, <1>5, <1>9
  <2>5. \A i \in 1..Len(t.stack) : i < c.func => i <= Len(u.stack) /\ u.stack[i] = t.stack[i]
    BY <1>1, <1>3, <1>10
  <2> QED  BY <2>1, <2>2, <2>3, <2>4, <2>5, <1>4, <1>6, <1>9, <1>11 DEF Called
<1>13. Sound(u)  BY <1>8, <1>12, CalledSound
<1>14. Fits(u) /\ Len(u.stack) >= func  BY <1>5, <1>6, <1>9 DEF Fits
<1>15. Added(t, u, c)
  <2>1. PICK v : v = Append(t.ci, c)  OBVIOUS
  <2>2. Len(v) = Len(t.ci) + 1 /\ v[Len(t.ci) + 1] = c /\ \A d \in 1..Len(t.ci) : v[d] = t.ci[d]
    BY <2>1, <1>5, AppendFacts
  <2>3. u.ci = v  BY <2>1, <1>9
  <2> QED  BY <2>2, <2>3 DEF Added
<1> QED  BY <1>3, <1>6, <1>8, <1>9, <1>13, <1>14, <1>15 DEF u, N

\* What Append puts on, Front takes off.
LEMMA FrontAppend ==
    ASSUME NEW S, NEW s \in Seq(S), NEW e \in S
    PROVE  Front(Append(s, e)) = s /\ Last(Append(s, e)) = e
<1> DEFINE a == Append(s, e)
<1>1. a \in Seq(S) /\ Len(a) = Len(s) + 1 /\ a[Len(s) + 1] = e /\ (\A i \in 1..Len(s) : a[i] = s[i]) /\ Len(s) \in Nat
  BY AppendProperties, LenProperties
<1> HIDE DEF a
<1>2. Len(a) >= 1  BY <1>1
<1>3. Front(a) \in Seq(S) /\ Len(Front(a)) = Len(a) - 1 /\ \A i \in 1..(Len(a) - 1) : Front(a)[i] = a[i]
  BY <1>1, <1>2, FrontFacts
<1>4. Len(Front(a)) = Len(s) /\ \A i \in 1..Len(Front(a)) : Front(a)[i] = s[i]  BY <1>1, <1>3
<1>5. Front(a) = s  BY <1>3, <1>4, SeqEqual
<1>6. Last(a) = e  BY <1>1 DEF Last
<1> QED  BY <1>5, <1>6 DEF a

\* OP_TAILCALL: the new function in place of the running one.
LEMMA TailSound ==
    ASSUME NEW t \in ThreadT, Sound(t), t.ci[Len(t.ci)].lua, Len(t.ci) >= 2, Callable(t, t.base + 1), Fits(t),
           Len(t.stack) + MaxStack < StackLast(t)
    PROVE  LET u == SetLocal(MoveFrameDown(NewFrame(t, t.base + 1, MULTRET, FALSE)))
           IN /\ u \in ThreadT /\ Sound(u) /\ Fits(u) /\ Shares(t, u) /\ Len(u.ci) = Len(t.ci)
              /\ \A d \in 1..Len(t.ci) : u.ci[d].lua = t.ci[d].lua /\ u.ci[d].func = t.ci[d].func
              /\ \A d \in 1..(Len(t.ci) - 1) : u.ci[d] = t.ci[d]
              /\ Len(u.stack) >= t.ci[Len(t.ci)].func
<1> DEFINE N == NewFrame(t, t.base + 1, MULTRET, FALSE)
           M == MoveFrameDown(N)
           u == SetLocal(M)
<1>1. PICK n : n = Len(t.ci)  OBVIOUS
<1>2. PICK l : l = Len(t.stack)  OBVIOUS
<1>3. PICK last : last = StackLast(t)  OBVIOUS
<1>4. PICK old : old = t.ci[n]  OBVIOUS
<1>5. PICK fn : fn = old.func  OBVIOUS
<1>6. PICK tb : tb = t.base  OBVIOUS
<1>7. PICK c \in CallInfo : c.func = tb + 1 /\ c.base = tb + 1 + 1 /\ NewFrameOf(t, N, c)
  <2>1. MULTRET \in {0, 1, MULTRET} /\ FALSE \in BOOLEAN  OBVIOUS
  <2> QED  BY <2>1, <1>6, NewFrameFacts
<1> HIDE DEF N
<1>8. /\ n \in Nat /\ n >= 2 /\ l \in Nat /\ last \in Int /\ tb \in Nat /\ tb >= 2 /\ tb <= l /\ fn \in Nat /\ fn >= 1
      /\ fn < tb /\ MaxStack \in Nat /\ MaxStack >= 5 /\ l + MaxStack < last /\ t.ci \in Seq(CallInfo)
      /\ old.base = tb /\ old.lua /\ tb + 1 <= l
  BY <1>1, <1>2, <1>3, <1>4, <1>5, <1>6, BaseFacts, ThreadFacts, Constants DEF Callable
<1>9. n \in 1..Len(t.ci) /\ old \in CallInfo /\ n - 1 \in 1..(Len(t.ci) - 1)  BY <1>1, <1>4, <1>8, ElementOfSeq
<1>10. /\ N \in ThreadT /\ N.ci = Append(t.ci, c) /\ N.open = t.open /\ N.stacksize = t.stacksize
       /\ Shares(t, N) /\ Len(N.stack) = tb + 1 + MaxStack
       /\ \A i \in 1..(tb + 1) : N.stack[i] = t.stack[i]
  <2>1. tb + 1 + 1 + MaxStack - 1 = tb + 1 + MaxStack /\ tb + 1 + 1 - 1 = tb + 1  BY <1>8
  <2>2. c.base + MaxStack - 1 = tb + 1 + MaxStack /\ c.base - 1 = tb + 1
    <3>1. c.base = tb + 1 + 1  BY <1>7
    <3> QED  BY <3>1, <1>8
  <2>3. /\ N \in ThreadT /\ N.ci = Append(t.ci, c) /\ N.open = t.open /\ N.stacksize = t.stacksize
        /\ Shares(t, N) /\ Len(N.stack) = c.base + MaxStack - 1
        /\ \A i \in 1..(c.base - 1) : N.stack[i] = t.stack[i]
    BY <1>7 DEF NewFrameOf
  <2> QED  BY <2>2, <2>3
\* the frame moves down
<1> DEFINE q == SubSeq(N.stack, tb + 1, Len(N.stack))
           s == SubSeq(N.stack, 1, fn - 1) \o q
           e == [old EXCEPT !.base = fn + 1, !.top = Len(s) + 1]
<1>11. q \in Seq(Int) /\ Len(q) = MaxStack + 1
  <2>1. PICK m : m = Len(N.stack)  OBVIOUS
  <2>2. \A i \in (tb + 1)..m : N.stack[i] \in Int
    <3> SUFFICES ASSUME NEW i \in (tb + 1)..m PROVE N.stack[i] \in Int  OBVIOUS
    <3>1. i \in 1..Len(N.stack) /\ N.stack \in Seq(Int)  BY <2>1, <1>8, <1>10, ThreadFacts
    <3> QED  BY <3>1, ElementOfSeq
  <2>3. tb + 1 \in Int /\ m \in Int /\ m = tb + 1 + MaxStack  BY <2>1, <1>8, <1>10
  <2>4. /\ SubSeq(N.stack, tb + 1, m) \in Seq(Int)
        /\ Len(SubSeq(N.stack, tb + 1, m)) = IF tb + 1 <= m THEN m - (tb + 1) + 1 ELSE 0
    BY <2>2, <2>3, SubSeqProperties
  <2>5. (IF tb + 1 <= m THEN m - (tb + 1) + 1 ELSE 0) = MaxStack + 1  BY <2>3, <1>8
  <2> QED  BY <2>1, <2>4, <2>5
<1> HIDE DEF q
<1>12. s \in Seq(Int) /\ Len(s) = fn + MaxStack /\ \A i \in 1..(fn - 1) : s[i] = t.stack[i]
  <2>1. fn - 1 \in 0..Len(N.stack) /\ N.stack \in Seq(Int)  BY <1>8, <1>10, ThreadFacts
  <2>2. PICK m : m = fn - 1  OBVIOUS
  <2>3. SubSeq(N.stack, 1, m) \o q \in Seq(Int) /\ Len(SubSeq(N.stack, 1, m) \o q) = m + Len(q)
        /\ \A i \in 1..m : (SubSeq(N.stack, 1, m) \o q)[i] = N.stack[i]
    BY Zenon, <2>1, <2>2, <1>11, PrefixConcat
  <2>4. s = SubSeq(N.stack, 1, m) \o q  BY <2>2
  <2> HIDE DEF s
  <2>5. Len(s) = fn + MaxStack
    <3>1. Len(s) = m + Len(q)  BY <2>3, <2>4
    <3>2. fn \in Nat /\ MaxStack \in Nat  BY <1>8
    <3> QED  BY <3>1, <3>2, <2>2, <1>11
  <2>6. \A i \in 1..(fn - 1) : s[i] = t.stack[i]
    <3> SUFFICES ASSUME NEW i \in 1..(fn - 1) PROVE s[i] = t.stack[i]  OBVIOUS
    <3>1. i \in 1..(tb + 1) /\ i \in 1..m  BY <2>2, <1>8
    <3>2. s[i] = N.stack[i]  BY <3>1, <2>3, <2>4
    <3>3. N.stack[i] = t.stack[i]  BY <3>1, <1>10
    <3> QED  BY <3>2, <3>3
  <2> QED  BY <2>3, <2>4, <2>5, <2>6
<1>13. M = [LuaFClose(N, tb) EXCEPT !.stack = s, !.base = fn + 1, !.ci = Append(Front(t.ci), e)]
  <2>1. Len(N.ci) = n + 1 /\ N.ci[Len(N.ci) - 1] = old
    <3>1. PICK w : w = Append(t.ci, c)  OBVIOUS
    <3>2. Len(w) = n + 1 /\ w[n] = t.ci[n]  BY <3>1, <1>1, <1>8, <1>9, AppendProperties
    <3>3. n + 1 - 1 = n  BY <1>8
    <3>4. N.ci = w  BY <3>1, <1>10
    <3>5. Len(w) - 1 = n
      <4>1. Len(w) = n + 1  BY <3>2
      <4>2. PICK m : m = Len(w)  OBVIOUS
      <4>3. m = n + 1 /\ n \in Nat  BY <4>1, <4>2, <1>8
      <4>4. m - 1 = n  BY <4>3
      <4> QED  BY <4>2, <4>4
    <3>6. Len(N.ci) - 1 = n  BY <3>4, <3>5
    <3> QED  BY <3>2, <3>4, <3>6, <1>4
  <2>2. Front(N.ci) = t.ci /\ CI(N) = c  BY <1>8, <1>10, FrontAppend DEF CI
  <2>3. c.base - c.func = 1 /\ old.func + 1 = fn + 1  BY <1>5, <1>7, <1>8
  <2>4. Front(Front(LuaFClose(N, tb).ci)) = Front(t.ci)
    <3>1. LuaFClose(N, tb).ci = N.ci  BY <1>10 DEF LuaFClose, ThreadT
    <3> QED  BY <3>1, <2>2
  <2> QED  BY <2>1, <2>2, <2>3, <2>4, <1>5, <1>7, <1>8 DEF MoveFrameDown, e, s, q
<1> HIDE DEF s
<1>14. /\ e \in CallInfo /\ e.func = fn /\ e.base = fn + 1 /\ e.lua /\ e.top = fn + 1 + MaxStack
  <2>1. fn + 1 \in Nat /\ Len(s) + 1 \in Nat /\ Len(s) + 1 = fn + 1 + MaxStack  BY <1>8, <1>12
  <2> QED  BY <2>1, <1>5, <1>8, <1>9 DEF CallInfo
<1> HIDE DEF e
<1>15. /\ Front(t.ci) \in Seq(CallInfo) /\ Len(Front(t.ci)) = n - 1 /\ \A i \in 1..(n - 1) : Front(t.ci)[i] = t.ci[i]
  <2>1. Len(t.ci) >= 1  BY <1>1, <1>8
  <2> QED  BY <2>1, <1>1, <1>8, FrontFacts
<1>16. /\ Append(Front(t.ci), e) \in Seq(CallInfo) /\ Len(Append(Front(t.ci), e)) = n
       /\ Append(Front(t.ci), e)[n] = e /\ \A i \in 1..(n - 1) : Append(Front(t.ci), e)[i] = t.ci[i]
  <2>1. n - 1 + 1 = n  BY <1>8
  <2> QED  BY <2>1, <1>14, <1>15, AppendProperties
<1>17. /\ M \in ThreadT /\ M.stack = s /\ M.base = fn + 1 /\ M.ci = Append(Front(t.ci), e) /\ Shares(t, M)
       /\ M.stacksize = t.stacksize /\ \A x \in M.open : x \in t.open /\ x < tb
  <2>1. /\ LuaFClose(N, tb) = [N EXCEPT !.open = {x \in t.open : x < tb}]  BY <1>10 DEF LuaFClose
  <2>2. {x \in t.open : x < tb} \in SUBSET Nat  BY ThreadFacts
  <2>3. PICK o \in SUBSET Nat : o = {x \in t.open : x < tb}  BY <2>2
  <2>4. LuaFClose(N, tb) = [N EXCEPT !.open = o]  BY <2>1, <2>3
  <2>5. PICK P : P = LuaFClose(N, tb)  OBVIOUS
  <2>6. P \in ThreadT /\ Shares(t, P) /\ P.stacksize = t.stacksize /\ P.open = o
    BY <2>4, <2>5, <1>10 DEF ThreadT, Shares
  <2>7. M = [P EXCEPT !.stack = s, !.base = fn + 1, !.ci = Append(Front(t.ci), e)]  BY <2>5, <1>13
  <2>8. fn + 1 \in Nat  BY <1>8
  <2> HIDE DEF M
  <2>9. /\ M \in ThreadT /\ M.stack = s /\ M.base = fn + 1 /\ M.ci = Append(Front(t.ci), e) /\ Shares(t, M)
        /\ M.stacksize = t.stacksize /\ M.open = o
    BY <2>6, <2>7, <2>8, <1>12, <1>16 DEF ThreadT, Shares
  <2> QED  BY <2>3, <2>9
<1> HIDE DEF M
<1>18. /\ u \in ThreadT /\ SameCalls(M, u) /\ u.open = M.open /\ u.stacksize = M.stacksize
       /\ StackLast(u) = StackLast(M) /\ Len(u.stack) = Len(M.stack)
       /\ \A i \in 1..Len(M.stack) : u.stack[i] = IF i = M.base THEN Local(Len(M.ci)) ELSE M.stack[i]
  BY <1>17, SetLocalFacts
<1> HIDE DEF u
<1>19. /\ u.ci = Append(Front(t.ci), e) /\ u.base = fn + 1 /\ Shares(t, u) /\ StackLast(u) = last
       /\ Len(u.stack) = fn + MaxStack
  BY <1>3, <1>12, <1>17, <1>18 DEF SameCalls, Shares, StackLast
\* the thread without the running function
<1> DEFINE C == LuaFClose(t, tb)
           p == Poscall(C, tb)
<1>20. /\ C \in ThreadT /\ Sound(C) /\ SameCalls(t, C) /\ C.stack = t.stack /\ StackLast(C) = StackLast(t)
       /\ \A x \in C.open : x \in t.open /\ x < tb
  BY CloseSound
<1>21. \A x \in t.open : x < tb => x \in C.open  BY DEF LuaFClose, ThreadT
<1> HIDE DEF C
<1>22. /\ p \in ThreadT /\ Sound(p) /\ p.ci = Front(t.ci) /\ StackLast(p) = last /\ p.open = C.open
       /\ \A i \in 1..(fn - 1) : p.stack[i] = t.stack[i]
  <2>1. C.ci = t.ci /\ C.base = tb  BY <1>6, <1>20 DEF SameCalls
  <2>2. Len(C.ci) >= 2 /\ Len(C.stack) <= StackLast(C) /\ C.base <= tb /\ tb <= Len(C.stack) + 1
    BY <2>1, <1>1, <1>2, <1>3, <1>8, <1>20
  <2>3. C.ci[Len(C.ci)].lua => \A x \in C.open : x < C.base  BY <2>1, <1>20
  <2>4. /\ p \in ThreadT /\ Sound(p) /\ p.ci = Front(C.ci) /\ p.stacksize = C.stacksize /\ p.open = C.open
        /\ \A i \in 1..(C.ci[Len(C.ci)].func - 1) : p.stack[i] = C.stack[i]
    BY <2>2, <2>3, <1>8, <1>20, PoscallSound
  <2> HIDE DEF p
  <2> QED  BY <2>1, <2>4, <1>1, <1>3, <1>4, <1>5, <1>20 DEF StackLast
<1> HIDE DEF p
<1>23. Called(p, u, e)
  <2>1. p.base = t.ci[n - 1].base /\ p.ci[Len(p.ci)] = t.ci[n - 1]
    <3>1. n - 1 \in 1..(n - 1)  BY <1>8
    <3>2. p.base = p.ci[Len(p.ci)].base  BY <1>22, BaseFacts
    <3> QED  BY <3>1, <3>2, <1>15, <1>22
  <2>2. p.base <= e.func /\ (p.ci[Len(p.ci)].lua => p.base < e.func)
    <3>1. Nested(t.ci)  BY DEF Sound
    <3>2. t.ci[n - 1].base <= t.ci[Len(t.ci)].func /\ (t.ci[n - 1].lua => t.ci[n - 1].base < t.ci[Len(t.ci)].func)
      BY <3>1, <1>8, <1>9, NestedFacts
    <3> QED  BY <3>2, <2>1, <1>1, <1>4, <1>5, <1>14
  <2>3. e.func < e.base /\ e.base < e.top /\ e.top <= StackLast(u)  BY <1>8, <1>14, <1>19
  <2>4. u.ci = Append(p.ci, e) /\ u.base = e.base  BY <1>14, <1>19, <1>22
  <2>5. u.open \subseteq p.open  BY <1>17, <1>18, <1>21, <1>22
  <2>6. StackLast(p) <= StackLast(u)  BY <1>8, <1>19, <1>22
  <2>7. ASSUME NEW i \in 1..Len(p.stack), i < e.func PROVE i <= Len(u.stack) /\ u.stack[i] = p.stack[i]
    <3>1. i \in Nat /\ i >= 1
      <4>1. Len(p.stack) \in Nat  BY <1>22, ThreadFacts
      <4> QED  BY <4>1
    <3>2. i \in 1..(fn - 1) /\ i \in 1..Len(M.stack) /\ i # fn + 1 /\ i <= fn + MaxStack
      BY <3>1, <2>7, <1>8, <1>12, <1>14, <1>17
    <3> QED  BY <3>2, <1>12, <1>17, <1>18, <1>19, <1>22
  <2>8. e.base <= Len(u.stack) + 1 /\ e.base <= Len(u.stack)  BY <1>8, <1>14, <1>19
  <2>9. u.stack[e.base] = Local(Len(p.ci) + 1)
    <3>1. fn + 1 \in 1..Len(M.stack)  BY <1>8, <1>12, <1>17
    <3>2. Len(p.ci) + 1 = n /\ Len(M.ci) = n  BY <1>8, <1>15, <1>16, <1>17, <1>22
    <3> QED  BY <3>1, <3>2, <1>14, <1>17, <1>18
  <2>10. e.top = e.base + MaxStack  BY <1>8, <1>14
  <2> QED  BY <2>2, <2>3, <2>4, <2>5, <2>6, <2>7, <2>8, <2>9, <2>10 DEF Called
<1>24. Sound(u)  BY <1>14, <1>18, <1>22, <1>23, CalledSound
<1>25. Fits(u) /\ Len(u.stack) >= fn  BY <1>8, <1>19 DEF Fits
<1>26. /\ Len(u.ci) = n /\ \A d \in 1..(n - 1) : u.ci[d] = t.ci[d]
       /\ u.ci[n].lua = t.ci[n].lua /\ u.ci[n].func = t.ci[n].func
  <2>1. u.ci = Append(Front(t.ci), e) /\ old.lua /\ e.lua /\ e.func = fn  BY <1>8, <1>14, <1>19
  <2>2. PICK w : w = Append(Front(t.ci), e)  OBVIOUS
  <2>3. Len(w) = n /\ w[n] = e /\ \A d \in 1..(n - 1) : w[d] = t.ci[d]  BY <2>2, <1>16
  <2>4. u.ci = w  BY <2>1, <2>2
  <2> QED  BY <2>1, <2>3, <2>4, <1>4, <1>5, <1>9 DEF CallInfo
<1>27. \A d \in 1..n : u.ci[d].lua = t.ci[d].lua /\ u.ci[d].func = t.ci[d].func  BY <1>8, <1>26
<1> QED  BY <1>1, <1>4, <1>5, <1>18, <1>19, <1>24, <1>25, <1>26, <1>27 DEF u, M, N

-----------------------------------------------------------------------------
(* States *)

\* The fields of a state.
LEMMA StateFacts ==
    ASSUME NEW S \in StateT
    PROVE  /\ S.L \in [Thread -> ThreadT] /\ S.cur \in Thread /\ S.cs \in Seq(CFrame) /\ S.op \in Ops
           /\ (\A th \in Thread : S.L[th] \in ThreadT) /\ S.L[S.cur] \in ThreadT /\ Len(S.cs) \in Nat
           /\ Cur(S) = S.L[S.cur] /\ TopC(S) = S.cs[Len(S.cs)]
<1>1. S.cs \in Seq(CFrame)  BY DEF StateT
<1>2. Len(S.cs) \in Nat  BY <1>1, LenProperties
<1> QED  BY <1>1, <1>2 DEF StateT, Cur, TopC, Last

\* Another running thread in its place.
LEMMA WithFacts ==
    ASSUME NEW S \in StateT, NEW u \in ThreadT
    PROVE  /\ With(S, u) \in StateT /\ Moves(S, With(S, u), u) /\ With(S, u).cs = S.cs /\ With(S, u).op = S.op
           /\ With(S, u).cur = S.cur /\ With(S, u).L[S.cur] = u /\ With(S, u).ret = S.ret
<1> DEFINE T == With(S, u)
<1>1. PICK M : M = [S.L EXCEPT ![S.cur] = u]  OBVIOUS
<1>2. M \in [Thread -> ThreadT] /\ M[S.cur] = u /\ \A o \in Thread : o # S.cur => M[o] = S.L[o]
  BY <1>1, StateFacts
<1>3. T = [S EXCEPT !.L = M]  BY <1>1 DEF With, StateT
<1> HIDE DEF T
<1>4. T \in StateT /\ T.L = M /\ T.cs = S.cs /\ T.op = S.op /\ T.cur = S.cur /\ T.ret = S.ret
  BY <1>2, <1>3 DEF StateT
<1> QED  BY <1>2, <1>4 DEF Moves, T

\* What C does next.
LEMMA DoFacts ==
    ASSUME NEW S \in StateT, NEW o \in Ops
    PROVE  Do(S, o) \in StateT /\ Do(S, o).L = S.L /\ Do(S, o).cs = S.cs /\ Do(S, o).cur = S.cur /\ Do(S, o).op = o
  BY DEF Do, StateT

\* A frame more.
LEMMA PushCFacts ==
    ASSUME NEW S \in StateT, NEW f \in CFrame
    PROVE  /\ PushC(S, f) \in StateT /\ PushC(S, f).L = S.L /\ PushC(S, f).cur = S.cur /\ PushC(S, f).op = S.op
           /\ PushC(S, f).cs = Append(S.cs, f) /\ Len(PushC(S, f).cs) = Len(S.cs) + 1
           /\ PushC(S, f).cs[Len(S.cs) + 1] = f /\ \A i \in 1..Len(S.cs) : PushC(S, f).cs[i] = S.cs[i]
<1>1. S.cs \in Seq(CFrame)  BY StateFacts
<1>2. /\ Append(S.cs, f) \in Seq(CFrame) /\ Len(Append(S.cs, f)) = Len(S.cs) + 1
      /\ Append(S.cs, f)[Len(S.cs) + 1] = f /\ \A i \in 1..Len(S.cs) : Append(S.cs, f)[i] = S.cs[i]
  BY <1>1, AppendProperties
<1>3. PICK C : C = Append(S.cs, f)  OBVIOUS
<1>4. PushC(S, f) = [S EXCEPT !.cs = C]  BY <1>3 DEF PushC
<1>5. /\ PushC(S, f) \in StateT /\ PushC(S, f).cs = C /\ PushC(S, f).L = S.L /\ PushC(S, f).cur = S.cur
      /\ PushC(S, f).op = S.op
  BY <1>2, <1>3, <1>4 DEF StateT
<1> QED  BY <1>2, <1>3, <1>5

\* Other C frames.
LEMMA FramesFacts ==
    ASSUME NEW S \in StateT, NEW D \in Seq(CFrame)
    PROVE  /\ [S EXCEPT !.cs = D] \in StateT /\ [S EXCEPT !.cs = D].L = S.L /\ [S EXCEPT !.cs = D].cur = S.cur
           /\ [S EXCEPT !.cs = D].op = S.op /\ [S EXCEPT !.cs = D].cs = D /\ [S EXCEPT !.cs = D].ret = S.ret
  BY DEF StateT

\* The first m frames.
LEMMA CutFacts ==
    ASSUME NEW S \in StateT, NEW m \in 0..Len(S.cs)
    PROVE  LET T == [S EXCEPT !.cs = SubSeq(S.cs, 1, m)]
           IN T \in StateT /\ T.L = S.L /\ T.cur = S.cur /\ T.op = S.op /\ CutTo(S.cs, T.cs, m)
<1>1. S.cs \in Seq(CFrame)  BY StateFacts
<1>2. PICK D : D = SubSeq(S.cs, 1, m)  OBVIOUS
<1>3. D \in Seq(CFrame) /\ Len(D) = m /\ \A i \in 1..m : D[i] = S.cs[i]  BY <1>1, <1>2, PrefixFacts
<1>4. CutTo(S.cs, D, m)  BY <1>3 DEF CutTo
<1> QED  BY <1>2, <1>3, <1>4, FramesFacts

\* A frame less.
LEMMA PopCFacts ==
    ASSUME NEW S \in StateT, Len(S.cs) >= 1
    PROVE  /\ PopC(S) \in StateT /\ PopC(S).L = S.L /\ PopC(S).cur = S.cur /\ PopC(S).op = S.op
           /\ CutTo(S.cs, PopC(S).cs, Len(S.cs) - 1)
<1>1. Len(S.cs) \in Nat  BY StateFacts
<1>2. PICK m : m = Len(S.cs) - 1  OBVIOUS
<1>3. m \in 0..Len(S.cs)  BY <1>1, <1>2
<1>4. PopC(S) = [S EXCEPT !.cs = SubSeq(S.cs, 1, m)]  BY <1>2 DEF PopC, Front
<1>5. /\ PopC(S) \in StateT /\ PopC(S).L = S.L /\ PopC(S).cur = S.cur /\ PopC(S).op = S.op
      /\ CutTo(S.cs, PopC(S).cs, m)
  BY <1>3, <1>4, CutFacts
<1> QED  BY <1>2, <1>5

-----------------------------------------------------------------------------
(* The invariant is kept *)

\* What luaD_pcall saved is at p or below.
Above(C, th, p) == \A i \in Pcalls(C, th) : C[i].oldtop <= p

\* A thread is not concerned by the frames of another one.
LEMMA FineElsewhere ==
    ASSUME NEW t, NEW C \in Seq(CFrame), NEW D \in Seq(CFrame), NEW m, SameTo(C, D, m), NEW th,
           \A i \in (m + 1)..Len(D) : D[i].th # th /\ D[i].k # "resume",
           Fine(t, C, th)
    PROVE  Fine(t, D, th)
<1>1. m \in Nat /\ Len(C) \in Nat /\ Len(D) \in Nat /\ m <= Len(C) /\ m <= Len(D)  BY LenProperties DEF SameTo
<1>2. \A i \in 1..Len(D) : D[i].th = th \/ D[i].k = "resume" => i \in 1..Len(C) /\ D[i] = C[i]
  <2> SUFFICES ASSUME NEW i \in 1..Len(D), D[i].th = th \/ D[i].k = "resume" PROVE i \in 1..Len(C) /\ D[i] = C[i]
    OBVIOUS
  <2>1. i \in 1..m
    <3>1. CASE i \in (m + 1)..Len(D)  BY <3>1
    <3>2. CASE i <= m  BY <3>2, <1>1
    <3> QED  BY <3>1, <3>2, <1>1
  <2> QED  BY <2>1, <1>1 DEF SameTo
<1>3. Caught(t, D, th)
  <2>1. \A i \in Pcalls(D, th) : i \in Pcalls(C, th) /\ D[i] = C[i]  BY <1>2 DEF Pcalls
  <2> QED  BY <2>1 DEF Fine, Caught
<1>4. Waits(t, D, th)  BY <1>2 DEF Fine, Waits
<1> QED  BY <1>3, <1>4 DEF Fine

\* A running thread does not wait.
LEMMA RunnerAwake ==
    ASSUME NEW C \in Seq(CFrame), Shape(C), NEW th, C[Len(C)].th = th, NEW t
    PROVE  Waits(t, C, th)
<1>1. ASSUME NEW i \in 1..Len(C), C[i].k = "resume", C[i].from = th PROVE FALSE
  <2>1. \A m \in i..Len(C) : C[m].th # C[i].from  BY <1>1, WaiterBelow
  <2>2. Len(C) \in i..Len(C)
    <3>1. Len(C) \in Nat  BY LenProperties
    <3> QED  BY <3>1
  <2> QED  BY <2>1, <2>2, <1>1
<1> QED  BY <1>1 DEF Waits

\* The running thread does a step of its own.
LEMMA GoodOwn ==
    ASSUME NEW S, Good(S), NEW T, NEW u, Moves(S, T, u), NEW m, SameTo(S.cs, T.cs, m),
           \A i \in (m + 1)..Len(T.cs) : T.cs[i].th = S.cur /\ T.cs[i].k # "resume",
           Core(T.L, T.cs, S.cur), Sound(u), Fits(u), u.nCcalls <= Limit, Caught(u, T.cs, S.cur)
    PROVE  Good(T)
<1>1. S \in StateT /\ T \in StateT /\ T.cur = S.cur /\ T.L[S.cur] = u  BY DEF Good, Moves
<1>2. S.cs \in Seq(CFrame) /\ T.cs \in Seq(CFrame) /\ S.cur \in Thread  BY <1>1, StateFacts
<1>3. Shape(T.cs) /\ T.cs[Len(T.cs)].th = S.cur /\ Runner(u, T.cs, S.cur)  BY <1>1, <1>2, CoreRunner DEF Core
<1>4. Fine(u, T.cs, S.cur)
  <2>1. u.status = "ok"  BY <1>3 DEF Runner
  <2>2. Waits(u, T.cs, S.cur)  BY <1>2, <1>3, RunnerAwake
  <2> QED  BY <2>1, <2>2 DEF Fine
<1>5. ASSUME NEW o \in Thread, o # S.cur PROVE Fine(T.L[o], T.cs, o)
  <2>1. T.L[o] = S.L[o] /\ Fine(S.L[o], S.cs, o)  BY <1>5 DEF Good, Moves
  <2>2. \A i \in (m + 1)..Len(T.cs) : T.cs[i].th # o /\ T.cs[i].k # "resume"  BY <1>5
  <2> HIDE DEF Fine
  <2> QED  BY <2>1, <2>2, <1>2, FineElsewhere
<1>6. \A o \in Thread : Fine(T.L[o], T.cs, o)  BY <1>1, <1>4, <1>5
<1> QED  BY <1>1, <1>6 DEF Good

\* What is said of the running thread.
LEMMA GoodFacts ==
    ASSUME NEW S, Good(S), NEW t, t = S.L[S.cur], NEW n, n = Len(S.cs)
    PROVE  /\ S \in StateT /\ S.cur \in Thread /\ S.cs \in Seq(CFrame) /\ t \in ThreadT /\ n \in Nat /\ n >= 1
           /\ Core(S.L, S.cs, S.cur) /\ Runner(t, S.cs, S.cur) /\ t.status = "ok" /\ Shape(S.cs) /\ Saved(S.cs)
           /\ Sound(t) /\ Fits(t) /\ t.nCcalls <= Limit /\ Caught(t, S.cs, S.cur)
           /\ S.cs[n] \in CFrame /\ S.cs[n].th = S.cur /\ Cur(S) = t /\ TopC(S) = S.cs[n]
<1>1. S \in StateT /\ Core(S.L, S.cs, S.cur)  BY DEF Good
<1>2. S.cur \in Thread /\ S.cs \in Seq(CFrame) /\ t \in ThreadT /\ n \in Nat /\ Cur(S) = t /\ TopC(S) = S.cs[n]
  BY <1>1, StateFacts
<1>3. Runner(t, S.cs, S.cur) /\ n >= 1  BY <1>1, <1>2, CoreRunner
<1>4. t.status = "ok"  BY <1>3 DEF Runner
<1>5. Shape(S.cs) /\ Saved(S.cs) /\ S.cs[n].th = S.cur  BY <1>1 DEF Core
<1>6. S.cs[n] \in CFrame
  <2>1. n \in 1..Len(S.cs)  BY <1>2, <1>3
  <2> QED  BY <2>1, <1>2, ElementOfSeq
<1>7. Fine(t, S.cs, S.cur)  BY <1>2 DEF Good
<1> QED  BY <1>1, <1>2, <1>3, <1>4, <1>5, <1>6, <1>7 DEF Fine

\* What the running thread's luaD_pcalls saved.
LEMMA PcallFacts ==
    ASSUME NEW S, Good(S), NEW t, t = S.L[S.cur], NEW n, n = Len(S.cs), NEW i \in Pcalls(S.cs, S.cur)
    PROVE  /\ i \in 1..n /\ S.cs[i] \in CFrame /\ S.cs[i].k = "pcall" /\ S.cs[i].th = S.cur
           /\ S.cs[i].oldtop \in Nat /\ S.cs[i].oldtop <= Len(t.stack) + 1
           /\ S.cs[i].oldtop < t.ci[S.cs[i].ci].top /\ t.ci[S.cs[i].ci].base <= S.cs[i].oldtop
           /\ S.cs[i].ci \in 1..Len(t.ci) /\ S.cs[i].nCcalls < Limit /\ S.cs[i].nCcalls \in Nat
           /\ S.cs[n].k \in {"exec", "c"} => /\ S.cs[i].ci < Len(t.ci)
                                             /\ S.cs[i].oldtop <= t.ci[Len(t.ci)].func
<1> DEFINE C == S.cs
           th == S.cur
           f == C[i]
<1>1. /\ S \in StateT /\ th \in Thread /\ C \in Seq(CFrame) /\ t \in ThreadT /\ n \in Nat /\ n >= 1
      /\ Runner(t, C, th) /\ Shape(C) /\ Saved(C) /\ Caught(t, C, th) /\ C[n].th = th /\ C[n] \in CFrame
  BY GoodFacts
<1>2. i \in 1..n /\ f.k = "pcall" /\ f.th = th  BY DEF Pcalls
<1>3. f \in CFrame  BY <1>1, <1>2, ElementOfSeq
<1>4. f.oldtop \in Nat /\ f.ci \in Nat /\ f.nCcalls \in Nat  BY <1>2, <1>3, FrameFacts
<1>5. /\ f.oldtop <= Len(t.stack) + 1 /\ f.oldtop < t.ci[f.ci].top /\ t.ci[f.ci].base <= f.oldtop
      /\ \A d \in (f.ci + 1)..Len(t.ci) : f.oldtop <= t.ci[d].func
  BY <1>1 DEF Caught
<1>6. f.ci = Infos(C, th, i - 1) /\ f.nCcalls < Limit  BY <1>1, <1>2 DEF Saved, SavedFrame
<1>7. Len(t.ci) = Infos(C, th, n)  BY <1>1 DEF Runner
<1> HIDE DEF f, C, th
<1>8. /\ i - 1 \in 0..n /\ n - 1 \in 0..n /\ n \in 0..n /\ i - 1 <= n /\ n \in 1..n /\ i - 1 \in Nat /\ n = Len(C)
  BY <1>1, <1>2 DEF C
<1>9. /\ Infos(C, th, i - 1) \in Nat /\ Infos(C, th, i - 1) >= 1 /\ Infos(C, th, n) \in Nat
      /\ Infos(C, th, n - 1) \in Nat /\ Infos(C, th, i - 1) <= Infos(C, th, n)
  BY <1>1, <1>8, CountTypes, CountGrows
<1>10. f.ci \in 1..Len(t.ci)  BY <1>4, <1>6, <1>7, <1>9
<1>11. ASSUME C[n].k \in {"exec", "c"} PROVE f.ci < Len(t.ci) /\ f.oldtop <= t.ci[Len(t.ci)].func
  <2>1. i # n  BY <1>2, <1>11 DEF f
  <2>2. i - 1 <= n - 1 /\ n >= 2 /\ n \in 2..Len(C)  BY <2>1, <1>1, <1>2, <1>8
  <2>3. CallsFrame(C[n - 1], C[n])  BY <1>1, <2>2 DEF Shape
  <2>4. Runs(C[n]) \in Nat /\ Runs(C[n]) >= 1
    <3>1. CASE C[n].k = "exec"  BY <3>1, <1>1, FrameFacts
    <3>2. CASE C[n].k = "c"
      <4>1. C[n].f # "host"  BY <3>2, <2>3 DEF CallsFrame
      <4> QED  BY <3>2, <4>1, <1>1, FrameFacts
    <3> QED  BY <1>11, <3>1, <3>2
  <2>5. Infos(C, th, n) = Infos(C, th, n - 1) + Runs(C[n])  BY <1>1, <1>8, CountStep
  <2>6. Infos(C, th, i - 1) <= Infos(C, th, n - 1)  BY <1>1, <1>8, <2>2, CountGrows
  <2>7. f.ci < Len(t.ci)  BY <2>4, <2>5, <2>6, <1>6, <1>7, <1>9
  <2>8. Len(t.ci) \in (f.ci + 1)..Len(t.ci)  BY <2>7, <1>4, <1>7, <1>9
  <2> QED  BY <2>7, <2>8, <1>5
<1> QED  BY <1>2, <1>3, <1>4, <1>5, <1>6, <1>10, <1>11 DEF f, C, th

\* The stack below the luaD_pcalls stays, and calls are above them.
Kept(t, C, u, D, th) ==
    \A i \in Pcalls(D, th) :
       /\ i \in Pcalls(C, th) /\ D[i] = C[i] /\ C[i].ci \in Nat
       /\ C[i].oldtop <= Len(u.stack) + 1 /\ u.ci[C[i].ci].base = t.ci[C[i].ci].base
       /\ C[i].oldtop < u.ci[C[i].ci].top
       /\ \A d \in (C[i].ci + 1)..Len(u.ci) : \/ d \in 1..Len(t.ci) /\ u.ci[d].func = t.ci[d].func
                                              \/ C[i].oldtop <= u.ci[d].func

\* They can go back to where they were.
LEMMA CaughtTo ==
    ASSUME NEW t, NEW C, NEW th, Caught(t, C, th), NEW u, NEW D, Kept(t, C, u, D, th)
    PROVE  Caught(u, D, th)
<1> SUFFICES ASSUME NEW i \in Pcalls(D, th)
             PROVE  /\ D[i].oldtop <= Len(u.stack) + 1 /\ u.ci[D[i].ci].base <= D[i].oldtop
                    /\ D[i].oldtop < u.ci[D[i].ci].top
                    /\ \A d \in (D[i].ci + 1)..Len(u.ci) : D[i].oldtop <= u.ci[d].func
  BY DEF Caught
<1>0. /\ i \in Pcalls(C, th) /\ D[i] = C[i] /\ C[i].ci \in Nat
      /\ C[i].oldtop <= Len(u.stack) + 1 /\ u.ci[C[i].ci].base = t.ci[C[i].ci].base
      /\ C[i].oldtop < u.ci[C[i].ci].top
      /\ \A d \in (C[i].ci + 1)..Len(u.ci) : \/ d \in 1..Len(t.ci) /\ u.ci[d].func = t.ci[d].func
                                             \/ C[i].oldtop <= u.ci[d].func
  BY DEF Kept
<1>1. /\ t.ci[C[i].ci].base <= C[i].oldtop
      /\ \A d \in (C[i].ci + 1)..Len(t.ci) : C[i].oldtop <= t.ci[d].func
  BY <1>0 DEF Caught
<1>2. ASSUME NEW d \in (C[i].ci + 1)..Len(u.ci) PROVE C[i].oldtop <= u.ci[d].func
  <2>1. CASE C[i].oldtop <= u.ci[d].func  BY <2>1
  <2>2. CASE d \in 1..Len(t.ci) /\ u.ci[d].func = t.ci[d].func
    <3>1. d \in (C[i].ci + 1)..Len(t.ci)  BY <2>2, <1>0
    <3> QED  BY <3>1, <2>2, <1>1
  <2> QED  BY <2>1, <2>2, <1>0
<1> QED  BY <1>0, <1>1, <1>2

\* The C stack keeps its shape while the thread goes on in the same calls.
LEMMA CoreStay ==
    ASSUME NEW S, Good(S), NEW t, t = S.L[S.cur], NEW T, NEW u, Moves(S, T, u), T.cs = S.cs, Shares(t, u),
           Len(u.ci) = Len(t.ci), \A d \in 1..Len(t.ci) : u.ci[d].lua = t.ci[d].lua
    PROVE  Core(T.L, S.cs, S.cur)
<1>1. PICK n : n = Len(S.cs)  OBVIOUS
<1>2. /\ S.cur \in Thread /\ S.cs \in Seq(CFrame) /\ t \in ThreadT /\ n \in Nat /\ n >= 1 /\ t.nCcalls <= Limit
      /\ Core(S.L, S.cs, S.cur) /\ Runner(t, S.cs, S.cur) /\ t.status = "ok" /\ Shape(S.cs) /\ Saved(S.cs)
  BY <1>1, GoodFacts
<1>3. S.cs[n].th = S.cur  BY <1>1, GoodFacts
<1>4. SameTo(S.cs, T.cs, n)  BY <1>1, <1>2 DEF SameTo
<1>5. \A i \in (n + 1)..Len(S.cs) : FALSE  BY <1>1, <1>2
<1>6. Runner(u, S.cs, S.cur)
  <2>1. Kinds(u.ci, S.cs, S.cur)
    <3>1. Infos(S.cs, S.cur, Len(S.cs)) = Len(t.ci) /\ Kinds(t.ci, S.cs, S.cur)  BY <1>2 DEF Runner
    <3>2. KindsFollow(t.ci, u.ci, Infos(S.cs, S.cur, n), S.cs, n)  BY <1>1, <1>2, <3>1 DEF KindsFollow
    <3> QED  BY <1>1, <1>2, <1>4, <3>1, <3>2, KindsStep
  <2> QED  BY <2>1, <1>2 DEF Runner, Shares
<1> QED
  <2>1. \A o \in Thread : o # S.cur => T.L[o] = S.L[o]  BY DEF Moves
  <2>2. Runner(T.L[S.cur], S.cs, S.cur)  BY <1>6 DEF Moves
  <2>3. S.cs[Len(S.cs)].th = S.cur  BY <1>1, <1>3
  <2>4. SameTo(S.cs, S.cs, n)  BY <1>4
  <2> QED  BY <2>1, <2>2, <2>3, <2>4, <1>2, <1>5, CoreOwn

\* The thread goes on in the same frames.
LEMMA GoodStay ==
    ASSUME NEW S, Good(S), NEW t, t = S.L[S.cur], NEW T, NEW u, Moves(S, T, u), T.cs = S.cs, Shares(t, u),
           Len(u.ci) = Len(t.ci), \A d \in 1..Len(t.ci) : u.ci[d].lua = t.ci[d].lua,
           Sound(u), Fits(u), Caught(u, S.cs, S.cur)
    PROVE  Good(T)
<1>1. PICK n : n = Len(S.cs)  OBVIOUS
<1>2. S.cs \in Seq(CFrame) /\ n \in Nat /\ t.nCcalls <= Limit  BY <1>1, GoodFacts
<1>3. SameTo(S.cs, T.cs, n)  BY <1>1, <1>2 DEF SameTo
<1>4. u.nCcalls <= Limit  BY <1>2 DEF Shares
<1>5. Core(T.L, T.cs, S.cur) /\ Caught(u, T.cs, S.cur)  BY CoreStay
<1>6. \A i \in (n + 1)..Len(T.cs) : T.cs[i].th = S.cur /\ T.cs[i].k # "resume"  BY <1>1, <1>2
<1> QED  BY <1>3, <1>4, <1>5, <1>6, GoodOwn

\* A frame is pushed.
LEMMA GoodPush ==
    ASSUME NEW S, Good(S), NEW t, t = S.L[S.cur], NEW f \in CFrame, f.th = S.cur, f.k # "resume",
           CallsFrame(S.cs[Len(S.cs)], f), NEW T, NEW u, Moves(S, T, u), T.cs = Append(S.cs, f),
           Pushed(t, u, f, Len(S.cs)), Sound(u), Fits(u), u.nCcalls <= Limit, Caught(u, T.cs, S.cur)
    PROVE  Good(T)
<1>1. PICK n : n = Len(S.cs)  OBVIOUS
<1>2. S.cur \in Thread /\ S.cs \in Seq(CFrame) /\ n \in Nat /\ n >= 1 /\ Core(S.L, S.cs, S.cur)  BY <1>1, GoodFacts
<1>3. Core(T.L, Append(S.cs, f), S.cur)
  <2>1. \A o \in Thread : o # S.cur => T.L[o] = S.L[o]  BY DEF Moves
  <2>2. Pushed(S.L[S.cur], T.L[S.cur], f, Len(S.cs))  BY DEF Moves
  <2> QED  BY <2>1, <2>2, <1>2, CorePush
<1>4. Len(T.cs) = n + 1 /\ T.cs[n + 1] = f /\ \A i \in 1..n : T.cs[i] = S.cs[i]
  BY <1>1, <1>2, AppendProperties
<1>5. SameTo(S.cs, T.cs, n)  BY <1>1, <1>2, <1>4 DEF SameTo
<1>6. \A i \in (n + 1)..Len(T.cs) : T.cs[i].th = S.cur /\ T.cs[i].k # "resume"  BY <1>2, <1>4
<1>7. Core(T.L, T.cs, S.cur)  BY <1>3
<1> QED  BY <1>5, <1>6, <1>7, GoodOwn

\* A frame is popped.
LEMMA GoodPop ==
    ASSUME NEW S, Good(S), NEW t, t = S.L[S.cur], NEW f, f = S.cs[Len(S.cs)], f.k # "resume", f # Host,
           NEW T, NEW u, Moves(S, T, u), CutTo(S.cs, T.cs, Len(S.cs) - 1),
           Popped(t, u, f), Sound(u), Fits(u), u.nCcalls <= Limit, Caught(u, T.cs, S.cur)
    PROVE  Good(T)
<1>1. PICK n : n = Len(S.cs)  OBVIOUS
<1>2. S.cur \in Thread /\ S.cs \in Seq(CFrame) /\ n \in Nat /\ n >= 1 /\ Core(S.L, S.cs, S.cur)  BY <1>1, GoodFacts
<1>3. Core(T.L, T.cs, S.cur)
  <2>1. \A o \in Thread : o # S.cur => T.L[o] = S.L[o]  BY DEF Moves
  <2>2. Popped(S.L[S.cur], T.L[S.cur], S.cs[Len(S.cs)])  BY DEF Moves
  <2> QED  BY <2>1, <2>2, <1>2, CorePop
<1>4. SameTo(S.cs, T.cs, n - 1) /\ Len(T.cs) = n - 1  BY <1>1, <1>2, CutCounts
<1>5. \A i \in (n - 1 + 1)..Len(T.cs) : T.cs[i].th = S.cur /\ T.cs[i].k # "resume"  BY <1>2, <1>4
<1> QED  BY <1>3, <1>4, <1>5, GoodOwn

\* luaV_execute calls or returns in its frame.
LEMMA GoodTop ==
    ASSUME NEW S, Good(S), NEW t, t = S.L[S.cur], NEW T, NEW u, Moves(S, T, u), Len(T.cs) = Len(S.cs),
           SameTo(S.cs, T.cs, Len(S.cs) - 1), NEW f, f = S.cs[Len(S.cs)], NEW g, g = T.cs[Len(S.cs)],
           f.k = "exec", g.k = "exec", g.th = S.cur,
           Rerun(t, u, f, g), Sound(u), Fits(u), u.nCcalls <= Limit, Caught(u, T.cs, S.cur)
    PROVE  Good(T)
<1>1. PICK n : n = Len(S.cs)  OBVIOUS
<1>2. S.cur \in Thread /\ S.cs \in Seq(CFrame) /\ n \in Nat /\ n >= 1 /\ Core(S.L, S.cs, S.cur)  BY <1>1, GoodFacts
<1>3. T.cs \in Seq(CFrame)  BY StateFacts DEF Moves
<1>4. Core(T.L, T.cs, S.cur)
  <2>1. \A o \in Thread : o # S.cur => T.L[o] = S.L[o]  BY DEF Moves
  <2>2. Rerun(S.L[S.cur], T.L[S.cur], S.cs[Len(S.cs)], T.cs[Len(S.cs)])  BY DEF Moves
  <2> QED  BY <2>1, <2>2, <1>2, <1>3, CoreTop
<1>5. \A i \in (n - 1 + 1)..Len(T.cs) : T.cs[i].th = S.cur /\ T.cs[i].k # "resume"
  <2> SUFFICES ASSUME NEW i \in (n - 1 + 1)..Len(T.cs) PROVE i = n  BY <1>1
  <2> QED  BY <1>1, <1>2
<1>6. SameTo(S.cs, T.cs, n - 1)  BY <1>1
<1> QED  BY <1>4, <1>5, <1>6, GoodOwn

\* The functions of the frame on top: luaV_execute runs Lua functions, and a C function is its own.
LEMMA TopFacts ==
    ASSUME NEW S, Good(S), NEW t, t = S.L[S.cur], NEW f, f = S.cs[Len(S.cs)]
    PROVE  /\ f.k = "exec" => /\ f.n \in Nat /\ f.n >= 1 /\ Len(t.ci) - f.n >= 1
                              /\ \A d \in (Len(t.ci) - f.n + 1)..Len(t.ci) : t.ci[d].lua
                              /\ t.ci[Len(t.ci)].lua
           /\ (f.k = "c" /\ f.f # "host") => ~ t.ci[Len(t.ci)].lua /\ Len(t.ci) >= 2
<1>1. PICK n : n = Len(S.cs)  OBVIOUS
<1>2. /\ S.cur \in Thread /\ S.cs \in Seq(CFrame) /\ t \in ThreadT /\ n \in Nat /\ n >= 1 /\ f \in CFrame /\ f.th = S.cur
      /\ Core(S.L, S.cs, S.cur) /\ Runner(t, S.cs, S.cur)
  BY <1>1, GoodFacts
<1>3. /\ Len(t.ci) = Infos(S.cs, S.cur, n) /\ Kinds(t.ci, S.cs, S.cur) /\ n \in 1..Len(S.cs) /\ Len(t.ci) \in Nat
  BY <1>1, <1>2, ThreadFacts DEF Runner
<1>4. ASSUME f.k = "exec"
      PROVE  /\ f.n \in Nat /\ f.n >= 1 /\ Len(t.ci) - f.n >= 1
             /\ \A d \in (Len(t.ci) - f.n + 1)..Len(t.ci) : t.ci[d].lua
             /\ t.ci[Len(t.ci)].lua
  <2>1. f # Host /\ f.k # "resume"  BY <1>4 DEF Host
  <2>2. Infos(S.cs, S.cur, n - 1) = Len(t.ci) - Runs(f) /\ Infos(S.cs, S.cur, n - 1) >= 1
    BY <1>1, <1>2, <2>1, BelowTop
  <2>3. f.n \in Nat /\ f.n >= 1 /\ Runs(f) = f.n  BY <1>2, <1>4, FrameFacts
  <2>4. \A d \in (Infos(S.cs, S.cur, n - 1) + 1)..Infos(S.cs, S.cur, n) : t.ci[d].lua
    BY <1>1, <1>2, <1>3, <1>4 DEF Kinds
  <2>5. Len(t.ci) \in (Len(t.ci) - f.n + 1)..Len(t.ci)  BY <1>3, <2>3
  <2> QED  BY <1>3, <2>2, <2>3, <2>4, <2>5
<1>5. ASSUME f.k = "c", f.f # "host" PROVE ~ t.ci[Len(t.ci)].lua /\ Len(t.ci) >= 2
  <2>1. f # Host /\ f.k # "resume"  BY <1>5 DEF Host
  <2>2. Infos(S.cs, S.cur, n - 1) = Len(t.ci) - Runs(f) /\ Infos(S.cs, S.cur, n - 1) >= 1
    BY <1>1, <1>2, <2>1, BelowTop
  <2>3. Runs(f) = 1  BY <1>2, <1>5, FrameFacts
  <2>4. ~ t.ci[Infos(S.cs, S.cur, n)].lua  BY <1>1, <1>2, <1>3, <1>5 DEF Kinds
  <2> QED  BY <1>3, <2>2, <2>3, <2>4
<1> QED  BY <1>4, <1>5

\* The same functions, on another stack.
LEMMA RegrownSame ==
    ASSUME NEW t \in ThreadT, NEW u, Regrown(t, u)
    PROVE  Shares(t, u) /\ SameInfos(t, u)
<1>1. \A d \in 1..Len(t.ci) : t.ci[d].top >= t.ci[d].top
  <2> SUFFICES ASSUME NEW d \in 1..Len(t.ci) PROVE t.ci[d].top >= t.ci[d].top  OBVIOUS
  <2>1. t.ci[d].top \in Nat  BY ThreadFacts
  <2> QED  BY <2>1
<1> QED  BY <1>1 DEF Regrown, SameCalls, Shares, SameInfos

\* The stack is still higher than what luaD_pcall saved.
LEMMA CaughtAgain ==
    ASSUME NEW S, Good(S), NEW t, t = S.L[S.cur], NEW u \in ThreadT, SameInfos(t, u), Sound(u),
           S.cs[Len(S.cs)].k \in {"exec", "c"} \/ Len(u.stack) >= Len(t.stack)
    PROVE  Caught(u, S.cs, S.cur)
<1>1. PICK n : n = Len(S.cs)  OBVIOUS
<1>2. t \in ThreadT /\ Caught(t, S.cs, S.cur)  BY <1>1, GoodFacts
<1>3. ASSUME NEW i \in Pcalls(S.cs, S.cur)
      PROVE  /\ S.cs[i].ci \in Nat /\ S.cs[i].oldtop <= Len(u.stack) + 1
             /\ u.ci[S.cs[i].ci].base = t.ci[S.cs[i].ci].base /\ S.cs[i].oldtop < u.ci[S.cs[i].ci].top
             /\ \A d \in (S.cs[i].ci + 1)..Len(u.ci) : d \in 1..Len(t.ci) /\ u.ci[d].func = t.ci[d].func
  <2>1. /\ S.cs[i].oldtop \in Nat /\ S.cs[i].oldtop <= Len(t.stack) + 1 /\ S.cs[i].ci \in 1..Len(t.ci)
        /\ S.cs[n].k \in {"exec", "c"} => S.cs[i].oldtop <= t.ci[Len(t.ci)].func
        /\ S.cs[i].oldtop < t.ci[S.cs[i].ci].top
    BY <1>1, PcallFacts
  <2>2. Len(t.ci) \in Nat /\ Len(t.stack) \in Nat /\ Len(u.stack) \in Nat  BY <1>2, ThreadFacts
  <2>3. Len(t.ci) \in 1..Len(t.ci)  BY <2>1, <2>2
  <2>4. /\ Len(u.ci) = Len(t.ci) /\ u.ci[S.cs[i].ci].base = t.ci[S.cs[i].ci].base
        /\ u.ci[Len(u.ci)].func = t.ci[Len(t.ci)].func
    BY <2>1, <2>3 DEF SameInfos
  <2>5. u.ci[Len(u.ci)].func \in Nat /\ u.ci[Len(u.ci)].func < u.base /\ u.base \in Nat /\ u.base <= Len(u.stack) + 1
    BY BaseFacts
  <2>6. S.cs[i].oldtop <= Len(u.stack) + 1
    <3>1. CASE S.cs[Len(S.cs)].k \in {"exec", "c"}
      <4>1. S.cs[i].oldtop <= u.ci[Len(u.ci)].func /\ S.cs[i].oldtop \in Nat  BY <3>1, <1>1, <2>1, <2>4
      <4>2. PICK o : o = S.cs[i].oldtop  OBVIOUS
      <4>3. PICK f : f = u.ci[Len(u.ci)].func  OBVIOUS
      <4>4. PICK l : l = Len(u.stack)  OBVIOUS
      <4>5. o \in Nat /\ f \in Nat /\ l \in Nat /\ u.base \in Nat /\ o <= f /\ f < u.base /\ u.base <= l + 1
        BY <4>1, <4>2, <4>3, <4>4, <2>2, <2>5
      <4>6. o <= l + 1  BY <4>5
      <4> QED  BY <4>2, <4>4, <4>6
    <3>2. CASE Len(u.stack) >= Len(t.stack)
      <4>1. PICK o : o = S.cs[i].oldtop  OBVIOUS
      <4>2. PICK k : k = Len(t.stack)  OBVIOUS
      <4>3. PICK l : l = Len(u.stack)  OBVIOUS
      <4>4. o \in Nat /\ k \in Nat /\ l \in Nat /\ o <= k + 1 /\ l >= k  BY <3>2, <4>1, <4>2, <4>3, <2>1, <2>2
      <4>5. o <= l + 1  BY <4>4
      <4> QED  BY <4>1, <4>3, <4>5
    <3> QED  BY <3>1, <3>2
  <2>7. \A d \in (S.cs[i].ci + 1)..Len(u.ci) : d \in 1..Len(t.ci)  BY <2>1, <2>2, <2>4
  <2>8. \A d \in (S.cs[i].ci + 1)..Len(u.ci) : u.ci[d].func = t.ci[d].func  BY <2>7 DEF SameInfos
  <2>9. S.cs[i].ci \in Nat  BY <2>1
  <2>10. S.cs[i].oldtop < u.ci[S.cs[i].ci].top
    <3>1. PICK d : d = S.cs[i].ci  OBVIOUS
    <3>2. d \in 1..Len(t.ci) /\ S.cs[i].oldtop < t.ci[d].top  BY <2>1, <3>1
    <3>3. u.ci[d].top >= t.ci[d].top /\ d \in 1..Len(u.ci)  BY <2>4, <3>2 DEF SameInfos
    <3>4. t.ci[d].top \in Nat /\ u.ci[d].top \in Nat  BY <1>2, <3>2, <3>3, ThreadFacts
    <3>5. S.cs[i].oldtop \in Nat  BY <2>1
    <3>6. PICK o : o = S.cs[i].oldtop  OBVIOUS
    <3>7. PICK a : a = t.ci[d].top  OBVIOUS
    <3>8. PICK b : b = u.ci[d].top  OBVIOUS
    <3>9. o \in Nat /\ a \in Nat /\ b \in Nat /\ o < a /\ b >= a  BY <3>2, <3>3, <3>4, <3>5, <3>6, <3>7, <3>8
    <3>10. o < b  BY <3>9
    <3> QED  BY <3>1, <3>6, <3>8, <3>10
  <2> QED  BY <2>4, <2>6, <2>7, <2>8, <2>9, <2>10
<1>4. Kept(t, S.cs, u, S.cs, S.cur)  BY <1>3 DEF Kept
<1> QED  BY <1>2, <1>4, CaughtTo

\* The running thread changes its stack.
LEMMA GoodAgain ==
    ASSUME NEW S, Good(S), NEW t, t = S.L[S.cur], NEW T, NEW u, Moves(S, T, u), T.cs = S.cs,
           Shares(t, u), SameInfos(t, u), Sound(u), Fits(u),
           S.cs[Len(S.cs)].k \in {"exec", "c"} \/ Len(u.stack) >= Len(t.stack)
    PROVE  Good(T)
<1>1. S.cur \in Thread  BY GoodFacts
<1>2. u \in ThreadT
  <2>1. T \in StateT /\ u = T.L[S.cur]  BY DEF Moves
  <2> QED  BY <1>1, <2>1, StateFacts
<1>3. Caught(u, S.cs, S.cur)  BY <1>2, CaughtAgain
<1>4. Len(u.ci) = Len(t.ci) /\ \A d \in 1..Len(t.ci) : u.ci[d].lua = t.ci[d].lua  BY DEF SameInfos
<1> QED  BY <1>3, <1>4, GoodStay

\* What is done next makes no difference to the threads.
LEMMA GoodDo ==
    ASSUME NEW S, Good(S), NEW o \in Ops
    PROVE  /\ Good(Do(S, o)) /\ Do(S, o).L = S.L /\ Do(S, o).cs = S.cs /\ Do(S, o).cur = S.cur /\ Do(S, o).op = o
           /\ Do(S, o) \in StateT
<1>1. S \in StateT  BY DEF Good
<1>2. Do(S, o) \in StateT /\ Do(S, o).L = S.L /\ Do(S, o).cs = S.cs /\ Do(S, o).cur = S.cur /\ Do(S, o).op = o
  BY <1>1, DoFacts
<1> QED  BY <1>2 DEF Good

\* luaG_runerror.
LEMMA RunErrorInv ==
    ASSUME NEW S, Good(S), NEW t, t = S.L[S.cur], ErrorReady(S.cs[Len(S.cs)]), t.nCcalls < Limit
    PROVE  IInv(RunError(S))
<1>1. PICK n : n = Len(S.cs)  OBVIOUS
<1>2. S \in StateT /\ t \in ThreadT /\ Sound(t) /\ Fits(t) /\ Cur(S) = t  BY <1>1, GoodFacts
<1>3. PICK u : u = Push(t, Value)  OBVIOUS
<1>4. u \in ThreadT /\ Sound(u) /\ Regrown(t, u) /\ Fits(u) /\ Len(u.stack) = Len(t.stack) + 1
  <2>1. Value \in Int  BY DEF Value
  <2> QED  BY <1>2, <1>3, <2>1, PushSound
<1>5. PICK T : T = With(S, u)  OBVIOUS
<1>6. Moves(S, T, u) /\ T.cs = S.cs /\ T.cur = S.cur /\ T.L[S.cur] = u  BY <1>2, <1>4, <1>5, WithFacts
<1>a. PICK l : l = Len(t.stack)  OBVIOUS
<1>b. PICK k : k = Len(u.stack)  OBVIOUS
<1>c. l \in Nat /\ k = l + 1
  <2>1. Len(t.stack) \in Nat /\ Len(u.stack) = Len(t.stack) + 1  BY <1>2, <1>4, ThreadFacts
  <2> QED  BY <2>1, <1>a, <1>b
<1>7. Len(u.stack) >= Len(t.stack)
  <2>1. k >= l  BY <1>c
  <2> QED  BY <2>1, <1>a, <1>b
<1>8. Good(T)
  <2>1. Shares(t, u) /\ SameInfos(t, u)  BY <1>2, <1>4, RegrownSame
  <2> QED  BY <1>4, <1>6, <1>7, <2>1, GoodAgain
<1>9. PICK E : E = Do(T, "error")  OBVIOUS
<1>10. Good(E) /\ E.L = T.L /\ E.cs = T.cs /\ E.cur = T.cur /\ E.op = "error"  BY <1>8, <1>9, GoodDo DEF Ops
<1>11. Raised(u, S.cs, S.cur)
  <2>1. u.base = t.base /\ u.ci = t.ci  BY <1>4 DEF Regrown, SameCalls
  <2>2. /\ t.base \in Nat /\ t.base <= Len(t.stack) + 1 /\ (t.ci[Len(t.ci)].lua => t.base <= Len(t.stack))
    BY <1>2, BaseFacts
  <2>3. t.base <= k /\ (t.ci[Len(t.ci)].lua => t.base < k)
    <3>1. t.base <= l + 1 /\ t.base \in Nat  BY <1>a, <2>2
    <3>2. t.base <= k  BY <1>c, <3>1
    <3>3. ASSUME t.ci[Len(t.ci)].lua PROVE t.base < k
      <4>1. t.base <= l  BY <1>a, <2>2, <3>3
      <4> QED  BY <1>c, <3>1, <4>1
    <3> QED  BY <3>2, <3>3
  <2>4. \A i \in Pcalls(S.cs, S.cur) : S.cs[i].oldtop <= Len(u.stack)
    BY <1>4, PcallFacts
  <2> QED  BY <2>1, <2>3, <2>4, <1>b DEF Raised
<1>12. u.nCcalls < Limit  BY <1>4 DEF Regrown, SameCalls
<1>13. Ready(E)  BY <1>6, <1>10, <1>11, <1>12 DEF Ready
<1>14. RunError(S) = E  BY <1>2, <1>3, <1>5, <1>9 DEF RunError
<1> QED  BY <1>10, <1>13, <1>14 DEF IInv

\* An error is thrown at once.
LEMMA ThrowInv ==
    ASSUME NEW S, Good(S), ErrorReady(S.cs[Len(S.cs)])
    PROVE  IInv(Do(S, "throw"))
<1>1. PICK E : E = Do(S, "throw")  OBVIOUS
<1>2. Good(E) /\ E.L = S.L /\ E.cs = S.cs /\ E.cur = S.cur /\ E.op = "throw"  BY <1>1, GoodDo DEF Ops
<1>3. Ready(E)  BY <1>2 DEF Ready
<1> QED  BY <1>1, <1>2, <1>3 DEF IInv

\* growCI fails.
LEMMA OverflowErrorInv ==
    ASSUME NEW S, Good(S), NEW t, t = S.L[S.cur], ErrorReady(S.cs[Len(S.cs)]), t.nCcalls < Limit
    PROVE  IInv(OverflowError(S))
<1>1. PICK n : n = Len(S.cs)  OBVIOUS
<1>2. S \in StateT /\ t \in ThreadT /\ Sound(t) /\ Fits(t) /\ Cur(S) = t  BY <1>1, GoodFacts
<1>3. CASE t.sizeci > MaxCalls
  <2>1. OverflowError(S) = Do(S, "throw")  BY <1>2, <1>3 DEF OverflowError
  <2> QED  BY <2>1, ThrowInv
<1>4. CASE ~ t.sizeci > MaxCalls
  <2>1. PICK u : u = GrowCI(t)  OBVIOUS
  <2>2. u \in ThreadT /\ Regrown(t, u) /\ u.stack = t.stack /\ StackLast(u) = StackLast(t) /\ Sound(u)
    BY <1>2, <2>1, GrowCISound
  <2>3. PICK T : T = With(S, u)  OBVIOUS
  <2>4. Moves(S, T, u) /\ T.cs = S.cs /\ T.cur = S.cur /\ T.L[S.cur] = u  BY <1>2, <2>2, <2>3, WithFacts
  <2>5. Good(T)
    <3>1. Shares(t, u) /\ SameInfos(t, u)  BY <1>2, <2>2, RegrownSame
    <3>2. Len(u.stack) >= Len(t.stack)
      <4>1. Len(t.stack) \in Nat  BY <1>2, ThreadFacts
      <4> QED  BY <2>2, <4>1
    <3>3. Fits(u)  BY <1>2, <2>2 DEF Fits
    <3> QED  BY <2>2, <2>4, <3>1, <3>2, <3>3, GoodAgain
  <2>6. u.nCcalls < Limit  BY <2>2 DEF Regrown, SameCalls
  <2>7. IInv(RunError(T))  BY <2>4, <2>5, <2>6, RunErrorInv
  <2>8. OverflowError(S) = RunError(T)  BY <1>2, <1>4, <2>1, <2>3 DEF OverflowError
  <2> QED  BY <2>7, <2>8
<1> QED  BY <1>3, <1>4

\* The older luaD_pcalls of D are the ones of C.
Older(C, D, th) == \A i \in Pcalls(D, th) : i \in Pcalls(C, th) /\ D[i] = C[i]

\* A frame of another kind on top of C.
LEMMA OlderPush ==
    ASSUME NEW C \in Seq(CFrame), NEW D, Len(D) = Len(C) + 1, \A i \in 1..Len(C) : D[i] = C[i],
           D[Len(C) + 1].k # "pcall", NEW th
    PROVE  Older(C, D, th)
<1> SUFFICES ASSUME NEW i \in Pcalls(D, th) PROVE i \in Pcalls(C, th) /\ D[i] = C[i]  BY DEF Older
<1>1. Len(C) \in Nat  BY LenProperties
<1>2. i \in 1..(Len(C) + 1) /\ D[i].k = "pcall" /\ D[i].th = th  BY DEF Pcalls
<1>3. i # Len(C) + 1  BY <1>2
<1>4. i \in 1..Len(C)  BY <1>1, <1>2, <1>3
<1> QED  BY <1>2, <1>4 DEF Pcalls

\* A part of C, or C with another luaV_execute on top.
LEMMA OlderSame ==
    ASSUME NEW C \in Seq(CFrame), NEW D \in Seq(CFrame), NEW m, SameTo(C, D, m),
           \A i \in (m + 1)..Len(D) : D[i].k # "pcall", NEW th
    PROVE  Older(C, D, th)
<1> SUFFICES ASSUME NEW i \in Pcalls(D, th) PROVE i \in Pcalls(C, th) /\ D[i] = C[i]  BY DEF Older
<1>1. Len(C) \in Nat /\ m \in Nat /\ m <= Len(C) /\ Len(D) \in Nat /\ m <= Len(D)  BY LenProperties DEF SameTo
<1>2. i \in 1..Len(D) /\ D[i].k = "pcall" /\ D[i].th = th  BY DEF Pcalls
<1>3. ~ (i \in (m + 1)..Len(D))  BY <1>2
<1>4. i \in 1..m /\ i \in 1..Len(C)  BY <1>1, <1>2, <1>3
<1> QED  BY <1>2, <1>4 DEF Pcalls, SameTo

\* A function is called above what luaD_pcall saved.
LEMMA CaughtCall ==
    ASSUME NEW S, Good(S), NEW t, t = S.L[S.cur], NEW c, Above(S.cs, S.cur, c.func), c.func \in Nat,
           NEW u, Added(t, u, c), c.func <= Len(u.stack) + 1, Len(u.stack) \in Nat,
           NEW D, Older(S.cs, D, S.cur), c \in CallInfo
    PROVE  Caught(u, D, S.cur)
<1>1. PICK n : n = Len(S.cs)  OBVIOUS
<1>2. t \in ThreadT /\ Caught(t, S.cs, S.cur)  BY <1>1, GoodFacts
<1>3. Len(t.ci) \in Nat  BY <1>2, ThreadFacts
<1>4. PICK w : w = u.ci  OBVIOUS
<1>5. Len(w) = Len(t.ci) + 1 /\ w[Len(t.ci) + 1] = c /\ \A d \in 1..Len(t.ci) : w[d] = t.ci[d]  BY <1>4 DEF Added
<1>6. u.ci = w  BY <1>4
<1>7. Kept(t, S.cs, u, D, S.cur)
  <2> SUFFICES ASSUME NEW i \in Pcalls(D, S.cur)
               PROVE  /\ i \in Pcalls(S.cs, S.cur) /\ D[i] = S.cs[i] /\ S.cs[i].ci \in Nat
                      /\ S.cs[i].oldtop <= Len(u.stack) + 1 /\ u.ci[S.cs[i].ci].base = t.ci[S.cs[i].ci].base
                      /\ S.cs[i].oldtop < u.ci[S.cs[i].ci].top
                      /\ \A d \in (S.cs[i].ci + 1)..Len(u.ci) : \/ d \in 1..Len(t.ci) /\ u.ci[d].func = t.ci[d].func
                                                                \/ S.cs[i].oldtop <= u.ci[d].func
    BY DEF Kept
  <2>1. i \in Pcalls(S.cs, S.cur) /\ D[i] = S.cs[i]  BY DEF Older
  <2>2. S.cs[i].oldtop \in Nat /\ S.cs[i].ci \in 1..Len(t.ci) /\ S.cs[i].oldtop < t.ci[S.cs[i].ci].top
    BY <1>1, <2>1, PcallFacts
  <2>3. S.cs[i].oldtop <= c.func  BY <2>1 DEF Above
  <2>4. S.cs[i].oldtop <= Len(u.stack) + 1  BY <2>2, <2>3
  <2>5. u.ci[S.cs[i].ci].base = t.ci[S.cs[i].ci].base /\ S.cs[i].oldtop < u.ci[S.cs[i].ci].top
    BY <1>5, <1>6, <2>2
  <2>6. ASSUME NEW d \in (S.cs[i].ci + 1)..Len(u.ci)
        PROVE  \/ d \in 1..Len(t.ci) /\ u.ci[d].func = t.ci[d].func
               \/ S.cs[i].oldtop <= u.ci[d].func
    <3>0. d \in 1..(Len(t.ci) + 1)  BY <1>3, <1>5, <1>6, <2>2
    <3>1. CASE d = Len(t.ci) + 1  BY <3>1, <1>5, <1>6, <2>3
    <3>2. CASE d \in 1..Len(t.ci)  BY <3>2, <1>5, <1>6
    <3> QED  BY <3>0, <3>1, <3>2, <1>3
  <2>7. S.cs[i].ci \in Nat  BY <2>2
  <2> QED  BY <2>1, <2>4, <2>5, <2>6, <2>7
<1> QED  BY <1>2, <1>7, CaughtTo

\* luaD_precall of a C function.
LEMMA EnterC ==
    ASSUME NEW S, Good(S), NEW t, t = S.L[S.cur], S.cs[Len(S.cs)].k \in {"exec", "call"},
           NEW f \in CFunctions \ {"host"}, NEW func, Callable(t, func), Above(S.cs, S.cur, func),
           NEW nres \in {0, 1, MULTRET}, func + Arity(f) <= Len(t.stack), t.nCcalls < Limit,
           Len(t.stack) + MinStack < StackLast(t)
    PROVE  IInv(Do(NewCFrame(S, f, func, nres), "run"))
<1>1. PICK n : n = Len(S.cs)  OBVIOUS
<1>2. /\ S \in StateT /\ S.cur \in Thread /\ S.cs \in Seq(CFrame) /\ t \in ThreadT /\ n \in Nat /\ Sound(t)
      /\ Cur(S) = t /\ t.status = "ok" /\ S.cs[n].th = S.cur /\ t.nCcalls <= Limit
  BY <1>1, GoodFacts
<1>3. PICK w : w = GrowCI(t)  OBVIOUS
<1>4. /\ w \in ThreadT /\ SameCalls(t, w) /\ w.stack = t.stack /\ w.open = t.open /\ StackLast(w) = StackLast(t)
      /\ Sound(w)
  BY <1>2, <1>3, GrowCISound
<1>5. w.base = t.base /\ w.ci = t.ci /\ Shares(t, w)  BY <1>4 DEF SameCalls, Shares
<1>6. Callable(w, func)  BY <1>4, <1>5 DEF Callable
<1>6a. Len(w.stack) + MinStack < StackLast(w)  BY <1>4
<1>7. PICK c : c = CInfo(w, func, nres)  OBVIOUS
<1>8. PICK u : u = CThread(w, func, nres)  OBVIOUS
<1>9. /\ u \in ThreadT /\ Sound(u) /\ Fits(u) /\ Shares(w, u) /\ u.stack = w.stack
      /\ c \in CallInfo /\ Added(w, u, c) /\ u.base = func + 1
  BY <1>4, <1>6, <1>6a, <1>7, <1>8, CalledC
<1>10. Shares(t, u) /\ Added(t, u, c) /\ u.stack = t.stack  BY <1>4, <1>5, <1>9 DEF Shares, Added
<1>11. PICK g : g = [k |-> "c", th |-> S.cur, f |-> f]  OBVIOUS
<1>12. g \in CFrame /\ g.th = S.cur /\ g.k = "c" /\ g.f = f  BY <1>2, <1>11 DEF CFrame
<1>13. PICK T : T = PushC(With(S, u), g)  OBVIOUS
<1>14. /\ Moves(S, T, u) /\ T.cs = Append(S.cs, g) /\ Len(T.cs) = n + 1 /\ T.cs[n + 1] = g
       /\ \A i \in 1..n : T.cs[i] = S.cs[i]
  <2>1. PICK W : W = With(S, u)  OBVIOUS
  <2>2. W \in StateT /\ Moves(S, W, u) /\ W.cs = S.cs /\ W.cur = S.cur  BY <1>2, <1>9, <2>1, WithFacts
  <2>3. /\ T \in StateT /\ T.L = W.L /\ T.cur = W.cur /\ T.cs = Append(W.cs, g) /\ Len(T.cs) = Len(W.cs) + 1
        /\ T.cs[Len(W.cs) + 1] = g /\ \A i \in 1..Len(W.cs) : T.cs[i] = W.cs[i]
    BY <1>12, <1>13, <2>1, <2>2, PushCFacts
  <2> QED  BY <1>1, <2>2, <2>3 DEF Moves
<1>15. Len(t.stack) \in Nat /\ Len(t.ci) \in Nat /\ t.ci \in Seq(CallInfo) /\ func \in Nat /\ func <= Len(t.stack)
  BY <1>2, ThreadFacts DEF Callable
<1>16. c.func = func /\ ~ c.lua /\ c.top = Len(t.stack) + 1 + MinStack  BY <1>4, <1>7 DEF CInfo, Top
<1>17. Caught(u, T.cs, S.cur)
  <2>1. Older(S.cs, T.cs, S.cur)  BY <1>1, <1>2, <1>12, <1>14, OlderPush
  <2>2. func <= Len(u.stack) + 1 /\ Len(u.stack) \in Nat  BY <1>10, <1>15
  <2> QED  BY <1>9, <1>10, <1>15, <1>16, <2>1, <2>2, CaughtCall
<1>18. /\ Len(u.ci) = Len(t.ci) + 1 /\ u.ci[Len(t.ci) + 1] = c /\ \A d \in 1..Len(t.ci) : u.ci[d] = t.ci[d]
  BY <1>10 DEF Added
<1>19. Pushed(t, u, g, Len(S.cs))
  <2>1. Runs(g) = 1  BY <1>12, FrameFacts
  <2>2. t.nCcalls \in Nat  BY <1>2, ThreadFacts
  <2>3. /\ u.status = "ok" /\ u.nCcalls = t.nCcalls + 0 /\ u.errfunc = t.errfunc /\ u.jmp = t.jmp
    BY <2>2, <1>2, <1>10 DEF Shares
  <2>4. Len(u.ci) = Len(t.ci) + Runs(g) /\ \A d \in 1..Len(t.ci) : u.ci[d].lua = t.ci[d].lua  BY <2>1, <1>18
  <2>5. ~ u.ci[Len(t.ci) + 1].lua  BY <1>16, <1>18
  <2>6. g.k # "call" /\ g.k # "exec" /\ g.k # "pcall"  BY <1>12
  <2> QED  BY <2>3, <2>4, <2>5, <2>6 DEF Pushed
<1>20. CallsFrame(S.cs[Len(S.cs)], g)  BY <1>1, <1>2, <1>12 DEF CallsFrame
<1>21. u.nCcalls = t.nCcalls  BY <1>10 DEF Shares
<1>22. Good(T)  BY <1>2, <1>9, <1>12, <1>14, <1>17, <1>19, <1>20, <1>21, GoodPush
<1>23. PICK E : E = Do(T, "run")  OBVIOUS
<1>24. Good(E) /\ E.L = T.L /\ E.cs = T.cs /\ E.cur = T.cur /\ E.op = "run"  BY <1>22, <1>23, GoodDo DEF Ops
<1>25. T.cur = S.cur /\ T.L[S.cur] = u  BY <1>14 DEF Moves
<1>26. RunReady(g, u)
  <2>1. Arity(f) \in Nat  BY DEF Arity
  <2>2. PICK l : l = Len(t.stack)  OBVIOUS
  <2>3. l \in Nat /\ func \in Nat /\ func + Arity(f) <= l  BY <2>2, <1>15
  <2>4. func + 1 + Arity(f) <= l + 1  BY <2>1, <2>3
  <2>5. l + 2 <= l + 1 + MinStack  BY <2>3, Constants
  <2>6. u.base + Arity(f) <= Len(u.stack) + 1  BY <2>2, <2>4, <1>9, <1>10
  <2>7. Len(u.stack) + 2 <= u.ci[Len(u.ci)].top  BY <2>2, <2>5, <1>10, <1>16, <1>18
  <2> QED  BY <2>6, <2>7, <1>12 DEF RunReady
<1>27. Ready(E)  BY <1>14, <1>21, <1>24, <1>25, <1>26 DEF Ready
<1>28. NewCFrame(S, f, func, nres) = T  
  <2>1. u = [w EXCEPT !.base = func + 1, !.ci = Append(@, [func |-> func, base |-> func + 1,
                      top |-> Top(w) + MinStack, nres |-> nres, lua |-> FALSE])]
    BY <1>4, <1>8 DEF CThread, CInfo, ThreadT
  <2> QED  BY <2>1, <1>2, <1>3, <1>11, <1>13 DEF NewCFrame
<1> QED  BY <1>23, <1>24, <1>27, <1>28 DEF IInv

\* One luaV_execute more, or one more function in the one on top.
LEMMA EnterLua ==
    ASSUME NEW S, Good(S), NEW t, t = S.L[S.cur], S.cs[Len(S.cs)].k \in {"exec", "call", "resume"},
           NEW u \in ThreadT, Sound(u), Fits(u), Shares(t, u), NEW c \in CallInfo, Added(t, u, c), c.lua,
           Above(S.cs, S.cur, c.func), c.func <= Len(u.stack) + 1, t.nCcalls < Limit
    PROVE  IInv(Do(RunLua(With(S, u)), "run"))
<1>1. PICK n : n = Len(S.cs)  OBVIOUS
<1>2. /\ S \in StateT /\ S.cur \in Thread /\ S.cs \in Seq(CFrame) /\ t \in ThreadT /\ n \in Nat /\ n >= 1
      /\ t.status = "ok" /\ S.cs[n].th = S.cur /\ t.nCcalls <= Limit /\ S.cs[n] \in CFrame
  BY <1>1, GoodFacts
<1>3. PICK W : W = With(S, u)  OBVIOUS
<1>4. W \in StateT /\ Moves(S, W, u) /\ W.cs = S.cs /\ W.cur = S.cur  BY <1>2, <1>3, WithFacts
<1>5. PICK T : T = RunLua(W)  OBVIOUS
<1>6. TopC(W) = S.cs[n] /\ Len(W.cs) = n  BY <1>1, <1>4, StateFacts
<1>7. Len(t.ci) \in Nat /\ t.nCcalls \in Nat  BY <1>2, ThreadFacts
<1>8. c.func \in Nat /\ Len(u.stack) \in Nat  BY ThreadFacts DEF CallInfo
<1>9. Len(u.ci) = Len(t.ci) + 1 /\ u.ci[Len(t.ci) + 1].lua /\ \A d \in 1..Len(t.ci) : u.ci[d].lua = t.ci[d].lua
  BY DEF Added
<1>10. /\ u.status = "ok" /\ u.nCcalls = t.nCcalls /\ u.errfunc = t.errfunc /\ u.jmp = t.jmp /\ u.nCcalls <= Limit
  BY <1>2 DEF Shares
<1>11. Good(T) /\ T.L[T.cur] = u /\ T.cs[Len(T.cs)].k = "exec"
  <2>1. CASE S.cs[n].k = "exec"
    <3>1. PICK f : f = S.cs[n]  OBVIOUS
    <3>2. f.n \in Nat /\ f.n >= 1 /\ f \in CFrame /\ f.k = "exec" /\ f.th = S.cur  BY <2>1, <3>1, <1>2, FrameFacts
    <3>3. PICK g : g = [f EXCEPT !.n = @ + 1]  OBVIOUS
    <3>4. f \in [k : {"exec"}, th : Thread, n : Nat \ {0}]  BY <3>2 DEF CFrame
    <3>5. g \in [k : {"exec"}, th : Thread, n : Nat \ {0}] /\ g.n = f.n + 1 /\ g.k = "exec" /\ g.th = S.cur
      BY <3>2, <3>3, <3>4
    <3>6. g \in CFrame  BY <3>5 DEF CFrame
    <3>7. PICK D : D = [S.cs EXCEPT ![n] = g]  OBVIOUS
    <3>8. D \in Seq(CFrame) /\ Len(D) = n /\ D[n] = g /\ \A i \in 1..n : i # n => D[i] = S.cs[i]
      <4>1. \A i \in 1..n : S.cs[i] \in CFrame  BY <1>1, <1>2, ElementOfSeq
      <4>2. DOMAIN S.cs = 1..n  BY <1>1, <1>2, LenProperties
      <4>3. D \in [1..n -> CFrame]
        <5>1. DOMAIN D = 1..n  BY <3>7, <4>2
        <5>2. D = [i \in 1..n |-> IF i = n THEN g ELSE S.cs[i]]  BY <3>7, <4>2
        <5> QED  BY <5>2, <4>1, <3>6
      <4>4. D \in Seq(CFrame) /\ Len(D) = n  BY <4>3, <1>2, FunctionIsSeq
      <4>5. n \in 1..n  BY <1>2
      <4> QED  BY <4>2, <4>4, <4>5, <3>7
    <3>9. T = [W EXCEPT !.cs = D]
      <4>1. T = [W EXCEPT !.cs[Len(W.cs)].n = @ + 1]  BY <2>1, <1>5, <1>6 DEF RunLua
      <4>2. [W EXCEPT !.cs[Len(W.cs)].n = @ + 1] = [W EXCEPT !.cs = [W.cs EXCEPT ![n] = [W.cs[n] EXCEPT !.n = @ + 1]]]
        BY <1>4, <1>6 DEF StateT
      <4> QED  BY <4>1, <4>2, <3>1, <3>3, <3>7, <1>4
    <3>10. /\ Moves(S, T, u) /\ T.cs = D
      <4>1. T \in StateT /\ T.L = W.L /\ T.cur = W.cur /\ T.cs = D  BY <3>8, <3>9, <1>4, FramesFacts
      <4> QED  BY <4>1, <1>4 DEF Moves
    <3>11. SameTo(S.cs, D, n - 1)
      <4>1. \A i \in 1..(n - 1) : i \in 1..n /\ i # n  BY <1>2
      <4>2. n - 1 \in 0..n  BY <1>2
      <4>3. \A i \in 1..(n - 1) : D[i] = S.cs[i]  BY <4>1, <3>8
      <4>4. Len(D) = n /\ Len(S.cs) = n  BY <3>8, <1>1
      <4> QED  BY <4>2, <4>3, <4>4 DEF SameTo
    <3>12. Caught(u, D, S.cur)
      <4>1. \A i \in (n - 1 + 1)..Len(D) : D[i].k # "pcall"
        <5> SUFFICES ASSUME NEW i \in (n - 1 + 1)..Len(D) PROVE i = n  BY <3>5, <3>8
        <5> QED  BY <3>8, <1>2
      <4>2. Older(S.cs, D, S.cur)  BY <4>1, <3>8, <3>11, <1>2, OlderSame
      <4> QED  BY <4>2, <1>8, CaughtCall
    <3>13. Rerun(t, u, f, g)
      <4>1. /\ Len(t.ci) - f.n >= 1 /\ \A d \in (Len(t.ci) - f.n + 1)..Len(t.ci) : t.ci[d].lua
        BY <3>1, <3>2, <1>1, TopFacts
      <4>2. Len(u.ci) = Len(t.ci) - f.n + g.n  BY SMTT(30), <3>2, <3>5, <1>7, <1>9
      <4>3. \A d \in 1..(Len(t.ci) - f.n) : u.ci[d].lua = t.ci[d].lua
        <5> SUFFICES ASSUME NEW d \in 1..(Len(t.ci) - f.n) PROVE d \in 1..Len(t.ci)  BY <1>9
        <5> QED  BY <3>2, <1>7
      <4>4. \A d \in (Len(t.ci) - f.n + 1)..Len(u.ci) : u.ci[d].lua
        <5> SUFFICES ASSUME NEW d \in (Len(t.ci) - f.n + 1)..Len(u.ci) PROVE u.ci[d].lua  OBVIOUS
        <5>1. (d \in 1..Len(t.ci) /\ d \in (Len(t.ci) - f.n + 1)..Len(t.ci)) \/ d = Len(t.ci) + 1
          <6>1. PICK a : a = Len(t.ci)  OBVIOUS
          <6>2. PICK b : b = f.n  OBVIOUS
          <6>3. a \in Nat /\ b \in Nat /\ a - b >= 1 /\ d \in (a - b + 1)..(a + 1)
            BY <6>1, <6>2, <4>1, <3>2, <1>7, <1>9
          <6>4. (d \in 1..a /\ d \in (a - b + 1)..a) \/ d = a + 1  BY <6>3
          <6> QED  BY <6>1, <6>2, <6>4
        <5>2. CASE d \in 1..Len(t.ci) /\ d \in (Len(t.ci) - f.n + 1)..Len(t.ci)  BY <5>2, <4>1, <1>9
        <5>3. CASE d = Len(t.ci) + 1  BY <5>3, <1>9
        <5> QED  BY <5>1, <5>2, <5>3
      <4> QED  BY <4>2, <4>3, <4>4, <1>10 DEF Rerun
    <3>14. Len(T.cs) = Len(S.cs) /\ SameTo(S.cs, T.cs, Len(S.cs) - 1) /\ g = T.cs[Len(S.cs)] /\ f = S.cs[Len(S.cs)]
      BY <3>1, <3>8, <3>10, <3>11, <1>1
    <3>15. Caught(u, T.cs, S.cur)  BY <3>10, <3>12
    <3>16. Good(T)  BY <3>2, <3>5, <3>10, <3>13, <3>14, <3>15, <1>10, GoodTop
    <3>17. T.L[T.cur] = u  BY <3>10 DEF Moves
    <3> QED  BY <3>5, <3>8, <3>10, <3>16, <3>17
  <2>2. CASE S.cs[n].k # "exec"
    <3>1. PICK g : g = [k |-> "exec", th |-> S.cur, n |-> 1]  OBVIOUS
    <3>2. g \in CFrame /\ g.k = "exec" /\ g.th = S.cur /\ g.n = 1  BY <3>1, <1>2 DEF CFrame
    <3>3. T = PushC(W, g)  BY <2>2, <3>1, <1>4, <1>5, <1>6 DEF RunLua
    <3>4. /\ Moves(S, T, u) /\ T.cs = Append(S.cs, g) /\ Len(T.cs) = n + 1 /\ T.cs[n + 1] = g
          /\ \A i \in 1..n : T.cs[i] = S.cs[i]
      <4>1. /\ T \in StateT /\ T.L = W.L /\ T.cur = W.cur /\ T.cs = Append(W.cs, g) /\ Len(T.cs) = Len(W.cs) + 1
            /\ T.cs[Len(W.cs) + 1] = g /\ \A i \in 1..Len(W.cs) : T.cs[i] = W.cs[i]
        BY <3>2, <3>3, <1>4, PushCFacts
      <4> QED  BY <4>1, <1>1, <1>4 DEF Moves
    <3>5. Caught(u, T.cs, S.cur)
      <4>1. Older(S.cs, T.cs, S.cur)  BY <3>2, <3>4, <1>1, <1>2, OlderPush
      <4> QED  BY <4>1, <1>8, CaughtCall
    <3>6. Pushed(t, u, g, Len(S.cs))
      <4>1. Runs(g) = 1  BY <3>2, FrameFacts
      <4>2. u.nCcalls = t.nCcalls + 0  BY <1>7, <1>10
      <4>3. \A d \in (Len(t.ci) + 1)..(Len(t.ci) + g.n) : u.ci[d].lua
        <5> SUFFICES ASSUME NEW d \in (Len(t.ci) + 1)..(Len(t.ci) + g.n) PROVE d = Len(t.ci) + 1  BY <1>9
        <5> QED  BY <3>2, <1>7
      <4> QED  BY <3>2, <4>1, <4>2, <4>3, <1>9, <1>10 DEF Pushed
    <3>7. CallsFrame(S.cs[Len(S.cs)], g)  BY <2>2, <3>2, <1>1, <1>2 DEF CallsFrame
    <3>8. Good(T)  BY <3>2, <3>4, <3>5, <3>6, <3>7, <1>10, GoodPush
    <3>9. T.L[T.cur] = u  BY <3>4 DEF Moves
    <3> QED  BY <3>2, <3>4, <3>8, <3>9
  <2> QED  BY <2>1, <2>2
<1>12. PICK E : E = Do(T, "run")  OBVIOUS
<1>13. Good(E) /\ E.L = T.L /\ E.cs = T.cs /\ E.cur = T.cur /\ E.op = "run"  BY <1>11, <1>12, GoodDo DEF Ops
<1>14. RunReady(T.cs[Len(T.cs)], u)  BY <1>11 DEF RunReady
<1>15. u.nCcalls < Limit  BY <1>10
<1>16. Ready(E)  BY <1>11, <1>13, <1>14, <1>15 DEF Ready
<1> QED  BY <1>3, <1>5, <1>12, <1>13, <1>16 DEF IInv

\* A function f may be called at func: a C function has its arguments.
LuaFunctions == {"lua", "vararg"}
Calling(S, f, func) ==
    LET t == S.L[S.cur]
        k == S.cs[Len(S.cs)].k
    IN /\ f \in LuaFunctions \union (CFunctions \ {"host"})
       /\ Callable(t, func) /\ Above(S.cs, S.cur, func) /\ t.nCcalls < Limit
       /\ k \in {"exec", "call"} \/ (f \in LuaFunctions /\ k = "resume")
       /\ f \notin LuaFunctions => func + Arity(f) <= Len(t.stack)

\* luaD_precall, with room on the stack.
LEMMA EnterInv ==
    ASSUME NEW S, Good(S), NEW t, t = S.L[S.cur], NEW f, NEW func, Calling(S, f, func), NEW nres \in {0, 1, MULTRET},
           Len(t.stack) + (IF f \in LuaFunctions THEN MaxStack ELSE MinStack) < StackLast(t)
    PROVE  IInv(Enter(S, f, func, nres))
<1>1. PICK n : n = Len(S.cs)  OBVIOUS
<1>2. S \in StateT /\ t \in ThreadT /\ Cur(S) = t /\ Sound(t)  BY <1>1, GoodFacts
<1>3. /\ f \in LuaFunctions \union (CFunctions \ {"host"})
      /\ Callable(t, func) /\ Above(S.cs, S.cur, func) /\ t.nCcalls < Limit
      /\ S.cs[Len(S.cs)].k \in {"exec", "call"} \/ (f \in LuaFunctions /\ S.cs[Len(S.cs)].k = "resume")
      /\ f \notin LuaFunctions => func + Arity(f) <= Len(t.stack)
  BY DEF Calling
<1>4. CASE Overflow(t)
  <2>1. ErrorReady(S.cs[Len(S.cs)])  BY <1>3 DEF ErrorReady
  <2>2. Enter(S, f, func, nres) = OverflowError(S)  BY <1>2, <1>4 DEF Enter
  <2> QED  BY <2>1, <2>2, <1>3, OverflowErrorInv
<1>5. CASE ~ Overflow(t) /\ f \notin LuaFunctions
  <2>1. Enter(S, f, func, nres) = Do(NewCFrame(S, f, func, nres), "run")
    BY <1>2, <1>5 DEF Enter, LuaFunctions
  <2>2. f \in CFunctions \ {"host"} /\ S.cs[Len(S.cs)].k \in {"exec", "call"} /\ func + Arity(f) <= Len(t.stack)
    BY <1>3, <1>5
  <2>3. Len(t.stack) + MinStack < StackLast(t)  BY <1>5
  <2> QED  BY <2>1, <2>2, <2>3, <1>3, EnterC
<1>6. CASE ~ Overflow(t) /\ f \in LuaFunctions
  <2>1. PICK w : w = GrowCI(t)  OBVIOUS
  <2>2. /\ w \in ThreadT /\ SameCalls(t, w) /\ w.stack = t.stack /\ StackLast(w) = StackLast(t) /\ Sound(w)
    BY <1>2, <2>1, GrowCISound
  <2>3. w.base = t.base /\ w.ci = t.ci /\ Shares(t, w)  BY <2>2 DEF SameCalls, Shares
  <2>4. Callable(w, func)  BY <1>3, <2>2, <2>3 DEF Callable
  <2>5. Len(w.stack) + MaxStack < StackLast(w)  BY <1>6, <2>2
  <2>6. PICK va \in BOOLEAN : va = (f = "vararg")  OBVIOUS
  <2>7. PICK u : u = SetLocal(NewFrame(w, func, nres, va))  OBVIOUS
  <2>8. /\ u \in ThreadT /\ Sound(u) /\ Fits(u) /\ Shares(w, u) /\ Len(u.stack) >= func
        /\ \E c \in CallInfo : c.func = func /\ c.lua /\ Added(w, u, c)
    BY <2>2, <2>4, <2>5, <2>7, CalledLua
  <2>9. PICK c \in CallInfo : c.func = func /\ c.lua /\ Added(w, u, c)  BY <2>8
  <2>10. Shares(t, u) /\ Added(t, u, c)  BY <2>3, <2>8, <2>9 DEF Shares, Added
  <2>11. c.func <= Len(u.stack) + 1
    <3>1. func \in Nat /\ Len(u.stack) \in Nat  BY <1>3, <2>8, ThreadFacts DEF Callable
    <3> QED  BY <2>8, <2>9, <3>1
  <2>12. Above(S.cs, S.cur, c.func)  BY <1>3, <2>9
  <2>13. S.cs[Len(S.cs)].k \in {"exec", "call", "resume"}  BY <1>3
  <2>14. IInv(Do(RunLua(With(S, u)), "run"))
    BY <1>3, <2>8, <2>9, <2>10, <2>11, <2>12, <2>13, EnterLua
  <2>15. Enter(S, f, func, nres) = Do(RunLua(With(S, u)), "run")
    BY <1>2, <1>6, <2>1, <2>6, <2>7 DEF Enter, NewLuaFrame, LuaFunctions
  <2> QED  BY <2>14, <2>15
<1> QED  BY <1>4, <1>5, <1>6

\* luaD_precall.
LEMMA PrecallInv ==
    ASSUME NEW S, Good(S), NEW f, NEW func, Calling(S, f, func), NEW nres \in {0, 1, MULTRET}
    PROVE  IInv(Precall(S, f, func, nres))
<1>1. PICK n : n = Len(S.cs)  OBVIOUS
<1>2. PICK t : t = S.L[S.cur]  OBVIOUS
<1>3. S \in StateT /\ t \in ThreadT /\ Cur(S) = t /\ Sound(t) /\ Fits(t)  BY <1>1, <1>2, GoodFacts
<1>4. PICK room : room = IF f \in LuaFunctions THEN MaxStack ELSE MinStack  OBVIOUS
<1>5. room \in Nat  BY <1>4, Constants
<1>6. PICK u : u = CheckStack(t, room)  OBVIOUS
<1>7. /\ u \in ThreadT /\ Regrown(t, u) /\ u.stack = t.stack /\ Len(t.stack) + room < StackLast(u)
      /\ Sound(u) /\ Fits(u)
  BY <1>3, <1>5, <1>6, CheckStackSound
<1>8. Shares(t, u) /\ SameInfos(t, u) /\ u.base = t.base /\ u.ci = t.ci /\ u.nCcalls = t.nCcalls
  BY <1>3, <1>7, RegrownSame DEF Regrown, SameCalls
<1>9. PICK T : T = With(S, u)  OBVIOUS
<1>10. Moves(S, T, u) /\ T.cs = S.cs /\ T.cur = S.cur /\ T.L[S.cur] = u  BY <1>3, <1>7, <1>9, WithFacts
<1>11. Good(T)
  <2>1. Len(u.stack) >= Len(t.stack)
    <3>1. Len(t.stack) \in Nat  BY <1>3, ThreadFacts
    <3> QED  BY <3>1, <1>7
  <2> QED  BY <1>2, <1>7, <1>8, <1>10, <2>1, GoodAgain
<1>12. Calling(T, f, func)
  <2>1. Callable(t, func) => Callable(u, func)  BY <1>7, <1>8 DEF Callable
  <2> QED  BY <2>1, <1>2, <1>7, <1>8, <1>10 DEF Calling
<1>13. Len(u.stack) + (IF f \in LuaFunctions THEN MaxStack ELSE MinStack) < StackLast(u)  BY <1>4, <1>7
<1>14. Precall(S, f, func, nres) = Enter(T, f, func, nres)
  BY <1>3, <1>4, <1>6, <1>9 DEF Precall, Checked, LuaFunctions
<1>15. u = T.L[T.cur]  BY <1>10
<1> QED  BY <1>11, <1>12, <1>13, <1>14, <1>15, EnterInv

\* The stack and the calls are the same.
SameStack(t, u) ==
    /\ u.stack = t.stack /\ u.ci = t.ci /\ u.base = t.base /\ u.open = t.open /\ u.stacksize = t.stacksize

\* With the same values and CallInfos a thread is as sound.
LEMMA SoundSame ==
    ASSUME NEW t, NEW u, SameStack(t, u)
    PROVE  (Sound(t) => Sound(u)) /\ (Fits(t) => Fits(u)) /\ (Dead(t) => Dead(u)) /\ StackLast(u) = StackLast(t)
<1>1. StackLast(u) = StackLast(t)  BY DEF StackLast, SameStack
<1>2. (Owned(t) => Owned(u)) /\ (Locals(t) => Locals(u))  BY DEF Owned, Locals, SameStack
<1>3. Sound(t) => Sound(u)  BY <1>1, <1>2 DEF Sound, SameStack
<1>4. Dead(t) => Dead(u)  BY <1>1, <1>2 DEF Dead, SameStack
<1>5. Fits(t) => Fits(u)  BY <1>1 DEF Fits, SameStack
<1> QED  BY <1>1, <1>3, <1>4, <1>5

\* luaD_call: nCcalls is counted and limited.
LEMMA LuaDCallInv ==
    ASSUME NEW S, Good(S), NEW t, t = S.L[S.cur], NEW b, b = S.cs[Len(S.cs)],
           b.k \in {"pcall", "exec", "msg"} \/ (b.k = "c" /\ b.f = "callback"),
           NEW f \in LuaFunctions \union (CFunctions \ {"host"}), NEW func,
           Callable(t, func), Above(S.cs, S.cur, func), t.nCcalls < Limit,
           f \notin LuaFunctions => func + Arity(f) <= Len(t.stack), NEW nres \in {0, 1, MULTRET}
    PROVE  IInv(LuaDCall(S, f, func, nres))
<1>1. PICK n : n = Len(S.cs)  OBVIOUS
<1>2. /\ S \in StateT /\ S.cur \in Thread /\ S.cs \in Seq(CFrame) /\ t \in ThreadT /\ n \in Nat /\ n >= 1
      /\ t.status = "ok" /\ S.cs[n].th = S.cur /\ Sound(t) /\ Fits(t) /\ Cur(S) = t /\ Caught(t, S.cs, S.cur)
  BY <1>1, GoodFacts
<1>3. PICK u : u = [t EXCEPT !.nCcalls = @ + 1]  OBVIOUS
<1>4. t.nCcalls \in Nat /\ Limit \in Nat /\ Len(t.ci) \in Nat  BY <1>2, ThreadFacts, Constants
<1>5. /\ u \in ThreadT /\ u.nCcalls = t.nCcalls + 1 /\ u.stack = t.stack /\ u.ci = t.ci /\ u.base = t.base
      /\ u.status = t.status /\ u.errfunc = t.errfunc /\ u.jmp = t.jmp /\ u.open = t.open /\ u.stacksize = t.stacksize
  <2>1. PICK k \in Nat : k = t.nCcalls + 1  BY <1>4
  <2>2. u = [t EXCEPT !.nCcalls = k]  BY <1>3, <2>1
  <2> QED  BY <1>2, <2>1, <2>2 DEF ThreadT
<1>6. Sound(u) /\ Fits(u) /\ u.nCcalls <= Limit
  <2>1. SameStack(t, u)  BY <1>5 DEF SameStack
  <2>2. Sound(u) /\ Fits(u)  BY <1>2, <2>1, SoundSame
  <2>3. u.nCcalls <= Limit  BY <1>4, <1>5
  <2> QED  BY <2>2, <2>3
<1>7. PICK g : g = [k |-> "call", th |-> S.cur]  OBVIOUS
<1>8. g \in CFrame /\ g.k = "call" /\ g.th = S.cur /\ Runs(g) = 0
  <2>1. g \in CFrame /\ g.k = "call" /\ g.th = S.cur  BY <1>2, <1>7 DEF CFrame
  <2> QED  BY <2>1, FrameFacts
<1>9. PICK C : C = PushC([S EXCEPT !.L[S.cur].nCcalls = @ + 1], g)  OBVIOUS
<1>10. /\ Moves(S, C, u) /\ C.cs = Append(S.cs, g) /\ Len(C.cs) = n + 1 /\ C.cs[n + 1] = g
       /\ \A i \in 1..n : C.cs[i] = S.cs[i]
  <2>1. [S EXCEPT !.L[S.cur].nCcalls = @ + 1] = With(S, u)  BY <1>2, <1>3 DEF With, StateT, Cur
  <2>2. PICK W : W = With(S, u)  OBVIOUS
  <2>3. W \in StateT /\ Moves(S, W, u) /\ W.cs = S.cs /\ W.cur = S.cur  BY <1>2, <1>5, <2>2, WithFacts
  <2>4. C = PushC(W, g)  BY <1>9, <2>1, <2>2
  <2>5. /\ C \in StateT /\ C.L = W.L /\ C.cur = W.cur /\ C.cs = Append(W.cs, g) /\ Len(C.cs) = Len(W.cs) + 1
        /\ C.cs[Len(W.cs) + 1] = g /\ \A i \in 1..Len(W.cs) : C.cs[i] = W.cs[i]
    BY <1>8, <2>3, <2>4, PushCFacts
  <2> QED  BY <1>1, <2>3, <2>5 DEF Moves
<1>11. Older(S.cs, C.cs, S.cur)  BY <1>1, <1>2, <1>8, <1>10, OlderPush
<1>12. Caught(u, C.cs, S.cur)
  <2>1. Caught(u, S.cs, S.cur)  BY <1>2, <1>5 DEF Caught
  <2> QED  BY <2>1, <1>11 DEF Caught, Older
<1>13. Pushed(t, u, g, Len(S.cs))
  <2>1. Len(u.ci) = Len(t.ci) + 0  BY <1>4, <1>5
  <2> QED  BY <2>1, <1>2, <1>5, <1>8 DEF Pushed
<1>14. CallsFrame(S.cs[Len(S.cs)], g)  BY <1>1, <1>2, <1>8 DEF CallsFrame
<1>15. Good(C)  BY <1>6, <1>8, <1>10, <1>12, <1>13, <1>14, GoodPush
<1>16. C.cur = S.cur /\ u = C.L[C.cur] /\ C.cs[Len(C.cs)] = g /\ C \in StateT  BY <1>10 DEF Moves
<1>17. Cur(C) = u  BY <1>16 DEF Cur
<1>18. ErrorReady(C.cs[Len(C.cs)])  BY <1>8, <1>16 DEF ErrorReady
<1>19. LuaDCall(S, f, func, nres) = IF u.nCcalls = MaxCCalls THEN RunError(C)
                                    ELSE IF u.nCcalls >= Limit THEN Do(C, "throw")
                                    ELSE Precall(C, f, func, nres)
  BY <1>7, <1>9, <1>17 DEF LuaDCall, Limit
<1>20. CASE u.nCcalls = MaxCCalls
  <2>1. u.nCcalls < Limit  BY <1>20, Constants
  <2> QED  BY <2>1, <1>15, <1>16, <1>18, <1>19, <1>20, RunErrorInv
<1>21. CASE u.nCcalls # MaxCCalls /\ u.nCcalls >= Limit  BY <1>21, <1>15, <1>18, <1>19, ThrowInv
<1>22. CASE u.nCcalls # MaxCCalls /\ ~ u.nCcalls >= Limit
  <2>1. Callable(u, func)  BY <1>5 DEF Callable
  <2>2. Above(C.cs, C.cur, func)  BY <1>11, <1>16 DEF Above, Older
  <2>3. u.nCcalls < Limit  BY <1>22, <1>4, <1>5
  <2>4. Calling(C, f, func)  BY <1>5, <1>8, <1>16, <2>1, <2>2, <2>3 DEF Calling
  <2> QED  BY <1>15, <1>19, <1>22, <2>4, PrecallInv
<1> QED  BY <1>20, <1>21, <1>22

\* The host is at the bottom and runs no function.
LEMMA HostFacts ==
    ASSUME NEW S, Good(S), NEW t, t = S.L[S.cur], S.cs[Len(S.cs)].k = "c"
    PROVE  /\ ~ t.ci[Len(t.ci)].lua
           /\ S.cs[Len(S.cs)].f = "host" => Len(S.cs) = 1 /\ S.cs[1] = Host /\ S.cur = "main"
<1>1. PICK n : n = Len(S.cs)  OBVIOUS
<1>2. /\ S.cs \in Seq(CFrame) /\ t \in ThreadT /\ n \in Nat /\ n >= 1 /\ Shape(S.cs) /\ Runner(t, S.cs, S.cur)
      /\ S.cs[n].th = S.cur
  BY <1>1, GoodFacts
<1>3. CASE S.cs[n].f # "host"  BY <1>1, <1>3, TopFacts
<1>4. CASE S.cs[n].f = "host"
  <2>1. n = 1
    <3> SUFFICES ASSUME n # 1 PROVE FALSE  OBVIOUS
    <3>0. n \in 2..n  BY <1>2
    <3>1. n \in 2..Len(S.cs)  BY <3>0, <1>1
    <3>2. CallsFrame(S.cs[n - 1], S.cs[n])  BY <1>2, <3>1 DEF Shape
    <3> QED  BY <3>2, <1>1, <1>4 DEF CallsFrame
  <2>2. S.cs[1] = Host  BY <1>2 DEF Shape
  <2>3. Len(t.ci) = 1 /\ ~ t.ci[1].lua
    <3>1. Len(t.ci) = Infos(S.cs, S.cur, 1) /\ ~ t.ci[1].lua  BY <2>1, <1>1, <1>2 DEF Runner, Kinds
    <3>2. 1 \in 1..Len(S.cs)
      <4>1. Len(S.cs) = 1  BY <2>1, <1>1
      <4> QED  BY <4>1
    <3>3. Infos(S.cs, S.cur, 1) = Infos(S.cs, S.cur, 1 - 1) + (IF S.cs[1].th = S.cur THEN Runs(S.cs[1]) ELSE 0)
      BY <1>2, <3>2, CountStep
    <3>4. Runs(S.cs[1]) = 0  BY <2>2 DEF Host, Runs
    <3>5. Infos(S.cs, S.cur, 0) = 1  BY CountNone
    <3>6. 1 - 1 = 0  OBVIOUS
    <3> QED  BY <3>1, <3>3, <3>4, <3>5, <3>6
  <2>4. S.cur = "main"  BY <2>1, <2>2, <1>2 DEF Host
  <2> QED  BY <2>1, <2>2, <2>3, <2>4, <1>1
<1> QED  BY <1>1, <1>3, <1>4

\* A function returns: the others, and the luaD_pcalls, are below.
LEMMA CaughtReturn ==
    ASSUME NEW S, Good(S), NEW t, t = S.L[S.cur], S.cs[Len(S.cs)].k \in {"exec", "c"},
           NEW u \in ThreadT, Len(u.ci) = Len(t.ci) - 1,
           \A d \in 1..(Len(t.ci) - 1) :
              u.ci[d].func = t.ci[d].func /\ u.ci[d].base = t.ci[d].base /\ u.ci[d].top = t.ci[d].top,
           t.ci[Len(t.ci)].func <= Len(u.stack) + 1, NEW D, Older(S.cs, D, S.cur)
    PROVE  Caught(u, D, S.cur)
<1>1. PICK n : n = Len(S.cs)  OBVIOUS
<1>2. t \in ThreadT /\ Caught(t, S.cs, S.cur) /\ Sound(t)  BY <1>1, GoodFacts
<1>3. Len(t.ci) \in Nat /\ t.ci[Len(t.ci)].func \in Nat /\ Len(u.stack) \in Nat  BY <1>2, ThreadFacts, BaseFacts
<1>4. Kept(t, S.cs, u, D, S.cur)
  <2> SUFFICES ASSUME NEW i \in Pcalls(D, S.cur)
               PROVE  /\ i \in Pcalls(S.cs, S.cur) /\ D[i] = S.cs[i] /\ S.cs[i].ci \in Nat
                      /\ S.cs[i].oldtop <= Len(u.stack) + 1 /\ u.ci[S.cs[i].ci].base = t.ci[S.cs[i].ci].base
                      /\ S.cs[i].oldtop < u.ci[S.cs[i].ci].top
                      /\ \A d \in (S.cs[i].ci + 1)..Len(u.ci) : d \in 1..Len(t.ci) /\ u.ci[d].func = t.ci[d].func
    BY DEF Kept
  <2>1. i \in Pcalls(S.cs, S.cur) /\ D[i] = S.cs[i]  BY DEF Older
  <2>2. /\ S.cs[i].oldtop \in Nat /\ S.cs[i].ci \in 1..Len(t.ci) /\ S.cs[i].ci < Len(t.ci)
        /\ S.cs[i].oldtop <= t.ci[Len(t.ci)].func /\ S.cs[i].oldtop < t.ci[S.cs[i].ci].top
    BY <1>1, <2>1, PcallFacts
  <2>3. S.cs[i].oldtop <= Len(u.stack) + 1
    <3>1. PICK o : o = S.cs[i].oldtop  OBVIOUS
    <3>2. PICK f : f = t.ci[Len(t.ci)].func  OBVIOUS
    <3>3. PICK l : l = Len(u.stack)  OBVIOUS
    <3>4. o \in Nat /\ f \in Nat /\ l \in Nat /\ o <= f /\ f <= l + 1  BY <3>1, <3>2, <3>3, <1>3, <2>2
    <3>5. o <= l + 1  BY <3>4
    <3> QED  BY <3>1, <3>3, <3>5
  <2>4. S.cs[i].ci \in 1..(Len(t.ci) - 1) /\ S.cs[i].ci \in Nat
    <3>1. PICK k : k = S.cs[i].ci  OBVIOUS
    <3>2. PICK n0 : n0 = Len(t.ci)  OBVIOUS
    <3>3. n0 \in Nat /\ k \in 1..n0 /\ k < n0  BY <3>1, <3>2, <1>3, <2>2
    <3>4. k \in 1..(n0 - 1) /\ k \in Nat  BY <3>3
    <3> QED  BY <3>1, <3>2, <3>4
  <2>5. \A d \in (S.cs[i].ci + 1)..Len(u.ci) : d \in 1..(Len(t.ci) - 1) /\ d \in 1..Len(t.ci)  BY <1>3, <2>4
  <2>6. S.cs[i].oldtop < u.ci[S.cs[i].ci].top /\ u.ci[S.cs[i].ci].base = t.ci[S.cs[i].ci].base  BY <2>2, <2>4
  <2> QED  BY <2>1, <2>3, <2>4, <2>5, <2>6
<1> QED  BY <1>2, <1>4, CaughtTo

\* luaD_poscall moves the values on top to where the function was.
LEMMA ReturnedInv ==
    ASSUME NEW S, Good(S), NEW t, t = S.L[S.cur], NEW f, f = S.cs[Len(S.cs)], f.k = "c", f.f # "host",
           t.nCcalls < Limit,
           NEW v \in ThreadT, Sound(v), Shares(t, v), SameInfos(t, v), Len(v.stack) <= StackLast(v),
           NEW W, Moves(S, W, v), W.cs = S.cs, NEW m \in Nat, v.base + m <= Len(v.stack) + 1,
           W.ret = m
    PROVE  IInv(CReturned(W))
<1>1. PICK n : n = Len(S.cs)  OBVIOUS
<1>2. /\ S \in StateT /\ S.cur \in Thread /\ S.cs \in Seq(CFrame) /\ t \in ThreadT /\ n \in Nat /\ n >= 1
      /\ t.status = "ok" /\ f.th = S.cur /\ t.nCcalls <= Limit /\ f \in CFrame /\ Core(S.L, S.cs, S.cur)
  BY <1>1, GoodFacts
<1>3. ~ t.ci[Len(t.ci)].lua /\ Len(t.ci) >= 2 /\ Len(t.ci) \in Nat /\ Len(t.ci) \in 1..Len(t.ci)
  <2>1. ~ t.ci[Len(t.ci)].lua /\ Len(t.ci) >= 2  BY TopFacts
  <2>2. Len(t.ci) \in Nat  BY <1>2, ThreadFacts
  <2> QED  BY <2>1, <2>2
<1>4. /\ Len(v.ci) = Len(t.ci) /\ ~ v.ci[Len(v.ci)].lua /\ v.ci[Len(v.ci)].func = t.ci[Len(t.ci)].func
      /\ \A d \in 1..Len(t.ci) : /\ v.ci[d].func = t.ci[d].func /\ v.ci[d].base = t.ci[d].base
                                 /\ v.ci[d].lua = t.ci[d].lua
                                 /\ d # Len(t.ci) => v.ci[d].top = t.ci[d].top
  BY <1>3 DEF SameInfos
<1>5. PICK l : l = Len(v.stack)  OBVIOUS
<1>6. l \in Nat /\ v.base \in Nat /\ v.base >= 2 /\ v.base + m <= l + 1 /\ Top(v) = l + 1
  BY <1>5, BaseFacts, ThreadFacts
<1>7. PICK first : first = Top(v) - m  OBVIOUS
<1>8. first \in Nat /\ v.base <= first /\ first <= l + 1  BY <1>6, <1>7
<1>9. PICK u : u = Poscall(v, first)  OBVIOUS
<1>10. /\ u \in ThreadT /\ Sound(u) /\ Fits(u) /\ Shares(v, u) /\ u.ci = Front(v.ci)
       /\ v.ci[Len(v.ci)].func <= Len(u.stack) + 1
  <2>1. Len(v.ci) >= 2 /\ first <= Len(v.stack) + 1  BY <1>3, <1>4, <1>5, <1>8
  <2> QED  BY <1>4, <1>8, <1>9, <2>1, PoscallSound
<1>11. Shares(t, u)  BY <1>10 DEF Shares
<1>12. /\ Len(u.ci) = Len(t.ci) - 1
       /\ \A d \in 1..(Len(t.ci) - 1) : /\ u.ci[d].func = t.ci[d].func /\ u.ci[d].base = t.ci[d].base
                                        /\ u.ci[d].lua = t.ci[d].lua /\ u.ci[d].top = t.ci[d].top
  <2>1. v.ci \in Seq(CallInfo) /\ Len(v.ci) >= 1  BY SMTT(30), <1>3, <1>4, ThreadFacts
  <2>2. PICK w : w = Front(v.ci)  OBVIOUS
  <2>3. Len(w) = Len(v.ci) - 1 /\ \A d \in 1..(Len(v.ci) - 1) : w[d] = v.ci[d]  BY <2>1, <2>2, FrontFacts
  <2>4. \A d \in 1..(Len(t.ci) - 1) : d \in 1..Len(t.ci) /\ d # Len(t.ci)  BY <1>3
  <2>5. u.ci = w  BY <2>2, <1>10
  <2>6. Len(u.ci) = Len(t.ci) - 1  BY <2>3, <2>5, <1>4
  <2>7. \A d \in 1..(Len(t.ci) - 1) : u.ci[d] = v.ci[d]  BY <2>3, <2>5, <1>4
  <2>8. \A d \in 1..(Len(t.ci) - 1) : /\ v.ci[d].func = t.ci[d].func /\ v.ci[d].base = t.ci[d].base
                                      /\ v.ci[d].lua = t.ci[d].lua /\ v.ci[d].top = t.ci[d].top
    BY <2>4, <1>4
  <2> QED  BY <2>6, <2>7, <2>8
<1>13. PICK T : T = With(PopC(W), u)  OBVIOUS
<1>14. /\ Moves(S, T, u) /\ CutTo(S.cs, T.cs, n - 1)
  <2>1. W \in StateT /\ W.cur = S.cur /\ Len(W.cs) >= 1  BY <1>1, <1>2 DEF Moves
  <2>2. PICK P : P = PopC(W)  OBVIOUS
  <2>3. P \in StateT /\ P.L = W.L /\ P.cur = W.cur /\ CutTo(W.cs, P.cs, Len(W.cs) - 1)  BY <2>1, <2>2, PopCFacts
  <2>4. T = With(P, u)  BY <1>13, <2>2
  <2>5. T \in StateT /\ Moves(P, T, u) /\ T.cs = P.cs  BY <1>10, <2>3, <2>4, WithFacts
  <2> QED  BY <1>1, <2>1, <2>3, <2>5 DEF Moves
<1>15. f # Host /\ f.k # "resume" /\ Runs(f) = 1  BY <1>2, FrameFacts DEF Host
<1>16. Caught(u, T.cs, S.cur)
  <2>1. SameTo(S.cs, T.cs, n - 1) /\ Len(T.cs) = n - 1 /\ T.cs \in Seq(CFrame)  BY <1>1, <1>2, <1>14, CutCounts
  <2>2. \A i \in (n - 1 + 1)..Len(T.cs) : T.cs[i].k # "pcall"  BY <1>2, <2>1
  <2>3. Older(S.cs, T.cs, S.cur)  BY <1>2, <2>1, <2>2, OlderSame
  <2>4. t.ci[Len(t.ci)].func <= Len(u.stack) + 1  BY <1>4, <1>10
  <2>5. S.cs[Len(S.cs)].k \in {"exec", "c"}  OBVIOUS
  <2> QED  BY <1>10, <1>12, <2>3, <2>4, <2>5, CaughtReturn
<1>17. Popped(t, u, f)
  <2>1. t.nCcalls \in Nat  BY <1>2, ThreadFacts
  <2>2. u.nCcalls = t.nCcalls - 0  BY <2>1, <1>11 DEF Shares
  <2>3. Len(u.ci) = Len(t.ci) - Runs(f) /\ \A d \in 1..Len(u.ci) : u.ci[d].lua = t.ci[d].lua  BY <1>12, <1>15
  <2> QED  BY <2>2, <2>3, <1>2, <1>11 DEF Popped, Shares
<1>18. u.nCcalls <= Limit /\ u.nCcalls < Limit  BY <1>2, <1>11 DEF Shares
<1>19. Good(T)
  <2>1. CutTo(S.cs, T.cs, Len(S.cs) - 1)  BY <1>1, <1>14
  <2> QED  BY <2>1, <1>10, <1>14, <1>15, <1>16, <1>17, <1>18, GoodPop
<1>20. T.cs[Len(T.cs)].k \in {"exec", "call"}
  <2>1. CallsFrame(S.cs[n - 1], S.cs[n]) /\ n >= 2  BY <1>1, <1>2, <1>15, BelowTop
  <2>2. Len(T.cs) = n - 1 /\ T.cs[n - 1] = S.cs[n - 1]
    <3>1. n - 1 \in 1..(n - 1)  BY <1>2, <2>1
    <3> QED  BY <3>1, <1>14 DEF CutTo
  <2> QED  BY <2>1, <2>2, <1>1 DEF CallsFrame
<1>21. PICK A : A = Do(T, "after")  OBVIOUS
<1>22. PICK E : E = [A EXCEPT !.ret = 0]  OBVIOUS
<1>23. Good(E) /\ E.L = T.L /\ E.cs = T.cs /\ E.cur = T.cur /\ E.op = "after"
  <2>1. Good(A) /\ A \in StateT /\ A.L = T.L /\ A.cs = T.cs /\ A.cur = T.cur /\ A.op = "after"
    BY <1>19, <1>21, GoodDo DEF Ops
  <2>2. E \in StateT /\ E.L = A.L /\ E.cs = A.cs /\ E.cur = A.cur /\ E.op = A.op  BY <1>22, <2>1 DEF StateT
  <2> QED  BY <2>1, <2>2 DEF Good
<1>24. T.L[T.cur] = u  BY <1>14 DEF Moves
<1>25. AfterReady(T.cs[Len(T.cs)])  BY <1>20 DEF AfterReady
<1>26. Ready(E)  BY <1>18, <1>23, <1>24, <1>25 DEF Ready
<1>27. CReturned(W) = E
  <2>1. Cur(W) = v  BY DEF Cur, Moves
  <2> QED  BY <2>1, <1>7, <1>9, <1>13, <1>21, <1>22 DEF CReturned
<1> QED  BY <1>23, <1>26, <1>27 DEF IInv

\* A C function returns the values on top.
LEMMA CReturnInv ==
    ASSUME NEW S, Good(S), NEW t, t = S.L[S.cur], NEW f, f = S.cs[Len(S.cs)], f.k = "c", f.f # "host",
           t.nCcalls < Limit,
           NEW v \in ThreadT, Sound(v), Shares(t, v), SameInfos(t, v), Len(v.stack) <= StackLast(v),
           NEW W, Moves(S, W, v), W.cs = S.cs, NEW m \in Nat, v.base + m <= Len(v.stack) + 1
    PROVE  IInv(CReturn(W, m))
<1>1. PICK E : E = CReturn(W, m)  OBVIOUS
<1>2. W \in StateT /\ W.L[S.cur] = v /\ W.cur = S.cur  BY DEF Moves
<1>3. E \in StateT /\ E.L = W.L /\ E.cs = W.cs /\ E.cur = W.cur /\ E.op = "return" /\ E.ret = m
  <2>1. PICK R : R = Do(W, "return")  OBVIOUS
  <2>2. R \in StateT /\ R.L = W.L /\ R.cs = W.cs /\ R.cur = W.cur /\ R.op = "return"
    BY <1>2, <2>1, DoFacts DEF Ops
  <2>3. E = [R EXCEPT !.ret = m]  BY <1>1, <2>1 DEF CReturn
  <2> QED  BY <2>2, <2>3 DEF StateT
<1>4. Moves(S, E, v)  BY <1>2, <1>3 DEF Moves
<1>5. E.L[E.cur] = v /\ E.cs[Len(E.cs)] = f /\ v.nCcalls < Limit  BY <1>2, <1>3 DEF Shares
<1>6. Returning(E)  BY <1>3, <1>4, <1>5 DEF Returning
<1> QED  BY <1>1, <1>6 DEF IInv

\* What is left of a return, then.
LEMMA ReturningInv ==
    ASSUME NEW S, Returning(S), S.ret \in Nat
    PROVE  IInv(CReturned(S))
<1>1. PICK v : v = S.L[S.cur]  OBVIOUS
<1>2. PICK G : /\ Good(G) /\ Moves(G, S, v) /\ G.cs = S.cs
               /\ Shares(G.L[G.cur], v) /\ SameInfos(G.L[G.cur], v)
  BY <1>1 DEF Returning
<1>3. PICK t : t = G.L[G.cur]  OBVIOUS
<1>4. PICK f : f = G.cs[Len(G.cs)]  OBVIOUS
<1>5. /\ f.k = "c" /\ f.f # "host" /\ v.nCcalls < Limit
      /\ v \in ThreadT /\ Sound(v) /\ Len(v.stack) <= StackLast(v) /\ v.base + S.ret <= Len(v.stack) + 1
  BY <1>1, <1>2, <1>4 DEF Returning
<1>6. t.nCcalls < Limit  BY <1>2, <1>3, <1>5 DEF Shares
<1> QED  BY <1>2, <1>3, <1>4, <1>5, <1>6, ReturnedInv
=============================================================================
