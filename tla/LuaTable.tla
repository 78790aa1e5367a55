------------------------------ MODULE LuaTable ------------------------------
(* The tables of the embedded Lua 5.1 runtime (ltable.c): an array part and a
   hash part of chained nodes with Brent's variation, which move keys to one
   another when the table grows; traversal with luaH_next while the program
   clears fields and the collector removes entries; the border that the length
   operator finds.

   Integer keys are integers, the other keys (strings, objects: collectable)
   model values.  hash stands for the bits a key is hashed from. *)
EXTENDS Integers, FiniteSets, SequencesExt, FiniteSetsExt

CONSTANTS IntKeys,      \* the integer keys of the program, a subset of 1..MaxInt
          Collectable,  \* its other keys: strings and objects
          Strings,      \* those that are strings, and bring their hash with them
          Value, NIL,
          MaxInt,       \* MAX_INT: unbound_search gives up doubling beyond it
          Hashes,       \* the hash functions to be tried
          Sizes         \* the sizes a table may be created with

Key == IntKeys \union Collectable
ASSUME TableAssumption == /\ IntKeys \subseteq 1..MaxInt /\ NIL \notin Value /\ NIL \notin Collectable
                          /\ Strings \subseteq Collectable

VARIABLES t,      \* the Table: [array, node, lastfree]
          hash,
          it      \* a traversal: [on, key, seen, all]
vars == <<t, hash, it>>

EmptyNode == [key |-> NIL, val |-> NIL, next |-> 0, dead |-> FALSE]
Dummy(T) == T.node = <<>>                     \* the shared dummynode
CeilPow2(n) == Min({2^i : i \in {j \in 0..n : 2^j >= n}})

SetNodeVector(T, size) ==
    LET n == IF size = 0 THEN 0 ELSE CeilPow2(size)
    IN [T EXCEPT !.node = [i \in 1..n |-> EmptyNode], !.lastfree = n + 1]
SetArrayVector(T, size) == [T EXCEPT !.array = [i \in 1..size |-> IF i <= Len(@) THEN @[i] ELSE NIL]]

-----------------------------------------------------------------------------
(* Search.  hashpow2 for strings; numbers and pointers are taken modulo an odd number. *)
MainPosition(T, k) == LET n == Len(T.node)
                      IN 1 + (hash[k] % (IF k \in Strings \/ (n % 2) = 1 THEN n ELSE n - 1))

\* The nodes from i on, in the order of their chain.
RECURSIVE Chain(_, _)
Chain(T, i) == IF i = 0 THEN <<>> ELSE <<i>> \o Chain(T, T.node[i].next)
ChainOf(T, k) == IF Dummy(T) THEN <<>> ELSE Chain(T, MainPosition(T, k))

InArray(T, k) == k \in IntKeys /\ k <= Len(T.array)
HashSlots(T, k) == SelectSeq(ChainOf(T, k), LAMBDA i : T.node[i].key = k /\ ~ T.node[i].dead)
LuaHGet(T, k) == IF InArray(T, k) THEN T.array[k]
                 ELSE IF HashSlots(T, k) = <<>> THEN NIL ELSE T.node[HashSlots(T, k)[1]].val

-----------------------------------------------------------------------------
(* Rehash. *)
CeilLog2(k) == CHOOSE i \in 0..k : 2^i >= k /\ (i = 0 \/ 2^(i - 1) < k)
ArrayKeys(T) == {i \in DOMAIN T.array : T.array[i] # NIL}
HashKeys(T) == {T.node[i].key : i \in {j \in DOMAIN T.node : T.node[j].val # NIL}}
\* nums[i] = number of integer keys between 2^(i-1) and 2^i, the new key included.
IntsIn(T, ek) == ArrayKeys(T) \union ((HashKeys(T) \union {ek}) \intersect IntKeys)
Nums(T, ek) == [i \in 0..MaxInt |-> Cardinality({k \in IntsIn(T, ek) : CeilLog2(k) = i})]

\* More than half of 2^i slots are in use.
FitsHalf(nums, i, a) == nums[i] > 0 /\ a >= 2^i \div 2
Fits(nums, i, a) == nums[i] > 0 /\ a > 2^i \div 2

\* The loop of computesizes: i, a (keys so far), na and n (best size so far).
RECURSIVE SizeLoop(_, _, _, _, _, _)
SizeLoop(nums, narray, i, a, na, n) ==
    IF 2^i \div 2 >= narray THEN <<n, na>>
    ELSE LET b == a + nums[i]
             fits == Fits(nums, i, b)
         IN IF b = narray THEN IF fits THEN <<2^i, b>> ELSE <<n, na>>
            ELSE SizeLoop(nums, narray, i + 1, b, IF fits THEN b ELSE na, IF fits THEN 2^i ELSE n)
ComputeSizes(nums, narray) == SizeLoop(nums, narray, 0, 0, 0, 0)

GetFreePos(T) == LET free == {i \in 1..(T.lastfree - 1) : i \in DOMAIN T.node /\ T.node[i].key = NIL}
                 IN IF free = {} THEN 0 ELSE Max(free)

MoveOutLost(T, mp, n) == [T EXCEPT !.node[n] = T.node[mp], !.node[mp] = EmptyNode]
\* A colliding node that is out of its main position moves to the free one.
MoveOut(T, mp, n) ==
    LET prev == CHOOSE i \in ToSet(ChainOf(T, T.node[mp].key)) : T.node[i].next = mp
    IN [T EXCEPT !.node = [[@ EXCEPT ![n] = T.node[mp], ![mp] = EmptyNode] EXCEPT ![prev].next = n]]
ChainIn(T, mp, n) == [T EXCEPT !.node[n].next = T.node[mp].next, !.node[mp].next = n]

RECURSIVE LuaHSet(_, _, _), Resize(_, _, _), Rehash(_, _)
\* luaH_set followed by the store into the value it returns.
LuaHSet(T, k, v) ==
    LET s == HashSlots(T, k)
    IN IF InArray(T, k) THEN [T EXCEPT !.array[k] = v]
       ELSE IF s # <<>> THEN [T EXCEPT !.node[s[1]].val = v]
       ELSE IF ~ Dummy(T) /\ T.node[MainPosition(T, k)].val = NIL
            THEN [T EXCEPT !.node[MainPosition(T, k)] = [@ EXCEPT !.key = k, !.val = v, !.dead = FALSE]]
       ELSE LET n == GetFreePos(T)
                F == [T EXCEPT !.lastfree = n]
                mp == MainPosition(T, k)
            IN IF n = 0 THEN LuaHSet(Rehash(T, k), k, v)
               ELSE IF MainPosition(T, T.node[mp].key) # mp
                    THEN [MoveOut(F, mp, n) EXCEPT !.node[mp].key = k, !.node[mp].val = v]
                    ELSE [ChainIn(F, mp, n) EXCEPT !.node[n].key = k, !.node[n].val = v]

\* The vanishing slice of the array part and the old nodes, from the last, go in again.
Resize(T, nasize, nhsize) ==
    LET G == IF nasize > Len(T.array) THEN SetArrayVector(T, nasize) ELSE T
        S == SetArrayVector(SetNodeVector(G, nhsize), nasize)
        gone == SetToSortSeq({i \in (nasize + 1)..Len(T.array) : T.array[i] # NIL}, <)
        old == SelectSeq(Reverse(T.node), LAMBDA n : n.val # NIL)
        A == FoldLeft(LAMBDA R, i : LuaHSet(R, i, T.array[i]), S, gone)
    IN FoldLeft(LAMBDA R, n : LuaHSet(R, n.key, n.val), A, old)

Rehash(T, ek) ==
    LET nums == Nums(T, ek)
        sizes == ComputeSizes(nums, Cardinality(IntsIn(T, ek)))
        total == Cardinality(ArrayKeys(T)) + Cardinality(HashKeys(T)) + 1
    IN Resize(T, sizes[1], total - sizes[2])

-----------------------------------------------------------------------------
FindIndexAlive(T, k) ==
    IF k = NIL THEN 0
    ELSE IF InArray(T, k) THEN k
    ELSE LET at == HashSlots(T, k) IN IF at = <<>> THEN -1 ELSE Len(T.array) + at[1]
(* Traversal: -1, then the array part, then the nodes; a dead key is still found. *)
FindIndex(T, k) ==
    IF k = NIL THEN 0
    ELSE IF InArray(T, k) THEN k
    ELSE LET at == SelectSeq(ChainOf(T, k), LAMBDA i : T.node[i].key = k)
         IN IF at = <<>> THEN -1 ELSE Len(T.array) + at[1]

KeyAt(T, i) == IF i <= Len(T.array) THEN (IF T.array[i] = NIL THEN NIL ELSE i)
               ELSE LET n == T.node[i - Len(T.array)] IN IF n.val = NIL THEN NIL ELSE n.key
\* The key luaH_next answers with, or NIL at the end.
LuaHNext(T, k) ==
    LET later == {i \in (FindIndex(T, k) + 1)..(Len(T.array) + Len(T.node)) : KeyAt(T, i) # NIL}
    IN IF later = {} THEN NIL ELSE KeyAt(T, Min(later))

-----------------------------------------------------------------------------
(* The length operator. *)
RECURSIVE BinSearch(_, _, _), Unbound(_, _, _), Linear(_, _)
GetNum(T, j) == IF j \in IntKeys THEN LuaHGet(T, j) ELSE NIL
\* i is present or 0, j is absent.
BinSearch(T, i, j) == IF j - i <= 1 THEN i
                      ELSE LET mid == (i + j) \div 2
                           IN IF GetNum(T, mid) = NIL THEN BinSearch(T, i, mid) ELSE BinSearch(T, mid, j)
Linear(T, i) == IF GetNum(T, i) = NIL THEN i - 1 ELSE Linear(T, i + 1)
Unbound(T, i, j) == IF GetNum(T, j) = NIL THEN BinSearch(T, i, j)
                    ELSE IF 2 * j > MaxInt THEN Linear(T, 1)
                    ELSE Unbound(T, j, 2 * j)
LuaHGetNNoHash(T) == LET j == Len(T.array) IN IF j > 0 /\ T.array[j] = NIL THEN BinSearch(T, 0, j) ELSE j
LuaHGetN(T) ==
    LET j == Len(T.array)
    IN IF j > 0 /\ T.array[j] = NIL THEN BinSearch(T, 0, j)
       ELSE IF Dummy(T) THEN j
       ELSE Unbound(T, j, j + 1)

-----------------------------------------------------------------------------
Idle == [on |-> FALSE, key |-> NIL, seen |-> {}, all |-> {}]
Present(T) == {k \in Key : LuaHGet(T, k) # NIL}

Init ==
    /\ hash \in Hashes /\ it = Idle
    /\ \E na, nh \in Sizes :
          t = SetNodeVector([array |-> [i \in 1..na |-> NIL], node |-> <<>>, lastfree |-> 0], nh)

\* A store; during a traversal the program may only write fields that exist.
Set(k, v) ==
    /\ LuaHGet(t, k) # v
    /\ it.on => LuaHGet(t, k) # NIL
    /\ t' = LuaHSet(t, k, v)
    /\ it' = IF v = NIL THEN [it EXCEPT !.all = @ \ {k}] ELSE it
    /\ UNCHANGED hash

\* OP_SETLIST makes room in the array part.
ResizeArray(n) ==
    /\ ~ it.on /\ n > Len(t.array)
    /\ t' = Resize(t, n, Len(t.node))
    /\ UNCHANGED <<hash, it>>

\* The collector: the keys of empty entries die, and an entry of a weak table is cleared, for its
\* key or for its value.
RemoveEntries(T) ==
    [T EXCEPT !.node = [i \in DOMAIN @ |-> IF @[i].val = NIL /\ @[i].key \in Collectable
                                           THEN [@[i] EXCEPT !.dead = TRUE] ELSE @[i]]]
TraverseTable == /\ t' = RemoveEntries(t) /\ t' # t
                 /\ UNCHANGED <<hash, it>>
ClearEntry(k) ==
    /\ LuaHGet(t, k) # NIL
    /\ t' = IF InArray(t, k) THEN [t EXCEPT !.array[k] = NIL]
            ELSE [t EXCEPT !.node[HashSlots(t, k)[1]] = [@ EXCEPT !.val = NIL, !.dead = k \in Collectable]]
    /\ it' = [it EXCEPT !.all = @ \ {k}]
    /\ UNCHANGED hash

StartNext == /\ ~ it.on
             /\ it' = [on |-> TRUE, key |-> NIL, seen |-> {}, all |-> Present(t)]
             /\ UNCHANGED <<t, hash>>
\* lua_next.
Advance ==
    /\ it.on /\ FindIndex(t, it.key) >= 0
    /\ LET k == LuaHNext(t, it.key)
       IN it' = IF k = NIL THEN Idle
                ELSE [it EXCEPT !.key = k, !.seen = @ \union {k}]
    /\ UNCHANGED <<t, hash>>

Next == \/ \E k \in Key, v \in Value \union {NIL} : Set(k, v)
        \/ \E n \in IntKeys : ResizeArray(n)
        \/ TraverseTable
        \/ \E k \in Key : ClearEntry(k)
        \/ StartNext \/ Advance
Spec == Init /\ [][Next]_vars
-----------------------------------------------------------------------------
\* luaH_set, luaH_resizearray and the collector change no entry but the one they
\* are meant for, whatever moves between the parts: the table implements LuaMap.
Abstract == INSTANCE LuaMap WITH m <- [k \in Key |-> LuaHGet(t, k)]
ImplementsMap == Abstract!Spec

\* A traversal with luaH_next goes on after its current field was cleared, and even
\* after the collector made the key dead: "invalid key to next" never comes.  It answers
\* no key twice, although its only state is the key it answered last, and when it comes
\* to its end it has answered every field that was there all the time.
NextVisits ==
    [][/\ it.on => FindIndex(t, it.key) >= 0
       /\ it.on /\ it'.key # it.key /\ it'.key # NIL => it'.key \notin it.seen
       /\ it.on /\ ~ it'.on => it.all \subseteq it.seen]_vars

\* luaH_getn finds a boundary in every table, with holes or not: "an integer index
\* such that t[i] is non-nil and t[i+1] is nil (and 0 if t[1] is nil)".
BorderFound ==
    LET n == LuaHGetN(t) IN (n = 0 \/ GetNum(t, n) # NIL) /\ GetNum(t, n + 1) = NIL

\* Whatever key makes the table grow, computesizes gives the array part the
\* largest power of two of which more than half will be in use, and says how many
\* keys go there, so that the hash part has room for all others.
SizesOptimal ==
    \A k \in Key : LuaHGet(t, k) = NIL =>
        LET ints == IntsIn(t, k)
            used(n) == Cardinality({i \in ints : i <= n})
            best == Max({0} \union {n \in {2^i : i \in 0..MaxInt} : 2 * used(n) > n})
        IN ComputeSizes(Nums(t, k), Cardinality(ints)) = <<best, used(best)>>
=============================================================================
