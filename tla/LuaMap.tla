------------------------------- MODULE LuaMap -------------------------------
(* What a Lua table promises: it maps keys to values, NIL meaning absent.  A store
   changes one key, and so does the collector that clears an entry of a weak table;
   no other operation on the table can be observed through it. *)
CONSTANTS Key, Value, NIL
VARIABLE m

Init == m = [k \in Key |-> NIL]
Store(k, v) == m' = [m EXCEPT ![k] = v]
Next == \E k \in Key, v \in Value \union {NIL} : Store(k, v)
Spec == Init /\ [][Next]_m
=============================================================================
