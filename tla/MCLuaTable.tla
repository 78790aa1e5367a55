----------------------------- MODULE MCLuaTable -----------------------------
(* Instances of LuaTable for TLC. *)
EXTENDS LuaTable, TLC
CONSTANTS s1, s2
\* The strings always collide, and the integers collide with them in some sizes of the
\* hash part and not in others.
MCHashes == { (s1 :> 3 @@ s2 :> 3) @@ [k \in IntKeys |-> 2 * k] }
=============================================================================
