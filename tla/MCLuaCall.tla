----------------------------- MODULE MCLuaCall ------------------------------
(* The instance of LuaCall for TLC. *)
EXTENDS LuaCall
=============================================================================
