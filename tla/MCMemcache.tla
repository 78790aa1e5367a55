----------------------------- MODULE MCMemcache -----------------------------
(* Instances of MemcacheClient for TLC: one command of each kind. *)
EXTENDS MemcacheClient

\* Every way a command is sent and its answer read.
Kinds == {"GETQ", "ADDQ", "INCRQ", "SET", "INCR", "GET", "NOOP", "STAT", "FLUSH", "QUIT", "QUITQ"}
=============================================================================
