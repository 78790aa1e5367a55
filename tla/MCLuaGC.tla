------------------------------ MODULE MCLuaGC ------------------------------
(* Instances of LuaGC for TLC.  Each profile sets the scene for one group of
   hazards; a cell that is a table with a mode or a finalizer can be used as a
   metatable. *)
EXTENDS LuaGC, TLC

MCAddr == {"a", "b", "c"}
P(kind, mode, gc, ops) ==
    [kind |-> kind @@ [o \in Cells |-> IF o = MAIN THEN "thread" ELSE IF o = REG THEN "table" ELSE "none"],
     mode |-> mode @@ [o \in Cells |-> ""],
     gc |-> [o \in Cells |-> o \in gc], hash |-> [o \in Cells |-> IF o = "a" THEN 0 ELSE 1], ops |-> ops]

MCProfiles ==
    { P("a" :> "table" @@ "b" :> "table", <<>>, {}, {"array"}),                      \* barriers of tables
      P("a" :> "string" @@ "c" :> "table", "c" :> "v", {}, {"array", "remode"}),     \* weak or strong values, strings
      P("a" :> "table" @@ "b" :> "udata", "a" :> "k", {"a"}, {"node", "meta"}),      \* finalizers and weak keys
      P("a" :> "table" @@ "b" :> "udata", "a" :> "v", {"a"}, {"array", "meta"}),     \* finalizers and weak values
      P("a" :> "udata" @@ "b" :> "udata", <<>>, {REG}, {"meta"}),                    \* two finalizers
      P("a" :> "string" @@ "b" :> "string", <<>>, {}, {}),                           \* two buckets, resize
      P("a" :> "lfunc" @@ "b" :> "upval" @@ "c" :> "table", <<>>, {}, {"debug"}),    \* upvalues, open and closed
      P("a" :> "lfunc" @@ "b" :> "upval" @@ "c" :> "lfunc", <<>>, {}, {}),           \* a shared upvalue
      P("a" :> "lfunc" @@ "b" :> "upval" @@ "c" :> "thread", <<>>, {}, {}),          \* coroutines
      P("a" :> "string" @@ "b" :> "proto" @@ "c" :> "lfunc", <<>>, {}, {}),          \* the parser
      P("a" :> "cfunc" @@ "b" :> "table", <<>>, {}, {"env"}) }                       \* environments
=============================================================================
