---------------------------- MODULE MCHttpServer ----------------------------
(***************************************************************************)
(* Small instances of the serve loop for TLC.                              *)
(***************************************************************************)
EXTENDS HttpServerProps

CONSTANTS a, b, f1, f2

\* One request as tokens; a Content-Length line announces len.
Wire(c, q, kinds, len) ==
    [n \in DOMAIN kinds |-> [c |-> c, q |-> q, k |-> kinds[n],
                             len |-> IF kinds[n] = "clen" THEN len ELSE 0]]

Get      == <<"line", "hdr", "end">>
GetClose == <<"line", "close", "end">>
Post     == <<"line", "clen", "end", "body">>
Promise  == <<"line", "clen", "end">>

OwnIdent == [c \in Clients |-> c]

\* Descriptors are interchangeable.
FdSymmetry == Permutations(Fds)

OneEach == (a :> Wire(a, 1, Get, 0)) @@ (b :> Wire(b, 1, Get, 0))

\* a sends two requests, b one.
TwoAndOne == (a :> Wire(a, 1, Get, 0) \o Wire(a, 2, Get, 0)) @@ (b :> Wire(b, 1, Get, 0))

\* a sends two requests and one with a body that is above the limit for
\* diversion; the body that b announces never comes.
Bodies == (a :> Wire(a, 1, Get, 0) \o Wire(a, 2, Get, 0) \o Wire(a, 3, Post, 2))
            @@ (b :> Wire(b, 1, Promise, 1) \o Wire(b, 2, Get, 0))

\* a sends two requests and a head without its body; b an empty line too many
\* (alone, or in front of what follows it) and a body with its head or behind it.
Stray == (a :> Wire(a, 1, Get, 0) \o Wire(a, 2, Get, 0) \o Wire(a, 3, Promise, 1))
           @@ (b :> Wire(b, 1, <<"end">> \o Post, 1))

\* One request, which asks to close the connection.
OneClose == (a :> Wire(a, 1, GetClose, 0)) @@ (b :> <<>>)
=============================================================================
