--------------------------- MODULE HttpServerProps ---------------------------
(***************************************************************************)
(* What the serve loop of http4d must guarantee, stated over HttpServer.   *)
(***************************************************************************)
EXTENDS HttpServer

\* The list the loop will poll next, as far as it is known: the items already
\* merged and the ones still to be looked at.
LiveList == IF pc \in {"item", "dispatch", "write"} THEN ptmp \o SubSeq(pitem, i, Len(pitem)) ELSE pitem

Distinct(list) == \A m, n \in DOMAIN list : list[m].fd = list[n].fd => m = n
FdsOf(list)    == {list[n].fd : n \in DOMAIN list}

\* The poll list and httpConns name the same descriptors, each once: no item
\* is left without its connection (the loop would dereference a null pConn) and
\* no connection drops out of the list (it would never be served or closed).
PollListInSync ==
    pc # "crashed" => Distinct(LiveList) /\ FdsOf(LiveList) \ {Listener} = Keys(httpConns)

\* The output of the connection of c that the kernel has not taken yet.
Pending(c) ==
    IF \E fd \in Fds : httpConns[fd].sock = c
    THEN httpConns[CHOOSE fd \in Fds : httpConns[fd].sock = c].writeBuf
    ELSE <<>>

\* All that c has been sent so far: received, under way, and still to be written.
ToClient(c) == received[c] \o inflight[c] \o Pending(c)

\* A response reaches the client whose request it answers, and no other one; and
\* a client that has not reset its connection gets a stream of whole responses,
\* whatever was written in parts: no response starts inside another one.
ResponsesFramed ==
    \A c \in Clients :
        LET s == ToClient(c) IN
        \A n \in DOMAIN s :
            /\ s[n].c = c
            /\ cli[c] # "rst" =>
                 /\ s[n].part = IF n % 2 = 1 THEN 1 ELSE 2
                 /\ n % 2 = 0 => s[n].q = s[n - 1].q

\* No request is answered twice, and the answers come in the order of the
\* requests.
AnsweredInOrder ==
    \A c \in Clients : LET s == ToClient(c) IN
        \A m, n \in DOMAIN s : m < n => s[m].q < s[n].q \/ (s[m].q = s[n].q /\ s[m].part < s[n].part)

\* No request is answered twice.
AnsweredOnce ==
    \A c \in Clients : LET s == ToClient(c) IN \A m, n \in DOMAIN s : s[m] = s[n] => m = n

\* A connection marked for closing is never taken back into use, although a
\* later response would reset its state.
ClosingIsFinal ==
    [][\A fd \in Fds : httpConns[fd].state = "Closing"
                         => httpConns'[fd].state \in {"Closing", "Absent"}]_vars

\* The head of request q of client c as it was sent, without the empty line.
SentHead(c, q) ==
    LET mine == {n \in DOMAIN Stream[c] : Stream[c][n].q = q}
        end  == CHOOSE n \in mine : Stream[c][n].k = "end"
    IN  SubSeq(Stream[c], FirstOf(mine), end - 1)

\* Every request given to the processor has the request line and the headers
\* that its client sent.
HandledAsSent ==
    \A n \in DOMAIN dispatched :
        LET first == dispatched[n].head[1]
        IN  dispatched[n].head = SentHead(first.c, first.q)

-----------------------------------------------------------------------------
(* What the clients may expect, as a specification of its own *)

\* The numbers of client c's requests in its first n tokens.
RequestsIn(c, n) == {Stream[c][k].q : k \in 1 .. n}

\* Those of all it sends.
RequestsOf == [c \in Clients |-> RequestsIn(c, Len(Stream[c]))]

\* The requests of client c that were handed to the processor.
TakenOf(c) == {dispatched[n].head[1].q : n \in {m \in DOMAIN dispatched : dispatched[m].head[1].c = c}}

Service == INSTANCE HttpService WITH
    Requests <- RequestsOf,
    InOrder  <- Mode = "sync",
    asked    <- [c \in Clients |-> RequestsIn(c, sent[c])],
    taken    <- [c \in Clients |-> TakenOf(c)]

\* The loop with its processor, its sockets and its clients implements
\* HttpService: read() takes every request up once and in turn, and what the
\* writes, the hang-ups and the resets leave to a client is a sequence of whole
\* answers, but for the last.
ImplementsService == Service!Spec

-----------------------------------------------------------------------------
(* What the documentation promises and the code does not do                  *)

\* "set the "Connection" header to "close" and the library will close the socket
\* after transmitting the response" (httpapi.d): when a connection marked for
\* closing goes, and its client is still there, all of its output was written.
CloseAfterTransmitting ==
    [][\A fd \in Fds :
         LET conn == httpConns[fd] IN
         (conn.state = "Closing" /\ httpConns'[fd].state = "Absent" /\ cli[conn.sock] = "open")
           => conn.writeBuf = <<>>]_vars

-----------------------------------------------------------------------------
(* Liveness, under FairSpec *)

\* Request q of c has reached the server.
Arrived(c, q) == cli[c] = "open" /\ EndOf(c, q) <= sent[c]

\* A client that sends its requests whole and waits for the answer gets it,
\* unless it hangs up first or the server is told to stop: the answer is written
\* although the poll list was built before there was anything to write.
EveryRequestAnswered ==
    \A c \in Clients : \A q \in {Stream[c][n].q : n \in DOMAIN Stream[c]} :
        Arrived(c, q) ~> (Answered(c, q) \/ cli[c] # "open" \/ ~running)

\* The connection of a client that hung up is closed and its descriptor freed.
HungUpReaped == \A c \in Clients : cli[c] \in {"fin", "rst"} ~> c \in closed

\* A client in the accept queue gets its connection.
QueuedAccepted == \A c \in Clients : c \in Range(backlog) ~> c \notin Range(backlog)

\* The shutdown message ends the loop, whatever else is going on.
ShutdownExits == Shutdown \in Range(mailbox) ~> pc = "done"
=============================================================================
