----------------------------- MODULE HttpServer -----------------------------
(***************************************************************************)
(* The serve loop of http4d (httpServeImpl in protocol/http.d): one thread *)
(* that polls the listening socket and the connections, accepts, reads,    *)
(* dispatches requests to a processor, writes and closes.  The processor   *)
(* is DelegateProcessor ("sync": the handler runs inside the loop) or      *)
(* TidProcessor ("async": the request goes to another thread, which sends  *)
(* the response back to the loop's mailbox).  Around the loop: the clients *)
(* and the kernel's socket buffers, and the application thread.            *)
(***************************************************************************)
EXTENDS HttpConnection, SequencesExt, FiniteSets

CONSTANTS
    Fds,        \* descriptors the process may have open for connections
    Listener,   \* descriptor of listenSock
    IdentOf,    \* remote address of each client
    Stream,     \* Stream[c]: the requests client c sends, one after the other
    Shutdown,   \* the message 1
    Mode,       \* "sync" or "async"
    Outcomes,   \* what the request handler may do
    Env,        \* what the clients and the application may do
    SndBuf,     \* capacity of a socket's send buffer, in units
    MaxPending  \* the backlog given to listen(), 100 in the code

Outcome == {"ok", "close", "chunked", "null", "http", "exc"}
EnvSteps == {"split", "splitBody", "pipeline", "fin", "reset", "listenErr", "shutdown"}

ASSUME ConstAssumption ==
    /\ Listener \notin Fds /\ Shutdown # Null
    /\ IdentOf \in [Clients -> Idents]
    /\ Mode \in {"sync", "async"}
    /\ Outcomes \subseteq Outcome /\ Env \subseteq EnvSteps
    /\ SndBuf \in Nat \ {0} /\ MaxPending \in Nat \ {0}

ASSUME StreamAssumption ==
    /\ DOMAIN Stream = Clients
    /\ \A c \in Clients : Stream[c] \in Seq(Token) /\ \A n \in DOMAIN Stream[c] : Stream[c][n].c = c

VARIABLES
    pc,            \* where the loop is: poll, item, dispatch, write, idle, done, crashed
    running,       \* the module variable running
    pitem, ptmp,   \* the poll list and the one being built
    i,             \* index of the loop over pitem
    req,           \* onRead's local: the request to be dispatched
    httpConns,     \* connections by descriptor
    receivedData,  \* result of the last onIdle()
    hadData,       \* DelegateProcessor.hadData
    numConns,      \* the statistic num_connections
    mailbox,       \* messages to the loop's thread (TidProcessor)
    appq,          \* requests the application holds (async)
    dispatched,    \* history: the requests handed to the processor
    backlog,       \* clients in the accept queue
    cli,           \* the client's end: new, open, fin, rst
    closed,        \* clients whose connection the server has closed
    sent,          \* sent[c]: how much of its stream c has sent
    inq,           \* bytes from c in the server's receive buffer
    inflight,      \* bytes to c in the server's send buffer
    received       \* bytes c has received

stepVars  == <<pc, ptmp, i>>                              \* move with every item
roundVars == <<running, pitem, receivedData, numConns>>   \* fixed during a round
loopVars  == <<stepVars, req, roundVars, httpConns, hadData>>
appVars   == <<mailbox, appq, dispatched>>
peerVars  == <<backlog, cli, sent, received>>             \* the loop accepts, no more
netVars   == <<peerVars, closed, inq, inflight>>
vars      == <<loopVars, appVars, netVars>>

PollEvents == {"IN", "OUT", "ERR"}
PollItem   == [fd : Fds \cup {Listener}, out : BOOLEAN, revents : SUBSET PollEvents]

\* A message is the integer 1 or a response; a response may be null.
Message  == Response \cup {Null, Shutdown}

listenItem          == [fd |-> Listener, out |-> FALSE, revents |-> {}]
connItem_noout(fd, conn) == [fd |-> fd, out |-> FALSE, revents |-> {}]  \* mutant
connItem(fd, conn)  == [fd |-> fd, out |-> needsWrite(conn), revents |-> {}]
isListener(item)    == item.fd = Listener

\* The keys of httpConns.
Keys(conns) == {fd \in Fds : conns[fd].state # "Absent"}

\* Mutant: the first connection there is.
Targets_any(conns, resp) == Keys(conns)

\* The connections a response is addressed to; the loops over httpConns stop
\* at the first one they meet, in no particular order.
Targets(conns, resp) == {fd \in Keys(conns) : conns[fd].ident = resp.connection}

\* Where request q of client c ends in its stream.
EndOf(c, q) == LastOf({n \in DOMAIN Stream[c] : Stream[c][n].q = q})

\* Both halves of the response to request q of c have reached c.
Answered(c, q) == \E n \in DOMAIN received[c] : received[c][n] = [c |-> c, q |-> q, part |-> 2]

Init ==
    /\ pc = "poll" /\ running = TRUE
    /\ pitem = <<listenItem>> /\ ptmp = <<>> /\ i = 1 /\ req = Null
    /\ httpConns = [fd \in Fds |-> AbsentConn]
    /\ receivedData = FALSE /\ hadData = FALSE /\ numConns = 0
    /\ mailbox = <<>> /\ appq = <<>> /\ dispatched = <<>>
    /\ backlog = <<>> /\ closed = {}
    /\ cli = [c \in Clients |-> "new"] /\ sent = [c \in Clients |-> 0]
    /\ inq = [c \in Clients |-> <<>>] /\ inflight = [c \in Clients |-> <<>>]
    /\ received = [c \in Clients |-> <<>>]

-----------------------------------------------------------------------------
(* The sockets, as the loop sees them *)

\* The connection of client c is gone, and the input that was left with it.
\* Closing with unread input resets the connection, and then the client may
\* never see what was in flight to it.
CloseSocket(c, unread) ==
    /\ closed' = closed \cup {c}
    /\ inq' = [inq EXCEPT ![c] = <<>>]
    /\ \/ inflight' = inflight
       \/ unread # <<>> /\ inflight' = [inflight EXCEPT ![c] = <<>>]
    /\ UNCHANGED peerVars

\* poll() on the socket of a connection: an item that waits for output is
\* told of room in the send buffer, a hang-up or a reset reads as input.
ConnEvents(c, out) ==
      (IF inq[c] # <<>> \/ cli[c] \in {"fin", "rst"} THEN {"IN"} ELSE {})
 \cup (IF out /\ (Len(inflight[c]) < SndBuf \/ cli[c] = "rst") THEN {"OUT"} ELSE {})
 \cup (IF cli[c] = "rst" THEN {"ERR"} ELSE {})

\* poll() on the listening socket.
ListenEvents == IF backlog # <<>> THEN {"IN"} ELSE {}

Room(c) == SndBuf - Len(inflight[c])

-----------------------------------------------------------------------------
(* The loop.  pc = "poll" is the top of while( running ). *)

Polled(listenEvents) ==
    [n \in DOMAIN pitem |->
        [pitem[n] EXCEPT !.revents =
            IF isListener(pitem[n]) THEN listenEvents
            ELSE ConnEvents(httpConns[pitem[n].fd].sock, pitem[n].out)]]

\* zmq_poll does not wait: TIMEOUT_MSEC is 0.
Poll ==
    /\ pc = "poll"
    /\ \E listenEvents \in {ListenEvents} \cup IF "listenErr" \in Env THEN {{"ERR"}} ELSE {} :
         /\ pitem' = Polled(listenEvents)
         /\ pc' = IF receivedData \/ \E n \in DOMAIN pitem : pitem'[n].revents # {}
                  THEN "item" ELSE "idle"
    /\ ptmp' = <<>> /\ i' = 1
    /\ UNCHANGED <<req, running, httpConns, receivedData, hadData, numConns, appVars, netVars>>

Item == pitem[i]

\* Go on with the next item, leaving items in the list being built.
Merge(items) == ptmp' = ptmp \o items /\ i' = i + 1 /\ pc' = "item"

\* The loop over pitem is at an item of the listener, or of a connection.
AtListener == pc = "item" /\ i <= Len(pitem) /\ isListener(Item)
AtConn     == pc = "item" /\ i <= Len(pitem) /\ ~isListener(Item)

\* POLLERR on the listening socket.
ListenError ==
    /\ AtListener /\ "ERR" \in Item.revents
    /\ running' = FALSE
    /\ Merge(<<listenItem>>)
    /\ UNCHANGED <<req, pitem, httpConns, receivedData, hadData, numConns, appVars, netVars>>

\* accept() succeeds if there is a client in the queue and a descriptor for it.
AtAccept  == AtListener /\ "ERR" \notin Item.revents /\ "IN" \in Item.revents
CanAccept == backlog # <<>> /\ Keys(httpConns) # Fds

\* There was nothing to accept, or accept() failed: onAccept swallows the
\* SocketAcceptException.
NoAccept ==
    /\ AtListener /\ "ERR" \notin Item.revents
    /\ "IN" \in Item.revents => ~CanAccept
    /\ Merge(<<listenItem>>)
    /\ UNCHANGED <<req, roundVars, httpConns, hadData, appVars, netVars>>

\* The listener stays in the list, the new connection comes behind it.
AcceptItems_moved(fd, conn) == <<connItem(fd, conn)>>   \* mutant
AcceptItems(fd, conn)       == <<listenItem, connItem(fd, conn)>>

\* onAccept()
Accept ==
    /\ AtAccept /\ CanAccept
    /\ LET c == Head(backlog) IN
       /\ cli[c] # "rst"
       /\ \E fd \in Fds \ Keys(httpConns) :
            LET conn == NewConn(c, IdentOf[c]) IN
            /\ httpConns' = [httpConns EXCEPT ![fd] = conn]
            /\ Merge(AcceptItems(fd, conn))
    /\ backlog' = Tail(backlog)
    /\ UNCHANGED <<req, roundVars, hadData, appVars, cli, closed, sent, inq, inflight, received>>

\* The client reset the connection while it was queued: accept() succeeds, but
\* remoteAddress() in the constructor of HttpConnection throws, and the
\* exception skips the line that keeps the listener in the list.
AcceptThrows ==
    /\ AtAccept /\ CanAccept
    /\ cli[Head(backlog)] = "rst"
    /\ backlog' = Tail(backlog)
    /\ closed' = closed \cup {Head(backlog)}
    /\ inq' = [inq EXCEPT ![Head(backlog)] = <<>>]
    /\ Merge(<<>>)
    /\ UNCHANGED <<req, roundVars, httpConns, hadData, appVars, cli, sent, inflight, received>>

\* The connection at hand.
CurrConn   == httpConns[Item.fd]
CurrClient == CurrConn.sock

\* Mutant: the connection stays in httpConns.
OnClose_keep(unread) ==
    /\ httpConns' = httpConns
    /\ CloseSocket(CurrClient, unread)
    /\ Merge(<<>>)

\* Mutant: the socket is not closed.
OnClose_leak(unread) ==
    /\ httpConns' = [httpConns EXCEPT ![Item.fd] = AbsentConn]
    /\ Merge(<<>>)
    /\ UNCHANGED netVars

\* onClose(): the connection at hand leaves httpConns and the list.
OnClose(unread) ==
    /\ httpConns' = [httpConns EXCEPT ![Item.fd] = AbsentConn]
    /\ CloseSocket(CurrClient, unread)
    /\ Merge(<<>>)

\* POLLERR, or a connection marked for closing.
CloseConn ==
    /\ AtConn
    /\ "ERR" \in Item.revents \/ needsClose(CurrConn)
    /\ OnClose(inq[CurrClient])
    /\ UNCHANGED <<req, roundVars, hadData, appVars>>

Served   == AtConn /\ "ERR" \notin Item.revents /\ ~needsClose(CurrConn)
Readable == Served /\ "IN" \in Item.revents

\* No input: on to the write check.
SkipRead ==
    /\ Served /\ "IN" \notin Item.revents
    /\ pc' = "write"
    /\ UNCHANGED <<req, ptmp, i, roundVars, httpConns, hadData, appVars, netVars>>

\* receive() returned 0 or -1: read() throws and the connection is closed.
ReadEOF ==
    /\ Readable /\ inq[CurrClient] = <<>>
    /\ OnClose(<<>>)
    /\ UNCHANGED <<req, roundVars, hadData, appVars>>

\* receive() returned data: what read() makes of it.
HasInput   == Readable /\ inq[CurrClient] # <<>>
ReadInput  == read(CurrConn, inq[CurrClient])
Consume == inq' = [inq EXCEPT ![CurrClient] = <<>>]

\* The parser throws an Error: nothing in the loop catches it.
ReadError ==
    /\ HasInput /\ ReadInput.err = "error"
    /\ pc' = "crashed"
    /\ Consume
    /\ UNCHANGED <<ptmp, i, req, roundVars, httpConns, hadData, appVars, peerVars, closed, inflight>>

\* The parser throws an Exception: the connection is closed.
ReadException ==
    /\ HasInput /\ ReadInput.err = "exception"
    /\ OnClose(<<>>)
    /\ UNCHANGED <<req, roundVars, hadData, appVars>>

\* read() returns: null if the request is not complete, else a request for the
\* processor.
ReadData ==
    /\ HasInput
    /\ LET r == ReadInput IN
       /\ r.err = "none"
       /\ httpConns' = [httpConns EXCEPT ![Item.fd] = r.conn]
       /\ req' = r.req
       /\ pc' = IF r.req = Null THEN "write" ELSE "dispatch"
    /\ Consume
    /\ UNCHANGED <<ptmp, i, roundVars, hadData, appVars, peerVars, closed, inflight>>

\* onRequest( req ): the processor is done with the request.
Dispatched == req' = Null /\ dispatched' = Append(dispatched, req)

\* The response the handler makes of a request: as it comes from getResponse(),
\* with a Connection header of its own, or as a chunk.
Reply(request, outcome) ==
    getResponse(request, IF outcome = "close" THEN <<"close">> ELSE <<>>, outcome = "chunked")

\* DelegateProcessor.onRequest(), the handler returning a response.
DispatchReply ==
    /\ Mode = "sync" /\ pc = "dispatch"
    /\ \E outcome \in Outcomes \cap {"ok", "close", "chunked"} :
         LET resp == Reply(req, outcome) IN
         \E fd \in Targets(httpConns, resp) :
            httpConns' = [httpConns EXCEPT ![fd] = add(@, resp)]
    /\ hadData' = TRUE
    /\ pc' = "write"
    /\ Dispatched
    /\ UNCHANGED <<ptmp, i, roundVars, mailbox, appq, netVars>>

\* DelegateProcessor.onRequest(), the handler returning null.
DispatchNull ==
    /\ Mode = "sync" /\ pc = "dispatch" /\ "null" \in Outcomes
    /\ hadData' = FALSE
    /\ pc' = "write"
    /\ Dispatched
    /\ UNCHANGED <<ptmp, i, roundVars, httpConns, mailbox, appq, netVars>>

\* The response of an HttpException, given to the connection at hand; the
\* write check is skipped.
ErrorReply(request) ==
    [connection |-> request.connection, c |-> request.head[1].c, q |-> request.head[1].q,
     conn |-> <<"close">>, chunked |-> FALSE]

DispatchHttpException ==
    /\ Mode = "sync" /\ pc = "dispatch" /\ "http" \in Outcomes
    /\ LET conn == add(CurrConn, ErrorReply(req)) IN
       /\ httpConns' = [httpConns EXCEPT ![Item.fd] = conn]
       /\ Merge(<<connItem(Item.fd, conn)>>)
    /\ Dispatched
    /\ UNCHANGED <<roundVars, hadData, mailbox, appq, netVars>>

\* Any other exception of the handler closes the connection.
DispatchException ==
    /\ Mode = "sync" /\ pc = "dispatch" /\ "exc" \in Outcomes
    /\ OnClose(inq[CurrClient])
    /\ Dispatched
    /\ UNCHANGED <<roundVars, hadData, mailbox, appq>>

\* TidProcessor.onRequest(): the request is sent to the application thread.
DispatchSend ==
    /\ Mode = "async" /\ pc = "dispatch"
    /\ appq' = Append(appq, req)
    /\ pc' = "write"
    /\ Dispatched
    /\ UNCHANGED <<ptmp, i, roundVars, httpConns, hadData, mailbox, netVars>>

\* The write check: POLLOUT was not reported.
SkipWrite ==
    /\ pc = "write" /\ "OUT" \notin Item.revents
    /\ Merge(<<connItem(Item.fd, CurrConn)>>)
    /\ UNCHANGED <<req, roundVars, httpConns, hadData, appVars, netVars>>

\* onWrite(): the kernel takes what there is room for.
Write ==
    /\ pc = "write" /\ "OUT" \in Item.revents
    /\ cli[CurrClient] # "rst"
    /\ LET len  == Len(CurrConn.writeBuf)
           num  == IF len < Room(CurrClient) THEN len ELSE Room(CurrClient)
           conn == write(CurrConn, num) IN
       /\ inflight' = [inflight EXCEPT ![CurrClient] = @ \o SubSeq(CurrConn.writeBuf, 1, num)]
       /\ httpConns' = [httpConns EXCEPT ![Item.fd] = conn]
       /\ Merge(<<connItem(Item.fd, conn)>>)
    /\ UNCHANGED <<req, roundVars, hadData, appVars, peerVars, closed, inq>>

\* send() returned -1: as an unsigned length it is out of the buffer's range,
\* and the slice throws an Error.
WriteError ==
    /\ pc = "write" /\ "OUT" \in Item.revents
    /\ cli[CurrClient] = "rst"
    /\ pc' = "crashed"
    /\ UNCHANGED <<req, ptmp, i, roundVars, httpConns, hadData, appVars, netVars>>

\* num_connections: the listener is no connection.
ConnCount(list)     == Len(list) - 1

\* All items are done: the new list replaces the old.
EndRound ==
    /\ pc = "item" /\ i > Len(pitem)
    /\ pitem' = ptmp /\ numConns' = ConnCount(ptmp)
    /\ ptmp' = <<>> /\ i' = 1
    /\ pc' = "idle"
    /\ UNCHANGED <<req, running, httpConns, receivedData, hadData, appVars, netVars>>

\* Back to while( running ).
Loop(stay) == pc' = IF stay THEN "poll" ELSE "done"

\* DelegateProcessor.onIdle()
IdleSync ==
    /\ pc = "idle" /\ Mode = "sync"
    /\ receivedData' = hadData /\ hadData' = FALSE
    /\ Loop(running)
    /\ UNCHANGED <<req, running, pitem, ptmp, i, httpConns, numConns, appVars, netVars>>

\* TidProcessor.onIdle(): receiveTimeout takes at most one message.
IdleEmpty ==
    /\ pc = "idle" /\ Mode = "async" /\ mailbox = <<>>
    /\ receivedData' = FALSE
    /\ Loop(running)
    /\ UNCHANGED <<req, running, pitem, ptmp, i, httpConns, hadData, numConns, appVars, netVars>>

\* running = ( i != 1 )
StaysUp_always(message) == TRUE   \* mutant
StaysUp(message)        == message # Shutdown

IdleShutdown ==
    /\ pc = "idle" /\ Mode = "async" /\ mailbox # <<>> /\ Head(mailbox) = Shutdown
    /\ running' = StaysUp(Head(mailbox))
    /\ receivedData' = FALSE
    /\ mailbox' = Tail(mailbox)
    /\ Loop(running')
    /\ UNCHANGED <<req, pitem, ptmp, i, httpConns, hadData, numConns, appq, dispatched, netVars>>

\* Whether onIdle() gave a response to a connection.  The next round then visits
\* every item, so that the item of that connection asks for POLLOUT.
Found_never(targets) == FALSE   \* mutant
Found(targets)       == targets # {}

IdleResponse ==
    /\ pc = "idle" /\ Mode = "async" /\ mailbox # <<>>
    /\ Head(mailbox) \notin {Shutdown, Null}
    /\ LET resp    == Head(mailbox)
           targets == Targets(httpConns, resp) IN
       /\ receivedData' = Found(targets)
       /\ \/ \E fd \in targets : httpConns' = [httpConns EXCEPT ![fd] = add(@, resp)]
          \/ targets = {} /\ httpConns' = httpConns
    /\ mailbox' = Tail(mailbox)
    /\ Loop(running)
    /\ UNCHANGED <<req, running, pitem, ptmp, i, hadData, numConns, appq, dispatched, netVars>>

\* A null response is dereferenced by the first connection that is asked.
IdleNull ==
    /\ pc = "idle" /\ Mode = "async" /\ mailbox # <<>> /\ Head(mailbox) = Null
    /\ mailbox' = Tail(mailbox)
    /\ \/ Keys(httpConns) # {} /\ pc' = "crashed" /\ receivedData' = receivedData
       \/ Keys(httpConns) = {} /\ Loop(running) /\ receivedData' = FALSE
    /\ UNCHANGED <<req, running, pitem, ptmp, i, httpConns, hadData, numConns, appq, dispatched, netVars>>

Server ==
    \/ Poll \/ ListenError \/ NoAccept \/ Accept \/ AcceptThrows
    \/ CloseConn \/ SkipRead \/ ReadEOF \/ ReadError \/ ReadException \/ ReadData
    \/ DispatchReply \/ DispatchNull \/ DispatchHttpException \/ DispatchException
    \/ DispatchSend \/ SkipWrite \/ Write \/ WriteError \/ EndRound
    \/ IdleSync \/ IdleEmpty \/ IdleShutdown \/ IdleResponse \/ IdleNull

-----------------------------------------------------------------------------
(* The clients *)

\* A remote address can be used again once its connection is over.
Over(c) == cli[c] \in {"new", "rst"} \/ (cli[c] = "fin" /\ c \in closed)

Connect(c) ==
    /\ cli[c] = "new" /\ Len(backlog) < MaxPending
    /\ \A d \in Clients : IdentOf[d] = IdentOf[c] => Over(d)
    /\ cli' = [cli EXCEPT ![c] = "open"]
    /\ backlog' = Append(backlog, c)
    /\ UNCHANGED <<loopVars, appVars, closed, sent, inq, inflight, received>>

\* Number of the request client c is to send, or is in the middle of.
NextReq(c) == Stream[c][sent[c] + 1].q

\* Where a segment may end: at the end of the request, between its head and its
\* body, or anywhere.
SegmentEnds(c) ==
    LET rest == sent[c] + 1 .. EndOf(c, NextReq(c))
    IN  CASE "split" \in Env     -> rest
          [] "splitBody" \in Env -> {n \in rest : Stream[c][n].k = "end" \/ n = EndOf(c, NextReq(c))}
          [] OTHER               -> {EndOf(c, NextReq(c))}

\* A segment reaches the server, or comes too late and is answered by a reset.
\* A client that does not pipeline first waits for the answer to its last one.
Send(c) ==
    /\ cli[c] = "open" /\ sent[c] < Len(Stream[c])
    /\ ("pipeline" \notin Env /\ sent[c] > 0 /\ Stream[c][sent[c]].q # NextReq(c))
          => Answered(c, Stream[c][sent[c]].q)
    /\ \/ /\ c \notin closed
          /\ \E n \in SegmentEnds(c) :
               /\ inq' = [inq EXCEPT ![c] = @ \o SubSeq(Stream[c], sent[c] + 1, n)]
               /\ sent' = [sent EXCEPT ![c] = n]
          /\ UNCHANGED <<cli, inflight>>
       \/ /\ c \in closed
          /\ cli' = [cli EXCEPT ![c] = "rst"]
          /\ inflight' = [inflight EXCEPT ![c] = <<>>]
          /\ UNCHANGED <<inq, sent>>
    /\ UNCHANGED <<loopVars, appVars, backlog, closed, received>>

\* The client closes its sending side.
Fin(c) ==
    /\ "fin" \in Env /\ cli[c] = "open"
    /\ cli' = [cli EXCEPT ![c] = "fin"]
    /\ UNCHANGED <<loopVars, appVars, backlog, closed, sent, inq, inflight, received>>

\* The client resets the connection; what was in flight to it is gone.
Reset(c) ==
    /\ "reset" \in Env /\ cli[c] \in {"open", "fin"}
    /\ cli' = [cli EXCEPT ![c] = "rst"]
    /\ inflight' = [inflight EXCEPT ![c] = <<>>]
    /\ UNCHANGED <<loopVars, appVars, backlog, closed, sent, inq, received>>

\* The client takes the next unit of what the server sent.
Drain(c) ==
    /\ cli[c] # "rst" /\ inflight[c] # <<>>
    /\ received' = [received EXCEPT ![c] = Append(@, Head(inflight[c]))]
    /\ inflight' = [inflight EXCEPT ![c] = Tail(@)]
    /\ UNCHANGED <<loopVars, appVars, backlog, cli, closed, sent, inq>>

-----------------------------------------------------------------------------
(* The application thread in asynchronous mode *)

\* A request is handled, in any order (main.d handles them one by one, test.d
\* in a task pool); an exception means that no response is sent.
Handle ==
    /\ \E n \in DOMAIN appq : \E outcome \in Outcomes :
         /\ appq' = RemoveAt(appq, n)
         /\ mailbox' = CASE outcome \in {"ok", "close", "chunked"}
                              -> Append(mailbox, Reply(appq[n], outcome))
                         [] outcome = "null" -> Append(mailbox, Null)
                         [] OTHER            -> mailbox
    /\ UNCHANGED <<loopVars, dispatched, netVars>>

\* The interrupt handler sends 1 to the server's thread (once: a second signal
\* ends the process).
SendShutdown ==
    /\ Mode = "async" /\ "shutdown" \in Env
    /\ running /\ Shutdown \notin Range(mailbox)
    /\ mailbox' = Append(mailbox, Shutdown)
    /\ UNCHANGED <<loopVars, appq, dispatched, netVars>>

-----------------------------------------------------------------------------
Client == \E c \in Clients : Connect(c) \/ Send(c) \/ Fin(c) \/ Reset(c) \/ Drain(c)

Next == Server \/ Client \/ Handle \/ SendShutdown

Spec == Init /\ [][Next]_vars

\* The loop never blocks (poll and receiveTimeout return at once); the kernel
\* delivers; the application thread goes on handling requests.
Fairness ==
    /\ WF_vars(Server)
    /\ WF_vars(Handle)
    /\ \A c \in Clients : WF_vars(Drain(c))

FairSpec == Spec /\ Fairness

-----------------------------------------------------------------------------
(* Types *)

\* Every variable of the loop, the application and the network has its type.
TypeOK ==
    /\ pc \in {"poll", "item", "dispatch", "write", "idle", "done", "crashed"}
    /\ running \in BOOLEAN /\ receivedData \in BOOLEAN /\ hadData \in BOOLEAN
    /\ pitem \in Seq(PollItem) /\ ptmp \in Seq(PollItem) /\ i \in Nat \ {0}
    /\ req \in Request \cup {Null}
    /\ httpConns \in [Fds -> Conn] /\ numConns \in Int
    /\ mailbox \in Seq(Message) /\ appq \in Seq(Request) /\ dispatched \in Seq(Request)
    /\ backlog \in Seq(Clients) /\ closed \in SUBSET Clients
    /\ cli \in [Clients -> {"new", "open", "fin", "rst"}]
    /\ sent \in [Clients -> Nat]
    /\ inq \in [Clients -> Seq(Token)] /\ inflight \in [Clients -> Seq(Unit)]
    /\ received \in [Clients -> Seq(Unit)]
=============================================================================
