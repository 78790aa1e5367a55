------------------------- MODULE HttpResponseProofs -------------------------
(***************************************************************************)
(* What the serve loop sends: a response goes to the client whose request  *)
(* it answers, whole, and a connection marked for closing is closed.  The  *)
(* code tells connections apart by the remote address alone; where that is *)
(* what a result rests on, the theorem says so (OwnAddress).               *)
(***************************************************************************)
EXTENDS HttpServerProofs

\* No two clients have the same remote address, at any time.
OwnAddress == \A c, d \in Clients : IdentOf[c] = IdentOf[d] => c = d

-----------------------------------------------------------------------------
(* The invariants *)

Queued(c) == \E n \in DOMAIN backlog : backlog[n] = c

\* A client is in the accept queue, in the table or closed, and once only.
NetInv ==
    /\ \A fd \in Keys(httpConns) :
         LET c == httpConns[fd].sock IN
         /\ httpConns[fd].ident = IdentOf[c]
         /\ cli[c] # "new" /\ c \notin closed /\ ~Queued(c)
    /\ \A fd, gd \in Keys(httpConns) : httpConns[fd].sock = httpConns[gd].sock => fd = gd
    /\ \A n \in DOMAIN backlog : cli[backlog[n]] # "new" /\ backlog[n] \notin closed
    /\ \A m, n \in DOMAIN backlog : backlog[m] = backlog[n] => m = n
    /\ \A c \in closed : cli[c] # "new"
    /\ \A c \in Clients : cli[c] = "new" \/ Queued(c) => inflight[c] = <<>> /\ received[c] = <<>>

\* None of the connections of a list is marked for closing.
Open(list, conns) == \A m \in 1 .. Len(list) : list[m].fd \in Fds => ~needsClose(conns[list[m].fd])

\* A connection is not marked for closing while it is served, and if responses
\* come from another thread, all that are marked are visited before the next one.
ClosingInv ==
    /\ pc = "dispatch" => ~needsClose(httpConns[Item.fd])
    /\ Mode = "async" =>
         /\ pc = "write" => ~needsClose(httpConns[Item.fd])
         /\ pc = "idle" \/ (pc = "poll" /\ ~receivedData) => \A fd \in Fds : ~needsClose(httpConns[fd])
         /\ pc \in {"item", "dispatch", "write"} => Open(ptmp, httpConns)

\* A request of c, with the address of c.
ReqOf(r, c) == r.connection = IdentOf[c] /\ r.head[1].c = c

\* Requests and responses carry the address of the client they come from.
AddressInv ==
    /\ \A c \in Clients : \A n \in DOMAIN inq[c] : inq[c][n].c = c
    /\ \A fd \in Keys(httpConns) :
         httpConns[fd].currReq # Null => ReqOf(httpConns[fd].currReq, httpConns[fd].sock)
    /\ pc = "dispatch" => ReqOf(req, CurrClient)
    /\ \A n \in DOMAIN appq : ReqOf(appq[n], appq[n].head[1].c)
    /\ \A n \in DOMAIN mailbox : mailbox[n] \notin {Null, Shutdown} => mailbox[n].connection = IdentOf[mailbox[n].c]

OwnedBy(s, c) == \A n \in DOMAIN s : s[n].c = c

\* Responses follow one another, each in two parts.
Framed(s) ==
    \A n \in DOMAIN s :
        /\ s[n].part = IF n % 2 = 1 THEN 1 ELSE 2
        /\ n % 2 = 0 => s[n].q = s[n - 1].q

\* What was received (r), is under way (f) and waits to be written (w): whole
\* responses, the last of which may not have been taken whole by the kernel.
Begun(r, f)     == Framed(r \o f)
Entire(r, f, w) == Framed((r \o f) \o w) /\ Len((r \o f) \o w) % 2 = 0

\* Bytes for a client are its own, and together they are whole responses.
FrameInv ==
    /\ \A c \in Clients : /\ OwnedBy(received[c], c) /\ OwnedBy(inflight[c], c)
                          /\ cli[c] # "rst" => Begun(received[c], inflight[c])
    /\ \A fd \in Keys(httpConns) :
         LET c == httpConns[fd].sock IN
         /\ OwnedBy(httpConns[fd].writeBuf, c)
         /\ cli[c] # "rst" => Entire(received[c], inflight[c], httpConns[fd].writeBuf)

-----------------------------------------------------------------------------
(* What a step does to the connections *)

\* Only the table changes.
Kept == UNCHANGED <<peerVars, closed, inflight>>

\* read() has changed connection fd: neither its socket nor its output.
Reads(fd, conn) ==
    /\ ReadData /\ fd = Item.fd /\ conn = ReadInput.conn
    /\ fd \in Keys(httpConns) /\ conn \in LiveConn
    /\ conn.sock = httpConns[fd].sock /\ conn.ident = httpConns[fd].ident
    /\ conn.writeBuf = httpConns[fd].writeBuf
    /\ ~needsClose(httpConns[fd]) /\ conn.state # "Closing"
    /\ httpConns' = [httpConns EXCEPT ![fd] = conn]
    /\ Kept

\* Whose response it is that connection fd is given.
Gives(fd, resp) ==
    \/ DispatchReply /\ fd \in Targets(httpConns, resp) /\ \E outcome : resp = Reply(req, outcome)
    \/ DispatchHttpException /\ fd = Item.fd /\ resp = ErrorReply(req)
    \/ IdleResponse /\ fd \in Targets(httpConns, resp) /\ resp = Head(mailbox)

\* Connection fd is given a response.
Adds(fd, resp) ==
    /\ Gives(fd, resp)
    /\ fd \in Keys(httpConns) /\ resp \in Response
    /\ httpConns' = [httpConns EXCEPT ![fd] = add(httpConns[fd], resp)]
    /\ Kept

\* The kernel takes num units of the output of connection fd.
Writes(fd, num) ==
    LET conn == httpConns[fd] IN
    /\ fd \in Keys(httpConns) /\ num \in 0 .. Len(conn.writeBuf)
    /\ httpConns' = [httpConns EXCEPT ![fd] = write(conn, num)]
    /\ inflight' = [inflight EXCEPT ![conn.sock] = @ \o SubSeq(conn.writeBuf, 1, num)]
    /\ UNCHANGED <<peerVars, closed>>

\* Connection fd is closed.
Closes(fd, unread) ==
    /\ fd \in Keys(httpConns)
    /\ httpConns' = [httpConns EXCEPT ![fd] = AbsentConn]
    /\ CloseSocket(httpConns[fd].sock, unread)

\* read() keeps what it has no business with.
LEMMA ReadKeeps ==
    ASSUME NEW conn \in LiveConn, NEW buf \in Seq(Token), buf # <<>>, conn.state # "Closing"
    PROVE  LET r == read(conn, buf).conn IN
           /\ r.sock = conn.sock /\ r.ident = conn.ident /\ r.writeBuf = conn.writeBuf
           /\ r.state # "Closing"
<1> DEFINE Keeps(r) == /\ r.sock = conn.sock /\ r.ident = conn.ident /\ r.writeBuf = conn.writeBuf
                       /\ r.state # "Closing"
<1>1. \A k \in LiveConn : \A p : Keeps(k) => Keeps(FinishRead(k, p).conn)
  BY DEF FinishRead, ReadResult, LiveConn, Conn
<1>2. conn.readBuf \o buf \in Seq(Token)
  BY ConcatProperties DEF LiveConn, Conn
<1>3. \A stored \in Seq(Token) :
         /\ [conn EXCEPT !.readBuf = stored, !.state = "Body"] \in LiveConn
         /\ Keeps([conn EXCEPT !.readBuf = stored, !.state = "Body"])
         /\ [conn EXCEPT !.readBuf = stored] \in LiveConn
         /\ Keeps([conn EXCEPT !.readBuf = stored])
  BY DEF LiveConn, Conn
<1> HIDE DEF Keeps
<1>4. Keeps(ReadHeaders(conn, buf).conn)
  <2> DEFINE all    == conn.readBuf \o buf
             found  == HasEndOfHeaders(all)
             stored == IF conn.readBuf = <<>> /\ found THEN <<>> ELSE all
  <2>1. stored \in Seq(Token)
    BY <1>2, EmptySeq
  <2> HIDE DEF all
  <2>2. Keeps(FinishRead([conn EXCEPT !.readBuf = stored, !.state = "Body"],
                         parseHttpHeaders(buf, conn.ident)).conn)
    BY <1>1, <1>3, <2>1
  <2>3. Keeps(FinishRead([conn EXCEPT !.readBuf = stored], Parsed(conn.currReq, 0)).conn)
    BY <1>1, <1>3, <2>1
  <2> QED
    BY <2>2, <2>3 DEF ReadHeaders, all
<1>5. Keeps(conn)
  BY DEF Keeps
<1> QED
  BY <1>1, <1>4, <1>5 DEF read, ReadResult, Keeps

\* The connection at hand, when the loop dispatches or writes.
LEMMA AtHand ==
    ASSUME IInv, pc \in {"dispatch", "write"} \/ AtConn
    PROVE  /\ Item.fd \in Fds /\ Item.fd \in Keys(httpConns) /\ i \in 1 .. Len(pitem)
           /\ CurrConn \in LiveConn /\ CurrClient \in Clients /\ CurrConn = httpConns[Item.fd]
<1>1. i \in 1 .. Len(pitem) /\ ~isListener(Item) /\ pc # "crashed"
  BY IndexOK DEF IInv, PcOK, AtConn
<1> QED
  BY <1>1, CurrLemma DEF IInv, CurrConn

\* read() changes the connection at hand, and leaves its output as it is.
LEMMA ReadDataReads ==
    ASSUME IInv, ReadData
    PROVE  Item.fd \in Fds /\ ReadInput.conn \in LiveConn /\ Reads(Item.fd, ReadInput.conn)
<1>1. /\ Item.fd \in Fds /\ Item.fd \in Keys(httpConns) /\ CurrConn \in LiveConn /\ CurrClient \in Clients
      /\ CurrConn = httpConns[Item.fd] /\ ReadInput \in ReadResults
  BY AtHand, ReadInputType DEF ReadData, HasInput, Readable, Served
<1>2. inq[CurrClient] \in Seq(Token) /\ inq[CurrClient] # <<>>
  BY <1>1 DEF IInv, TypeOK, ReadData, HasInput
<1>3. /\ ReadInput.conn.sock = CurrConn.sock /\ ReadInput.conn.ident = CurrConn.ident
      /\ ReadInput.conn.writeBuf = CurrConn.writeBuf
      /\ CurrConn.state # "Closing" /\ ReadInput.conn.state # "Closing"
  BY <1>1, <1>2, ReadKeeps DEF ReadInput, ReadData, HasInput, Readable, Served, needsClose
<1>4. ReadInput.conn \in LiveConn
  BY <1>1 DEF ReadResults
<1>5. Reads(Item.fd, ReadInput.conn)
  BY <1>1, <1>3, <1>4 DEF ReadData, Reads, Kept, needsClose
<1> QED
  BY <1>1, <1>4, <1>5

\* Every step does one of these things to the connections.
LEMMA Effects ==
    ASSUME IInv, [Next]_vars
    PROVE  \/ httpConns' = httpConns /\ Kept
           \/ \E fd \in Fds, conn \in LiveConn : Reads(fd, conn)
           \/ \E fd \in Fds, resp \in Response : Adds(fd, resp)
           \/ \E fd \in Fds, num \in Nat : Writes(fd, num)
           \/ \E fd \in Fds : \E unread : Closes(fd, unread)
           \/ Accept \/ AcceptThrows \/ Client
<1>1. CASE \/ Poll \/ ListenError \/ NoAccept \/ SkipRead \/ ReadError \/ DispatchNull \/ DispatchSend
           \/ SkipWrite \/ WriteError \/ EndRound \/ IdleSync \/ IdleEmpty \/ IdleShutdown \/ IdleNull
           \/ Handle \/ SendShutdown \/ UNCHANGED vars
  BY <1>1 DEF Poll, ListenError, NoAccept, SkipRead, ReadError, DispatchNull, DispatchSend, SkipWrite,
     WriteError, EndRound, IdleSync, IdleEmpty, IdleShutdown, IdleNull, Handle, SendShutdown, vars,
     netVars, loopVars, peerVars, Kept
<1>2. CASE CloseConn \/ ReadEOF \/ ReadException \/ DispatchException
  <2>1. Item.fd \in Fds /\ Item.fd \in Keys(httpConns) /\ CurrConn = httpConns[Item.fd]
    BY <1>2, AtHand DEF CloseConn, ReadEOF, ReadException, DispatchException, HasInput, Readable, Served
  <2>2. \E unread : Closes(Item.fd, unread)
    BY <1>2, <2>1 DEF CloseConn, ReadEOF, ReadException, DispatchException, OnClose, Closes, CurrClient
  <2> QED
    BY <2>1, <2>2
<1>3. CASE ReadData
  BY <1>3, ReadDataReads
<1>4. CASE DispatchReply
  <2>1. req \in Request
    BY <1>4, AtDispatch DEF DispatchReply
  <2>2. PICK outcome \in Outcomes : \E fd \in Targets(httpConns, Reply(req, outcome)) :
           httpConns' = [httpConns EXCEPT ![fd] = add(httpConns[fd], Reply(req, outcome))]
    BY <1>4 DEF DispatchReply
  <2>3. PICK fd \in Targets(httpConns, Reply(req, outcome)) :
           httpConns' = [httpConns EXCEPT ![fd] = add(httpConns[fd], Reply(req, outcome))]
    BY <2>2
  <2>4. fd \in Fds /\ fd \in Keys(httpConns) /\ Reply(req, outcome) \in Response /\ Kept
    BY <1>4, <2>1, ReplyType DEF Targets, Keys, DispatchReply, netVars, Kept
  <2>5. Gives(fd, Reply(req, outcome))
    BY <1>4, <2>3 DEF Gives
  <2> QED
    BY <2>3, <2>4, <2>5 DEF Adds
<1>5. CASE DispatchHttpException
  <2>1. req \in Request /\ Item.fd \in Fds /\ Item.fd \in Keys(httpConns) /\ CurrConn = httpConns[Item.fd]
    BY <1>5, AtDispatch, AtHand DEF DispatchHttpException
  <2>2. ErrorReply(req) \in Response
    BY <2>1, ReplyType
  <2>3. Adds(Item.fd, ErrorReply(req))
    <3>1. Gives(Item.fd, ErrorReply(req))
      BY <1>5 DEF Gives
    <3> QED
      BY <1>5, <2>1, <2>2, <3>1 DEF DispatchHttpException, Adds, Kept, netVars
  <2> QED
    BY <2>1, <2>2, <2>3
<1>6. CASE IdleResponse
  <2> DEFINE resp == Head(mailbox)
  <2>1. resp \in Response
    BY <1>6, HeadTailProperties DEF IInv, TypeOK, IdleResponse, Message
  <2>2. Kept /\ \/ \E fd \in Targets(httpConns, resp) : httpConns' = [httpConns EXCEPT ![fd] = add(httpConns[fd], resp)]
                \/ httpConns' = httpConns
    BY <1>6 DEF IdleResponse, netVars, Kept
  <2>4. \A fd \in Targets(httpConns, resp) : Gives(fd, resp)
    BY <1>6 DEF Gives
  <2> HIDE DEF resp
  <2>3. ASSUME NEW fd \in Targets(httpConns, resp), httpConns' = [httpConns EXCEPT ![fd] = add(httpConns[fd], resp)]
        PROVE  fd \in Fds /\ Adds(fd, resp)
    BY <2>1, <2>2, <2>3, <2>4 DEF Targets, Keys, Adds
  <2> QED
    BY <2>1, <2>2, <2>3
<1>7. CASE Write
  <2> DEFINE len == Len(CurrConn.writeBuf)
             num == IF len < Room(CurrClient) THEN len ELSE Room(CurrClient)
  <2>1. /\ Item.fd \in Fds /\ Item.fd \in Keys(httpConns) /\ CurrConn \in LiveConn /\ CurrClient \in Clients
        /\ CurrConn = httpConns[Item.fd]
    BY <1>7, AtHand DEF Write
  <2>2. len \in Nat
    BY <2>1, LenProperties DEF LiveConn, Conn
  <2>3. Room(CurrClient) \in Nat
    <3>1. inflight[CurrClient] \in Seq(Unit) /\ Len(inflight[CurrClient]) <= SndBuf
      BY <2>1 DEF IInv, TypeOK, BufOK
    <3> QED
      BY <3>1, LenProperties, ConstAssumption DEF Room
  <2>4. num \in 0 .. len
    BY <2>2, <2>3
  <2>5. /\ httpConns' = [httpConns EXCEPT ![Item.fd] = write(CurrConn, num)]
        /\ inflight' = [inflight EXCEPT ![CurrClient] = inflight[CurrClient] \o SubSeq(CurrConn.writeBuf, 1, num)]
        /\ UNCHANGED <<peerVars, closed>>
    BY <1>7 DEF Write
  <2>6. Writes(Item.fd, num)
    BY <2>1, <2>4, <2>5 DEF Writes, CurrClient
  <2> QED
    BY <2>1, <2>2, <2>4, <2>6
<1> QED
  BY <1>1, <1>2, <1>3, <1>4, <1>5, <1>6, <1>7 DEF Next, Server

-----------------------------------------------------------------------------
(* One connection for a client *)

\* Every entry is a connection or the empty one; a connection is replaced.
LEMMA Table ==
    ASSUME IInv
    PROVE  /\ httpConns \in [Fds -> Conn] /\ Keys(httpConns) \subseteq Fds
           /\ \A fd \in Keys(httpConns) : httpConns[fd] \in LiveConn /\ httpConns[fd].sock \in Clients
           /\ \A fd \in Keys(httpConns), conn \in LiveConn :
                httpConns' = [httpConns EXCEPT ![fd] = conn] =>
                    /\ Keys(httpConns') = Keys(httpConns) /\ httpConns'[fd] = conn
                    /\ \A gd \in Fds : gd # fd => httpConns'[gd] = httpConns[gd]
           /\ \A fd \in Fds :
                httpConns' = [httpConns EXCEPT ![fd] = AbsentConn] =>
                    /\ Keys(httpConns') = Keys(httpConns) \ {fd}
                    /\ \A gd \in Fds : gd # fd => httpConns'[gd] = httpConns[gd]
<1>1. httpConns \in [Fds -> Conn] /\ Keys(httpConns) \subseteq Fds
  BY DEF IInv, TypeOK, Keys
<1>2. \A fd \in Keys(httpConns) : httpConns[fd] \in LiveConn /\ httpConns[fd].sock \in Clients
  BY DEF IInv, ConnsOK, Keys, AbsentConn, LiveConn
<1>3. ASSUME NEW fd \in Keys(httpConns), NEW conn \in LiveConn, httpConns' = [httpConns EXCEPT ![fd] = conn]
      PROVE  /\ Keys(httpConns') = Keys(httpConns) /\ httpConns'[fd] = conn
             /\ \A gd \in Fds : gd # fd => httpConns'[gd] = httpConns[gd]
  <2>1. Keys(httpConns') = Keys(httpConns) \cup {fd}
    BY <1>1, <1>3, ConnsUpdate DEF IInv
  <2> QED
    BY <1>1, <1>3, <2>1
<1>4. ASSUME NEW fd \in Fds, httpConns' = [httpConns EXCEPT ![fd] = AbsentConn]
      PROVE  /\ Keys(httpConns') = Keys(httpConns) \ {fd}
             /\ \A gd \in Fds : gd # fd => httpConns'[gd] = httpConns[gd]
  BY <1>1, <1>4, ConnsUpdate DEF IInv
<1> QED
  BY <1>1, <1>2, <1>3, <1>4

\* A connection keeps its socket and its address.
LEMMA NetConn ==
    ASSUME IInv, NetInv, NEW fd \in Keys(httpConns), NEW conn \in LiveConn,
           conn.sock = httpConns[fd].sock, conn.ident = httpConns[fd].ident,
           httpConns' = [httpConns EXCEPT ![fd] = conn], UNCHANGED <<backlog, cli, received, closed>>,
           \A c \in Clients : inflight'[c] = inflight[c] \/ c = conn.sock
    PROVE  NetInv'
<1>1. /\ Keys(httpConns') = Keys(httpConns) /\ httpConns'[fd] = conn
      /\ \A gd \in Fds : gd # fd => httpConns'[gd] = httpConns[gd]
      /\ Keys(httpConns) \subseteq Fds
  BY Table
<1>2. \A gd \in Keys(httpConns) : httpConns'[gd].sock = httpConns[gd].sock /\ httpConns'[gd].ident = httpConns[gd].ident
  BY <1>1
<1>3. \A c : Queued(c)' = Queued(c)
  BY DEF Queued
<1>4. cli[conn.sock] # "new" /\ ~Queued(conn.sock)
  BY DEF NetInv
<1>5. \A c \in Clients : cli'[c] = "new" \/ Queued(c)' => inflight'[c] = <<>> /\ received'[c] = <<>>
  BY <1>3, <1>4 DEF NetInv
<1>6. \A gd \in Keys(httpConns') :
         LET c == httpConns'[gd].sock IN
         /\ httpConns'[gd].ident = IdentOf[c]
         /\ cli'[c] # "new" /\ c \notin closed' /\ ~Queued(c)
  <2> TAKE gd \in Keys(httpConns')
  <2>1. gd \in Keys(httpConns) /\ httpConns'[gd].sock = httpConns[gd].sock /\ httpConns'[gd].ident = httpConns[gd].ident
    BY <1>1, <1>2
  <2> QED
    BY <2>1 DEF NetInv
<1>8. \A gd, hd \in Keys(httpConns') : httpConns'[gd].sock = httpConns'[hd].sock => gd = hd
  BY <1>1, <1>2 DEF NetInv
<1>7. /\ \A n \in DOMAIN backlog' : cli'[backlog'[n]] # "new" /\ backlog'[n] \notin closed'
      /\ \A m, n \in DOMAIN backlog' : backlog'[m] = backlog'[n] => m = n
      /\ \A c \in closed' : cli'[c] # "new"
  BY DEF NetInv
<1> QED
  BY <1>3, <1>5, <1>6, <1>7, <1>8 DEF NetInv

\* A client whose connection is closed is not in the table.
LEMMA NetCloses ==
    ASSUME IInv, NetInv, NEW fd \in Fds, NEW unread, Closes(fd, unread)
    PROVE  NetInv'
<1> DEFINE e == httpConns[fd].sock
<1>1. /\ Keys(httpConns') = Keys(httpConns) \ {fd} /\ fd \in Keys(httpConns) /\ e \in Clients
      /\ \A gd \in Fds : gd # fd => httpConns'[gd] = httpConns[gd]
      /\ Keys(httpConns) \subseteq Fds
  BY Table DEF Closes
<1>2. /\ closed' = closed \cup {e} /\ UNCHANGED <<backlog, cli, received>>
      /\ inflight' = inflight \/ inflight' = [inflight EXCEPT ![e] = <<>>]
      /\ inflight \in [Clients -> Seq(Unit)]
  BY DEF Closes, CloseSocket, peerVars, IInv, TypeOK
<1>3. \A c \in Clients : inflight'[c] = inflight[c] \/ inflight'[c] = <<>>
  BY <1>2
<1>4. \A c : Queued(c)' = Queued(c)
  BY <1>2 DEF Queued
<1>5. cli[e] # "new" /\ ~Queued(e)
  BY <1>1 DEF NetInv
<1>6. \A gd \in Keys(httpConns') : gd \in Keys(httpConns) /\ httpConns'[gd] = httpConns[gd] /\ httpConns[gd].sock # e
  BY <1>1 DEF NetInv
<1>7. \A n \in DOMAIN backlog : backlog[n] # e
  BY <1>5 DEF Queued
<1> HIDE DEF e
<1> QED
  BY <1>2, <1>3, <1>4, <1>5, <1>6, <1>7 DEF NetInv

\* The client at the head of the accept queue leaves it.
LEMMA NetHead ==
    ASSUME IInv, NetInv, backlog # <<>>, backlog' = Tail(backlog)
    PROVE  /\ Head(backlog) \in Clients /\ Queued(Head(backlog))
           /\ \A c : Queued(c)' => Queued(c) /\ c # Head(backlog)
           /\ \A n \in DOMAIN backlog' : n + 1 \in DOMAIN backlog /\ backlog'[n] = backlog[n + 1] /\ n \in Nat \ {0}
           /\ cli[Head(backlog)] # "new" /\ Head(backlog) \notin closed
<1>1. backlog \in Seq(Clients)
  BY DEF IInv, TypeOK
<1>2. /\ Head(backlog) = backlog[1] /\ Head(backlog) \in Clients /\ 1 \in DOMAIN backlog
      /\ \A n \in DOMAIN backlog' : n + 1 \in DOMAIN backlog /\ backlog'[n] = backlog[n + 1] /\ n \in Nat \ {0}
  BY <1>1
<1>3. \A n \in DOMAIN backlog' : backlog[n + 1] # backlog[1]
  <2> TAKE n \in DOMAIN backlog'
  <2>1. n + 1 # 1
    BY <1>2
  <2> QED
    BY <1>2, <2>1 DEF NetInv
<1>4. \A c : Queued(c)' => Queued(c) /\ c # Head(backlog)
  BY <1>2, <1>3 DEF Queued
<1>5. Queued(Head(backlog)) /\ cli[Head(backlog)] # "new" /\ Head(backlog) \notin closed
  BY <1>2 DEF NetInv, Queued
<1> QED
  BY <1>2, <1>4, <1>5

\* An accepted client moves from the queue to the table.
LEMMA NetAccept ==
    ASSUME IInv, NetInv, Accept
    PROVE  NetInv'
<1> DEFINE c == Head(backlog)
<1>1. /\ backlog # <<>> /\ backlog' = Tail(backlog)
      /\ UNCHANGED <<cli, closed, sent, inq, inflight, received>>
  BY DEF Accept, CanAccept
<1>2. PICK fd \in Fds \ Keys(httpConns) : httpConns' = [httpConns EXCEPT ![fd] = NewConn(c, IdentOf[c])]
  BY DEF Accept
<1>3. /\ c \in Clients /\ Queued(c) /\ cli[c] # "new" /\ c \notin closed
      /\ \A e : Queued(e)' => Queued(e) /\ e # c
      /\ \A n \in DOMAIN backlog' : n + 1 \in DOMAIN backlog /\ backlog'[n] = backlog[n + 1] /\ n \in Nat \ {0}
  BY <1>1, NetHead
<1>4. /\ Keys(httpConns') = Keys(httpConns) \cup {fd} /\ httpConns'[fd] = NewConn(c, IdentOf[c])
      /\ \A gd \in Fds : gd # fd => httpConns'[gd] = httpConns[gd]
  <2>1. httpConns \in [Fds -> Conn]
    BY Table
  <2> QED
    BY <1>2, <2>1 DEF Keys, NewConn
<1>5. httpConns'[fd].sock = c /\ httpConns'[fd].ident = IdentOf[c]
  BY <1>4 DEF NewConn
<1>6. \A gd \in Keys(httpConns') \ {fd} :
         /\ gd \in Keys(httpConns) /\ httpConns'[gd] = httpConns[gd]
         /\ httpConns[gd].sock # c
  BY <1>3, <1>4 DEF NetInv, Keys
<1> HIDE DEF c
<1>7. \A m, n \in DOMAIN backlog' : backlog'[m] = backlog'[n] => m = n
  <2> TAKE m, n \in DOMAIN backlog'
  <2>1. backlog'[m] = backlog'[n] => m + 1 = n + 1
    BY <1>3 DEF NetInv
  <2> QED
    BY <1>3, <2>1
<1>8. \A gd \in Keys(httpConns') :
         LET e == httpConns'[gd].sock IN
         /\ httpConns'[gd].ident = IdentOf[e]
         /\ cli[e] # "new" /\ e \notin closed /\ ~\E n \in DOMAIN backlog' : backlog'[n] = e
  <2> TAKE gd \in Keys(httpConns')
  <2>1. \A e : (\E n \in DOMAIN backlog' : backlog'[n] = e) => Queued(e) /\ e # c
    BY <1>3 DEF Queued
  <2>2. CASE gd = fd
    BY <1>3, <1>5, <2>1, <2>2
  <2>3. CASE gd # fd
    BY <1>6, <2>1, <2>3 DEF NetInv
  <2> QED
    BY <2>2, <2>3
<1>9. \A gd, hd \in Keys(httpConns') : httpConns'[gd].sock = httpConns'[hd].sock => gd = hd
  BY <1>5, <1>6 DEF NetInv
<1>10. /\ \A n \in DOMAIN backlog' : cli[backlog'[n]] # "new" /\ backlog'[n] \notin closed
       /\ \A e \in Clients : cli[e] = "new" \/ Queued(e)' => inflight[e] = <<>> /\ received[e] = <<>>
  BY <1>3 DEF NetInv
<1>11. \A e \in closed : cli[e] # "new"
  BY DEF NetInv
<1> QED
  BY <1>1, <1>7, <1>8, <1>9, <1>10, <1>11 DEF NetInv, Queued

\* A client that reset the connection in the queue is closed at once.
LEMMA NetAcceptThrows ==
    ASSUME IInv, NetInv, AcceptThrows
    PROVE  NetInv'
<1> DEFINE c == Head(backlog)
<1>1. /\ backlog # <<>> /\ backlog' = Tail(backlog) /\ closed' = closed \cup {c}
      /\ UNCHANGED <<cli, httpConns, inflight, received>>
  BY DEF AcceptThrows, CanAccept
<1>2. /\ c \in Clients /\ Queued(c) /\ cli[c] # "new" /\ c \notin closed
      /\ \A e : Queued(e)' => Queued(e) /\ e # c
      /\ \A n \in DOMAIN backlog' : n + 1 \in DOMAIN backlog /\ backlog'[n] = backlog[n + 1] /\ n \in Nat \ {0}
  BY <1>1, NetHead
<1>3. \A n \in DOMAIN backlog' : backlog'[n] # c
  BY <1>2 DEF Queued
<1>4. \A fd \in Keys(httpConns) : httpConns[fd].sock # c
  BY <1>2 DEF NetInv
<1> HIDE DEF c
<1>5. \A m, n \in DOMAIN backlog' : backlog'[m] = backlog'[n] => m = n
  <2> TAKE m, n \in DOMAIN backlog'
  <2>1. backlog'[m] = backlog'[n] => m + 1 = n + 1
    BY <1>2 DEF NetInv
  <2> QED
    BY <1>2, <2>1
<1> QED
  BY <1>1, <1>2, <1>3, <1>4, <1>5 DEF NetInv

\* A client enters the queue when it connects, and only then.
LEMMA NetClient ==
    ASSUME IInv, NetInv, NEW c \in Clients, Connect(c) \/ Send(c) \/ Fin(c) \/ Reset(c) \/ Drain(c)
    PROVE  NetInv'
<1>1. /\ httpConns' = httpConns /\ closed' = closed
      /\ cli \in [Clients -> {"new", "open", "fin", "rst"}] /\ backlog \in Seq(Clients)
      /\ inflight \in [Clients -> Seq(Unit)] /\ received \in [Clients -> Seq(Unit)]
      /\ Keys(httpConns) \subseteq Fds /\ \A fd \in Keys(httpConns) : httpConns[fd].sock \in Clients
  BY Table DEF Connect, Send, Fin, Reset, Drain, loopVars, IInv, TypeOK
<1>2. CASE Connect(c)
  <2>1. /\ cli[c] = "new" /\ cli' = [cli EXCEPT ![c] = "open"] /\ backlog' = Append(backlog, c)
        /\ UNCHANGED <<inflight, received>>
    BY <1>2 DEF Connect
  <2>2. \A e \in Clients : (e # c => cli'[e] = cli[e]) /\ cli'[c] = "open"
    BY <1>1, <2>1
  <2>3. /\ DOMAIN backlog' = 1 .. Len(backlog) + 1 /\ DOMAIN backlog = 1 .. Len(backlog) /\ Len(backlog) \in Nat
        /\ backlog'[Len(backlog) + 1] = c /\ \A n \in 1 .. Len(backlog) : backlog'[n] = backlog[n] /\ backlog[n] \in Clients
    BY <1>1, <2>1
  <2>4. \A n \in DOMAIN backlog : backlog[n] # c
    BY <2>1 DEF NetInv
  <2>5. \A e \in Clients : Queued(e)' => Queued(e) \/ e = c
    BY <2>3 DEF Queued
  <2>6. \A m, n \in DOMAIN backlog' : backlog'[m] = backlog'[n] => m = n
    <3>1. \A n \in DOMAIN backlog' : (n \in DOMAIN backlog /\ backlog'[n] = backlog[n]) \/ (n = Len(backlog) + 1 /\ backlog'[n] = c)
      BY <2>3
    <3> QED
      BY <2>4, <3>1 DEF NetInv
  <2>7. \A n \in DOMAIN backlog' : backlog'[n] \in Clients /\ cli'[backlog'[n]] # "new" /\ backlog'[n] \notin closed
    <3>1. c \notin closed
      BY <2>1 DEF NetInv
    <3>2. \A n \in DOMAIN backlog' : (n \in DOMAIN backlog /\ backlog'[n] = backlog[n] /\ backlog[n] \in Clients) \/ backlog'[n] = c
      BY <2>3
    <3> QED
      BY <2>2, <3>1, <3>2 DEF NetInv
  <2>8. \A fd \in Keys(httpConns) : httpConns[fd].sock # c
    BY <2>1 DEF NetInv
  <2>9. \A e \in closed : e \in Clients
    BY DEF IInv, TypeOK
  <2>10. \A fd \in Keys(httpConns) :
            LET e == httpConns[fd].sock IN
            httpConns[fd].ident = IdentOf[e] /\ cli'[e] # "new" /\ e \notin closed /\ ~Queued(e)'
    BY <1>1, <2>2, <2>5, <2>8 DEF NetInv
  <2>11. \A e \in closed : cli'[e] # "new"
    BY <2>2, <2>9 DEF NetInv
  <2>12. \A e \in Clients : cli'[e] = "new" \/ Queued(e)' => inflight[e] = <<>> /\ received[e] = <<>>
    BY <2>1, <2>2, <2>5 DEF NetInv
  <2> QED
    BY <1>1, <2>1, <2>6, <2>7, <2>10, <2>11, <2>12 DEF NetInv
<1>3. CASE Send(c) \/ Fin(c) \/ Reset(c) \/ Drain(c)
  <2>1. /\ backlog' = backlog
        /\ \A e \in Clients : cli'[e] = "new" <=> cli[e] = "new"
        /\ \A e \in Clients : inflight'[e] = inflight[e] \/ inflight'[e] = <<>> \/ inflight[e] # <<>>
        /\ \A e \in Clients : received'[e] = received[e] \/ inflight[e] # <<>>
    BY <1>1, <1>3 DEF Send, Fin, Reset, Drain
  <2>2. \A e : Queued(e)' = Queued(e)
    BY <2>1 DEF Queued
  <2>3. \A e \in closed : e \in Clients
    BY DEF IInv, TypeOK
  <2>4. \A n \in DOMAIN backlog : backlog[n] \in Clients
    BY <1>1, ElementOfSeq
  <2> QED
    BY <1>1, <2>1, <2>2, <2>3, <2>4 DEF NetInv
<1> QED
  BY <1>2, <1>3

\* Every step keeps the invariant.
LEMMA NetStep ==
    ASSUME IInv, NetInv, [Next]_vars
    PROVE  NetInv'
<1>1. CASE httpConns' = httpConns /\ Kept
  BY <1>1 DEF NetInv, Kept, peerVars, Queued
<1>2. ASSUME NEW fd \in Fds, NEW conn \in LiveConn, Reads(fd, conn) PROVE NetInv'
  BY <1>2, NetConn DEF Reads, Kept, peerVars
<1>3. ASSUME NEW fd \in Fds, NEW resp \in Response, Adds(fd, resp) PROVE NetInv'
  <2> DEFINE conn == add(httpConns[fd], resp)
  <2>1. httpConns[fd] \in LiveConn /\ fd \in Keys(httpConns)
    BY <1>3, Table DEF Adds
  <2>2. conn \in LiveConn /\ conn.sock = httpConns[fd].sock /\ conn.ident = httpConns[fd].ident
    BY <2>1, AddType DEF add, LiveConn, Conn
  <2>3. httpConns' = [httpConns EXCEPT ![fd] = conn] /\ Kept
    BY <1>3 DEF Adds
  <2> HIDE DEF conn
  <2> QED
    BY <2>1, <2>2, <2>3, NetConn DEF Kept, peerVars
<1>4. ASSUME NEW fd \in Fds, NEW num \in Nat, Writes(fd, num) PROVE NetInv'
  <2> DEFINE conn == write(httpConns[fd], num)
  <2>1. httpConns[fd] \in LiveConn /\ fd \in Keys(httpConns) /\ num \in 0 .. Len(httpConns[fd].writeBuf)
    BY <1>4, Table DEF Writes
  <2>2. conn \in LiveConn /\ conn.sock = httpConns[fd].sock /\ conn.ident = httpConns[fd].ident
    BY <2>1, WriteType DEF write, LiveConn, Conn
  <2>3. httpConns' = [httpConns EXCEPT ![fd] = conn] /\ UNCHANGED <<backlog, cli, received, closed>>
    BY <1>4 DEF Writes, peerVars
  <2>4. \A c \in Clients : inflight'[c] = inflight[c] \/ c = conn.sock
    <3>1. inflight \in [Clients -> Seq(Unit)]
      BY DEF IInv, TypeOK
    <3> QED
      BY <1>4, <2>2, <3>1 DEF Writes
  <2> HIDE DEF conn
  <2> QED
    BY <2>1, <2>2, <2>3, <2>4, NetConn
<1>5. ASSUME NEW fd \in Fds, NEW unread, Closes(fd, unread) PROVE NetInv'
  BY <1>5, NetCloses
<1>6. CASE Accept \/ AcceptThrows \/ Client
  BY <1>6, NetAccept, NetAcceptThrows, NetClient DEF Client
<1> QED
  BY <1>1, <1>2, <1>3, <1>4, <1>5, <1>6, Effects

\* Nobody has connected yet.
LEMMA NetInit == Init => NetInv
<1> SUFFICES ASSUME Init PROVE NetInv
  OBVIOUS
<1>1. Keys(httpConns) = {} /\ DOMAIN backlog = {} /\ closed = {}
  BY DEF Init, Keys, AbsentConn
<1>2. \A c \in Clients : inflight[c] = <<>> /\ received[c] = <<>>
  BY DEF Init
<1> QED
  BY <1>1, <1>2 DEF NetInv

-----------------------------------------------------------------------------
(* Connections marked for closing *)

\* Only a response marks a connection for closing.
LEMMA Marks ==
    ASSUME IInv, [Next]_vars, ~DispatchReply, ~DispatchHttpException, ~IdleResponse
    PROVE  \A fd \in Fds : needsClose(httpConns'[fd]) => needsClose(httpConns[fd])
<1>1. CASE httpConns' = httpConns
  BY <1>1 DEF needsClose
<1>2. ASSUME NEW fd \in Fds, NEW conn, conn.state # "Closing" \/ needsClose(httpConns[fd]),
             httpConns' = [httpConns EXCEPT ![fd] = conn]
      PROVE  \A gd \in Fds : needsClose(httpConns'[gd]) => needsClose(httpConns[gd])
  BY <1>2, Table DEF needsClose
<1>3. ASSUME NEW fd \in Fds, NEW conn \in LiveConn, Reads(fd, conn)
      PROVE  \A gd \in Fds : needsClose(httpConns'[gd]) => needsClose(httpConns[gd])
  BY <1>2, <1>3 DEF Reads
<1>4. ASSUME NEW fd \in Fds, NEW num \in Nat, Writes(fd, num)
      PROVE  \A gd \in Fds : needsClose(httpConns'[gd]) => needsClose(httpConns[gd])
  <2>1. fd \in Keys(httpConns) /\ httpConns[fd] \in LiveConn
    BY <1>4, Table DEF Writes
  <2>2. write(httpConns[fd], num).state = httpConns[fd].state
    BY <2>1 DEF write, LiveConn, Conn
  <2>3. httpConns' = [httpConns EXCEPT ![fd] = write(httpConns[fd], num)]
    BY <1>4 DEF Writes
  <2> QED
    BY <1>2, <2>2, <2>3 DEF needsClose
<1>5. ASSUME NEW fd \in Fds, NEW unread, Closes(fd, unread)
      PROVE  \A gd \in Fds : needsClose(httpConns'[gd]) => needsClose(httpConns[gd])
  BY <1>2, <1>5 DEF Closes, AbsentConn
<1>6. CASE Accept
  <2>1. PICK fd \in Fds : \E c : httpConns' = [httpConns EXCEPT ![fd] = NewConn(c, IdentOf[c])]
    BY <1>6 DEF Accept
  <2>2. \A c : NewConn(c, IdentOf[c]).state = "Headers"
    BY DEF NewConn
  <2> HIDE DEF NewConn
  <2> QED
    BY <1>2, <2>1, <2>2
<1>7. CASE AcceptThrows \/ Client
  BY <1>1, <1>7 DEF AcceptThrows, Client, Connect, Send, Fin, Reset, Drain, loopVars
<1>8. ~\E fd \in Fds, resp \in Response : Adds(fd, resp)
  BY DEF Adds, Gives
<1> QED
  BY <1>1, <1>3, <1>4, <1>5, <1>6, <1>7, <1>8, Effects

\* The list being built grows by items of connections that are not marked.
LEMMA OpenMerge ==
    ASSUME TypeOK, NEW items \in Seq(PollItem), Merge(items), Open(ptmp, httpConns),
           \A fd \in Fds : needsClose(httpConns'[fd]) => needsClose(httpConns[fd]),
           \A n \in 1 .. Len(items) : items[n].fd \in Fds => ~needsClose(httpConns'[items[n].fd])
    PROVE  Open(ptmp', httpConns')
<1>1. /\ Len(ptmp) \in Nat /\ Len(items) \in Nat /\ Len(ptmp') = Len(ptmp) + Len(items)
      /\ \A n \in 1 .. Len(ptmp') : ptmp'[n] = IF n <= Len(ptmp) THEN ptmp[n] ELSE items[n - Len(ptmp)]
  BY ConcatProperties, LenProperties DEF TypeOK, Merge
<1>2. ASSUME NEW n \in 1 .. Len(ptmp'), ptmp'[n].fd \in Fds
      PROVE  ~needsClose(httpConns'[ptmp'[n].fd])
  <2>1. CASE n <= Len(ptmp)
    <3>1. n \in 1 .. Len(ptmp) /\ ptmp'[n] = ptmp[n]
      BY <1>1, <2>1
    <3> QED
      BY <1>2, <3>1 DEF Open
  <2>2. CASE n > Len(ptmp)
    <3>1. n - Len(ptmp) \in 1 .. Len(items) /\ ptmp'[n] = items[n - Len(ptmp)]
      BY <1>1, <2>2
    <3> QED
      BY <1>2, <3>1
  <2> QED
    BY <1>1, <2>1, <2>2
<1> QED
  BY <1>2 DEF Open

\* The items that the loop merges.
LEMMA OneItem ==
    ASSUME NEW item \in PollItem, item.fd \in Fds => ~needsClose(httpConns'[item.fd])
    PROVE  /\ <<item>> \in Seq(PollItem)
           /\ \A n \in 1 .. Len(<<item>>) : <<item>>[n].fd \in Fds => ~needsClose(httpConns'[<<item>>[n].fd])
  OBVIOUS

\* A step of the loop at an item leaves no marked connection behind in the list.
LEMMA OpenStep ==
    ASSUME IInv, ClosingInv, [Next]_vars, Mode = "async", pc \in {"item", "dispatch", "write"},
           pc' \in {"item", "dispatch", "write"}
    PROVE  Open(ptmp', httpConns')
<1>1. ~DispatchReply /\ ~DispatchHttpException /\ ~DispatchNull /\ ~DispatchException /\ ~IdleResponse
  BY DEF DispatchReply, DispatchHttpException, DispatchNull, DispatchException, IdleResponse
<1>2. \A fd \in Fds : needsClose(httpConns'[fd]) => needsClose(httpConns[fd])
  BY <1>1, Marks
<1>3. Open(ptmp, httpConns) /\ TypeOK
  BY DEF ClosingInv, IInv
<1>4. CASE ptmp' = ptmp
  BY <1>2, <1>3, <1>4 DEF Open
<1>5. CASE ListenError \/ NoAccept
  <2>1. Merge(<<listenItem>>) /\ listenItem.fd \notin Fds
    BY <1>5, ConstAssumption DEF ListenError, NoAccept, listenItem
  <2> QED
    BY <1>2, <1>3, <2>1, OneItem, OpenMerge, ItemTypes
<1>6. CASE CloseConn \/ ReadEOF \/ ReadException \/ AcceptThrows
  <2>1. Merge(<<>>) /\ <<>> \in Seq(PollItem) /\ 1 .. Len(<<>>) = {}
    BY <1>6 DEF CloseConn, ReadEOF, ReadException, AcceptThrows, OnClose
  <2> QED
    BY <1>2, <1>3, <2>1, OpenMerge
<1>7. CASE SkipWrite \/ Write
  <2>1. Item.fd \in Fds /\ ~needsClose(httpConns'[Item.fd])
    BY <1>2, <1>7, AtHand DEF SkipWrite, Write, ClosingInv
  <2>2. PICK conn : Merge(<<connItem(Item.fd, conn)>>)
    BY <1>7 DEF SkipWrite, Write
  <2>3. connItem(Item.fd, conn) \in PollItem /\ connItem(Item.fd, conn).fd = Item.fd
    BY <2>1 DEF connItem, needsWrite, PollItem
  <2> QED
    BY <1>2, <1>3, <2>1, <2>2, <2>3, OneItem, OpenMerge
<1>8. CASE Accept
  <2> DEFINE c == Head(backlog)
  <2>1. PICK fd \in Fds : /\ httpConns' = [httpConns EXCEPT ![fd] = NewConn(c, IdentOf[c])]
                          /\ Merge(<<listenItem, connItem(fd, NewConn(c, IdentOf[c]))>>)
    BY <1>8 DEF Accept, AcceptItems
  <2> HIDE DEF c
  <2> DEFINE item == connItem(fd, NewConn(c, IdentOf[c]))
  <2>2. item \in PollItem /\ item.fd = fd
    BY DEF connItem, needsWrite, PollItem
  <2>3. listenItem \in PollItem /\ listenItem.fd \notin Fds
    BY ItemTypes, ConstAssumption DEF listenItem
  <2>4. ~needsClose(httpConns'[fd])
    BY <2>1, Table DEF NewConn, needsClose
  <2> HIDE DEF item
  <2>5. /\ <<listenItem, item>> \in Seq(PollItem)
        /\ \A n \in 1 .. Len(<<listenItem, item>>) :
             <<listenItem, item>>[n].fd \in Fds => ~needsClose(httpConns'[<<listenItem, item>>[n].fd])
    BY <2>2, <2>3, <2>4
  <2> QED
    BY <1>2, <1>3, <2>1, <2>5, OpenMerge DEF item
<1> QED
  BY <1>1, <1>4, <1>5, <1>6, <1>7, <1>8 DEF Next, Server, Poll, SkipRead, ReadError, ReadData,
     DispatchSend, WriteError, EndRound, IdleSync, IdleEmpty, IdleShutdown, IdleNull, Client, Connect,
     Send, Fin, Reset, Drain, Handle, SendShutdown, vars, loopVars, stepVars

\* All that are marked are visited before the next response comes.
LEMMA ClosingStep ==
    ASSUME IInv, ClosingInv, [Next]_vars
    PROVE  ClosingInv'
<1>1. pc' = "dispatch" => ~needsClose(httpConns'[Item.fd]) /\ Item' = Item
  <2> SUFFICES ASSUME pc' = "dispatch" PROVE ~needsClose(httpConns'[Item.fd]) /\ Item' = Item
    OBVIOUS
  <2>1. CASE ReadData
    <3>1. Reads(Item.fd, ReadInput.conn)
      BY <2>1, ReadDataReads
    <3> QED
      BY <2>1, <3>1, Table DEF Reads, needsClose, ReadData, Item, roundVars
  <2>2. CASE pc = "dispatch" /\ UNCHANGED <<httpConns, pitem, i>>
    BY <2>2 DEF ClosingInv, Item
  <2> QED
    BY <2>1, <2>2 DEF Next, Server, Poll, ListenError, NoAccept, Accept, AcceptThrows, Merge, CloseConn, OnClose,
       SkipRead, ReadEOF, ReadError, ReadException, DispatchReply, DispatchNull, DispatchHttpException,
       DispatchException, DispatchSend, SkipWrite, Write, WriteError, EndRound, IdleSync, IdleEmpty, Loop,
       IdleShutdown, IdleResponse, IdleNull, Client, Connect, Send, Fin, Reset, Drain, Handle, SendShutdown,
       vars, loopVars, stepVars, roundVars
<1>2. ASSUME Mode = "async", pc' = "write"
      PROVE  ~needsClose(httpConns'[Item.fd]) /\ Item' = Item
  <2>1. CASE ReadData
    <3>1. Reads(Item.fd, ReadInput.conn)
      BY <2>1, ReadDataReads
    <3> QED
      BY <2>1, <3>1, Table DEF Reads, needsClose, ReadData, Item, roundVars
  <2>2. CASE SkipRead
    BY <2>2 DEF SkipRead, Served, CurrConn, Item, roundVars
  <2>3. CASE pc \in {"dispatch", "write"} /\ UNCHANGED <<httpConns, pitem, i>>
    BY <1>2, <2>3 DEF ClosingInv, Item
  <2> QED
    BY <1>2, <2>1, <2>2, <2>3 DEF Next, Server, Poll, ListenError, NoAccept, Accept, AcceptThrows, Merge, CloseConn, OnClose,
       ReadEOF, ReadError, ReadException, DispatchReply, DispatchNull, DispatchHttpException,
       DispatchException, DispatchSend, SkipWrite, Write, WriteError, EndRound, IdleSync, IdleEmpty, Loop,
       IdleShutdown, IdleResponse, IdleNull, Client, Connect, Send, Fin, Reset, Drain, Handle, SendShutdown,
       vars, loopVars, stepVars, roundVars
<1>3. ASSUME Mode = "async", pc' = "idle" \/ (pc' = "poll" /\ ~receivedData'), NEW fd \in Fds
      PROVE  ~needsClose(httpConns'[fd])
  <2>1. CASE EndRound
    <3>1. /\ ptmp \in Seq(PollItem) /\ pitem \in Seq(PollItem) /\ i \in Nat /\ i > Len(pitem)
          /\ Sync(ptmp, pitem, i, Keys(httpConns)) /\ Open(ptmp, httpConns) /\ httpConns' = httpConns
      BY <1>3, <2>1 DEF EndRound, IInv, TypeOK, SyncOK, ClosingInv
    <3>2. fd \in Keys(httpConns) => \E m \in 1 .. Len(ptmp) : ptmp[m].fd = fd
      BY <3>1, LenProperties DEF Sync
    <3> QED
      BY <3>1, <3>2 DEF Open, Keys, needsClose
  <2>2. CASE IdleResponse
    <3>1. httpConns' = httpConns
      <4>1. ~(receivedData' = TRUE)
        BY <1>3, <2>2 DEF IdleResponse, Loop
      <4>2. Targets(httpConns, Head(mailbox)) = {}
        BY <2>2, <4>1 DEF IdleResponse, Found
      <4> QED
        BY <2>2, <4>2 DEF IdleResponse
    <3> QED
      BY <1>3, <2>2, <3>1 DEF IdleResponse, ClosingInv
  <2>3. CASE (pc = "idle" \/ (pc = "poll" /\ ~receivedData)) /\ httpConns' = httpConns
    BY <1>3, <2>3 DEF ClosingInv
  <2> QED
    BY <1>3, <2>1, <2>2, <2>3 DEF Next, Server, Poll, ListenError, NoAccept, Accept, AcceptThrows, Merge, CloseConn, OnClose,
       SkipRead, ReadEOF, ReadError, ReadException, ReadData, DispatchReply, DispatchNull, DispatchHttpException,
       DispatchException, DispatchSend, SkipWrite, Write, WriteError, IdleSync, IdleEmpty, Loop,
       IdleShutdown, IdleNull, Client, Connect, Send, Fin, Reset, Drain, Handle, SendShutdown,
       vars, loopVars, stepVars, roundVars
<1>4. ASSUME Mode = "async", pc' \in {"item", "dispatch", "write"}
      PROVE  Open(ptmp', httpConns')
  <2>1. CASE pc \in {"item", "dispatch", "write"}
    BY <1>4, <2>1, OpenStep
  <2>2. CASE pc \notin {"item", "dispatch", "write"}
    <3>1. Poll
      BY <1>4, <2>2 DEF Next, Server, ListenError, NoAccept, Accept, AcceptThrows, CloseConn, AtConn,
         AtListener, AtAccept, Served, HasInput, Readable,
         SkipRead, ReadEOF, ReadError, ReadException, ReadData, DispatchReply, DispatchNull, DispatchHttpException,
         DispatchException, DispatchSend, SkipWrite, Write, WriteError, EndRound, IdleSync, IdleEmpty, Loop,
         IdleShutdown, IdleResponse, IdleNull, Client, Connect, Send, Fin, Reset, Drain, Handle, SendShutdown,
         vars, loopVars, stepVars
    <3> QED
      BY <3>1 DEF Open, Poll
  <2> QED
    BY <2>1, <2>2
<1> QED
  BY <1>1, <1>2, <1>3, <1>4 DEF ClosingInv

LEMMA ClosingInit == Init => ClosingInv
  BY DEF Init, ClosingInv, AbsentConn, needsClose

-----------------------------------------------------------------------------
(* Whose requests and responses they are *)

\* The parser takes the client and the address from what it is given.
LEMMA ParseOwner ==
    ASSUME NEW buf \in Seq(Token), buf # <<>>, NEW ident \in Idents
    PROVE  LET r == parseHttpHeaders(buf, ident).req IN
           r # Null => r.connection = ident /\ r.head[1].c = buf[1].c
<1> DEFINE e   == EndOfLoop(buf)
           req0 == [connection |-> ident, head |-> SubSeq(buf, 1, e - 1),
                    data |-> IF ReqLen(buf) > DivertLen THEN <<>> ELSE SubSeq(buf, e + 1, Len(buf)),
                    path |-> ReqLen(buf) > DivertLen]
<1>1. /\ FirstLine(buf) \in 1 .. Len(buf) /\ e \in FirstLine(buf) + 1 .. Len(buf) + 1
      /\ Len(buf) \in Nat /\ \A n \in 1 .. Len(buf) : buf[n] \in Token
  BY FirstLineLemma, EndOfLoopLemma, LenProperties, ElementOfSeq
<1>2. SubSeq(buf, 1, e - 1)[1] = buf[1]
  BY <1>1, SubSeqProperties
<1>3. req0.connection = ident /\ req0.head[1].c = buf[1].c
  BY <1>2
<1>4. parseHttpHeaders(buf, ident).req = Null \/ parseHttpHeaders(buf, ident).req = req0
  BY DEF parseHttpHeaders, Parsed, Thrown
<1> QED
  BY <1>3, <1>4

\* The request under way and the one that read() returns are those of its client.
LEMMA ReadOwner ==
    ASSUME NEW conn \in LiveConn, NEW buf \in Seq(Token), buf # <<>>, NEW c,
           conn.ident = IdentOf[c], buf[1].c = c,
           conn.currReq # Null => ReqOf(conn.currReq, c)
    PROVE  LET r == read(conn, buf) IN
           /\ r.conn.currReq # Null => ReqOf(r.conn.currReq, c)
           /\ r.req # Null => ReqOf(r.req, c)
<1> DEFINE Own(r) == r # Null => ReqOf(r, c)
<1>1. conn.currReq \in Request \cup {Null} /\ conn.ident \in Idents
  BY DEF LiveConn, Conn
<1>2. Own(conn.currReq)
  OBVIOUS
<1>3. Own(parseHttpHeaders(buf, conn.ident).req)
  BY <1>1, ParseOwner DEF ReqOf
<1>4. Own(onHttpData(conn.currReq, buf).req)
  BY <1>1 DEF onHttpData, Parsed, Thrown, Request, ReqOf
<1> HIDE DEF Own
<1>5. \A k \in LiveConn : \A p : Own(k.currReq) /\ Own(p.req) =>
         Own(FinishRead(k, p).conn.currReq) /\ Own(FinishRead(k, p).req)
  <2>1. Own(Null)
    BY DEF Own
  <2> QED
    BY <2>1 DEF FinishRead, ReadResult, LiveConn, Conn
<1>6. conn.readBuf \o buf \in Seq(Token)
  BY ConcatProperties DEF LiveConn, Conn
<1>7. \A stored \in Seq(Token) :
         /\ [conn EXCEPT !.readBuf = stored, !.state = "Body"] \in LiveConn
         /\ [conn EXCEPT !.readBuf = stored, !.state = "Body"].currReq = conn.currReq
         /\ [conn EXCEPT !.readBuf = stored] \in LiveConn
         /\ [conn EXCEPT !.readBuf = stored].currReq = conn.currReq
  BY DEF LiveConn, Conn
<1>8. Own(ReadHeaders(conn, buf).conn.currReq) /\ Own(ReadHeaders(conn, buf).req)
  <2> DEFINE all    == conn.readBuf \o buf
             found  == HasEndOfHeaders(all)
             stored == IF conn.readBuf = <<>> /\ found THEN <<>> ELSE all
  <2>1. stored \in Seq(Token)
    BY <1>6, EmptySeq
  <2> HIDE DEF all
  <2>2. LET f == FinishRead([conn EXCEPT !.readBuf = stored, !.state = "Body"], parseHttpHeaders(buf, conn.ident))
        IN  Own(f.conn.currReq) /\ Own(f.req)
    BY <1>2, <1>3, <1>5, <1>7, <2>1
  <2>3. LET f == FinishRead([conn EXCEPT !.readBuf = stored], Parsed(conn.currReq, 0))
        IN  Own(f.conn.currReq) /\ Own(f.req)
    BY <1>2, <1>5, <1>7, <2>1 DEF Parsed
  <2> QED
    BY <2>2, <2>3 DEF ReadHeaders, all
<1>9. LET r == read(conn, buf) IN Own(r.conn.currReq) /\ Own(r.req)
  <2>1. Own(Null)
    BY DEF Own
  <2> QED
    BY <1>2, <1>4, <1>5, <1>8, <2>1 DEF read, ReadResult
<1> QED
  BY <1>9 DEF Own

\* Nothing reaches the receive buffer of a client but what it sent.
LEMMA InqOwned ==
    ASSUME IInv, AddressInv, [Next]_vars
    PROVE  \A c \in Clients : \A n \in DOMAIN inq'[c] : inq'[c][n].c = c
<1>1. inq \in [Clients -> Seq(Token)] /\ \A c \in Clients : DOMAIN <<>> = {}
  BY DEF IInv, TypeOK
<1>2. CASE \A c \in Clients : inq'[c] = inq[c] \/ inq'[c] = <<>>
  BY <1>2 DEF AddressInv
<1>3. ASSUME NEW d, inq' = [inq EXCEPT ![d] = <<>>]
      PROVE  \A c \in Clients : inq'[c] = inq[c] \/ inq'[c] = <<>>
  BY <1>1, <1>3
<1>4. ASSUME NEW d \in Clients, Send(d), d \notin closed
      PROVE  \A c \in Clients : \A n \in DOMAIN inq'[c] : inq'[c][n].c = c
  <2>1. PICK m \in SegmentEnds(d) : inq' = [inq EXCEPT ![d] = inq[d] \o SubSeq(Stream[d], sent[d] + 1, m)]
    BY <1>4 DEF Send
  <2> DEFINE add0 == SubSeq(Stream[d], sent[d] + 1, m)
  <2>2. m \in Nat /\ m <= Len(Stream[d]) /\ sent[d] \in Nat /\ Stream[d] \in Seq(Token)
    BY <1>4, SegmentInStream, StreamAssumption DEF Send, IInv, TypeOK
  <2>3. /\ add0 \in Seq(Token)
        /\ \A n \in DOMAIN add0 : sent[d] + n \in DOMAIN Stream[d] /\ add0[n] = Stream[d][sent[d] + n]
    <3>1. \A n \in sent[d] + 1 .. m : Stream[d][n] \in Token
      BY <2>2, ElementOfSeq
    <3>2. /\ add0 \in Seq(Token) /\ DOMAIN add0 = 1 .. m - sent[d]
          /\ \A n \in 1 .. m - sent[d] : add0[n] = Stream[d][sent[d] + n]
      BY <2>2, <3>1, SubSeqProperties, SMTT(30)
    <3>3. \A n \in 1 .. m - sent[d] : sent[d] + n \in 1 .. Len(Stream[d])
      BY <2>2, LenProperties
    <3> HIDE DEF add0
    <3> QED
      BY <2>2, <3>2, <3>3
  <2>4. \A n \in DOMAIN add0 : add0[n].c = d
    BY <2>3, StreamAssumption
  <2> HIDE DEF add0
  <2>5. \A n \in DOMAIN (inq[d] \o add0) : (inq[d] \o add0)[n].c = d
    BY <1>1, <2>3, <2>4 DEF AddressInv
  <2>6. inq' = [inq EXCEPT ![d] = inq[d] \o add0]
    BY <2>1 DEF add0
  <2> QED
    BY <1>1, <2>5, <2>6 DEF AddressInv
<1>5. CASE inq' = inq
  BY <1>2, <1>5
<1> QED
  BY <1>2, <1>3, <1>4, <1>5 DEF Next, Server, Poll, ListenError, NoAccept, Accept, AcceptThrows, CloseConn, OnClose,
       SkipRead, ReadEOF, ReadError, ReadException, ReadData, Consume, DispatchReply, DispatchNull, DispatchHttpException,
       DispatchException, DispatchSend, SkipWrite, Write, WriteError, EndRound, IdleSync, IdleEmpty, CloseSocket,
       IdleShutdown, IdleResponse, IdleNull, Client, Connect, Send, Fin, Reset, Drain, Handle, SendShutdown,
       vars, netVars

\* A request that read() leaves with the connection, or returns, is of its client.
LEMMA ReadDataOwner ==
    ASSUME IInv, NetInv, AddressInv, ReadData
    PROVE  /\ CurrClient \in Clients
           /\ ReadInput.conn.currReq # Null => ReqOf(ReadInput.conn.currReq, CurrClient)
           /\ ReadInput.req # Null => ReqOf(ReadInput.req, CurrClient)
<1>1. /\ Item.fd \in Keys(httpConns) /\ CurrConn \in LiveConn /\ CurrClient \in Clients
      /\ CurrConn = httpConns[Item.fd] /\ CurrConn.sock = CurrClient
  BY AtHand DEF ReadData, HasInput, Readable, Served, CurrClient
<1>2. inq[CurrClient] \in Seq(Token) /\ inq[CurrClient] # <<>>
  BY <1>1 DEF ReadData, HasInput, IInv, TypeOK
<1>3. inq[CurrClient][1].c = CurrClient
  <2>1. 1 \in DOMAIN inq[CurrClient]
    BY <1>2, EmptySeq, LenProperties
  <2> QED
    BY <1>1, <2>1 DEF AddressInv
<1>4. /\ CurrConn.ident = IdentOf[CurrClient]
      /\ CurrConn.currReq # Null => ReqOf(CurrConn.currReq, CurrClient)
  BY <1>1 DEF NetInv, AddressInv
<1> QED
  BY <1>1, <1>2, <1>3, <1>4, ReadOwner DEF ReadInput

\* Where the loop dispatches, it has just read, or nothing of it has changed.
LEMMA ToDispatch ==
    ASSUME [Next]_vars, pc' = "dispatch"
    PROVE  ReadData \/ (pc = "dispatch" /\ UNCHANGED <<req, httpConns, pitem, i>>)
  BY DEF Next, Server, Poll, ListenError, NoAccept, Accept, AcceptThrows, Merge, CloseConn, OnClose,
       SkipRead, ReadEOF, ReadError, ReadException, DispatchReply, DispatchNull, DispatchHttpException,
       DispatchException, DispatchSend, SkipWrite, Write, WriteError, EndRound, IdleSync, IdleEmpty, Loop,
       IdleShutdown, IdleResponse, IdleNull, Client, Connect, Send, Fin, Reset, Drain, Handle, SendShutdown,
       vars, loopVars, stepVars, roundVars

\* Every connection's request is its client's.
LEMMA ConnOwned ==
    ASSUME IInv, NetInv, AddressInv, [Next]_vars
    PROVE  \A fd \in Keys(httpConns') :
             httpConns'[fd].currReq # Null => ReqOf(httpConns'[fd].currReq, httpConns'[fd].sock)
<1> DEFINE Own(conn) == conn.currReq # Null => ReqOf(conn.currReq, conn.sock)
<1> SUFFICES \A gd \in Keys(httpConns') : Own(httpConns'[gd])
  OBVIOUS
<1>1. \A fd \in Keys(httpConns) : Own(httpConns[fd])
  BY DEF AddressInv
<1> HIDE DEF Own
<1>2. ASSUME NEW fd \in Fds, NEW conn \in LiveConn, httpConns' = [httpConns EXCEPT ![fd] = conn], Own(conn)
      PROVE  \A gd \in Keys(httpConns') : Own(httpConns'[gd])
  <2>1. httpConns'[fd] = conn /\ \A gd \in Fds : gd # fd => httpConns'[gd] = httpConns[gd]
    BY <1>2, Table
  <2> QED
    BY <1>1, <1>2, <2>1 DEF Keys
<1>3. CASE httpConns' = httpConns
  BY <1>1, <1>3
<1>4. ASSUME NEW fd \in Fds, NEW conn \in LiveConn, Reads(fd, conn)
      PROVE  \A gd \in Keys(httpConns') : Own(httpConns'[gd])
  <2>1. Own(conn)
    BY <1>4, ReadDataOwner DEF Reads, Own, CurrClient, CurrConn
  <2> QED
    BY <1>2, <1>4, <2>1 DEF Reads
<1>5. ASSUME NEW fd \in Fds, NEW resp \in Response, Adds(fd, resp)
      PROVE  \A gd \in Keys(httpConns') : Own(httpConns'[gd])
  <2>1. httpConns[fd] \in LiveConn /\ Own(httpConns[fd])
    BY <1>1, <1>5, Table DEF Adds
  <2>2. add(httpConns[fd], resp) \in LiveConn /\ Own(add(httpConns[fd], resp))
    BY <2>1, AddType DEF add, Own, LiveConn, Conn
  <2> HIDE DEF add
  <2> QED
    BY <1>2, <1>5, <2>2 DEF Adds
<1>6. ASSUME NEW fd \in Fds, NEW num \in Nat, Writes(fd, num)
      PROVE  \A gd \in Keys(httpConns') : Own(httpConns'[gd])
  <2>1. httpConns[fd] \in LiveConn /\ Own(httpConns[fd]) /\ num \in 0 .. Len(httpConns[fd].writeBuf)
    BY <1>1, <1>6, Table DEF Writes
  <2>2. write(httpConns[fd], num) \in LiveConn /\ Own(write(httpConns[fd], num))
    BY <2>1, WriteType DEF write, Own, LiveConn, Conn
  <2>3. httpConns' = [httpConns EXCEPT ![fd] = write(httpConns[fd], num)]
    BY <1>6 DEF Writes
  <2> HIDE DEF write
  <2> QED
    BY <1>2, <2>2, <2>3
<1>7. ASSUME NEW fd \in Fds, NEW unread, Closes(fd, unread)
      PROVE  \A gd \in Keys(httpConns') : Own(httpConns'[gd])
  <2>1. /\ Keys(httpConns') = Keys(httpConns) \ {fd}
        /\ \A gd \in Fds : gd # fd => httpConns'[gd] = httpConns[gd]
    BY <1>7, Table DEF Closes
  <2> QED
    BY <1>1, <2>1 DEF Keys
<1>8. CASE Accept
  <2> DEFINE c == Head(backlog)
  <2>1. PICK fd \in Fds : httpConns' = [httpConns EXCEPT ![fd] = NewConn(c, IdentOf[c])]
    BY <1>8 DEF Accept
  <2>2. httpConns'[fd] = NewConn(c, IdentOf[c]) /\ \A gd \in Fds : gd # fd => httpConns'[gd] = httpConns[gd]
    BY <2>1, Table
  <2>3. Own(NewConn(c, IdentOf[c]))
    BY DEF Own, NewConn
  <2> QED
    BY <1>1, <2>2, <2>3 DEF Keys
<1>9. CASE AcceptThrows \/ Client
  BY <1>1, <1>9 DEF AcceptThrows, Client, Connect, Send, Fin, Reset, Drain, loopVars
<1> QED
  BY <1>3, <1>4, <1>5, <1>6, <1>7, <1>8, <1>9, Effects

\* What is left of a sequence when one element is removed was there before.
LEMMA Removed ==
    ASSUME NEW T, NEW s \in Seq(T), NEW n \in DOMAIN s
    PROVE  \A m \in DOMAIN RemoveAt(s, n) : \E k \in DOMAIN s : RemoveAt(s, n)[m] = s[k]
<1> DEFINE p == SubSeq(s, 1, n - 1)
           q == SubSeq(s, n + 1, Len(s))
<1>1. Len(s) \in Nat /\ n \in 1 .. Len(s) /\ \A m \in 1 .. Len(s) : s[m] \in T
  BY ElementOfSeq, LenProperties
<1>2. p \in Seq(T) /\ Len(p) = n - 1 /\ \A m \in 1 .. n - 1 : p[m] = s[m]
  BY <1>1, SubSeqProperties
<1>3. q \in Seq(T) /\ Len(q) = Len(s) - n /\ \A m \in 1 .. Len(s) - n : q[m] = s[n + m]
  BY <1>1, SubSeqProperties
<1>4. RemoveAt(s, n) = p \o q
  BY DEF RemoveAt
<1> HIDE DEF p, q
<1>5. ASSUME NEW m \in DOMAIN (p \o q) PROVE \E k \in DOMAIN s : (p \o q)[m] = s[k]
  <2>1. m \in 1 .. Len(s) - 1 /\ (p \o q)[m] = IF m <= n - 1 THEN p[m] ELSE q[m - (n - 1)]
    BY <1>1, <1>2, <1>3, <1>5, ConcatProperties
  <2>2. CASE m <= n - 1
    BY <1>1, <1>2, <2>1, <2>2
  <2>3. CASE m > n - 1
    <3>1. m - (n - 1) \in 1 .. Len(s) - n /\ n + (m - (n - 1)) = m + 1 /\ m + 1 \in 1 .. Len(s)
      BY <1>1, <2>1, <2>3, SMTT(30)
    <3>2. (p \o q)[m] = q[m - (n - 1)]
      <4>1. ~(m <= n - 1)
        BY <1>1, <2>1, <2>3
      <4> QED
        BY <2>1, <4>1
    <3>3. q[m - (n - 1)] = s[n + (m - (n - 1))]
      BY <1>3, <3>1
    <3> QED
      BY <3>1, <3>2, <3>3
  <2> QED
    BY <1>1, <2>1, <2>2, <2>3
<1> QED
  BY <1>4, <1>5

\* What the application holds, and what it sends, is for the client it is from.
LEMMA MessagesOwned ==
    ASSUME IInv, AddressInv, [Next]_vars
    PROVE  /\ \A n \in DOMAIN appq' : ReqOf(appq'[n], appq'[n].head[1].c)
           /\ \A n \in DOMAIN mailbox' :
                mailbox'[n] \notin {Null, Shutdown} => mailbox'[n].connection = IdentOf[mailbox'[n].c]
<1> DEFINE Own(r)  == ReqOf(r, r.head[1].c)
           Mine(m) == m \notin {Null, Shutdown} => m.connection = IdentOf[m.c]
<1> SUFFICES (\A n \in DOMAIN appq' : Own(appq'[n])) /\ (\A n \in DOMAIN mailbox' : Mine(mailbox'[n]))
  OBVIOUS
<1>1. /\ appq \in Seq(Request) /\ \A n \in DOMAIN appq : Own(appq[n])
      /\ mailbox \in Seq(Message) /\ \A n \in DOMAIN mailbox : Mine(mailbox[n])
  BY DEF IInv, TypeOK, AddressInv
<1> HIDE DEF Own, Mine
<1>2. ASSUME NEW m, mailbox' = Append(mailbox, m), Mine(m)
      PROVE  \A n \in DOMAIN mailbox' : Mine(mailbox'[n])
  BY <1>1, <1>2
<1>3. ASSUME NEW r, appq' = Append(appq, r), Own(r)
      PROVE  \A n \in DOMAIN appq' : Own(appq'[n])
  BY <1>1, <1>3
<1>4. CASE mailbox # <<>> /\ mailbox' = Tail(mailbox) /\ appq' = appq
  BY <1>1, <1>4
<1>5. CASE DispatchSend
  <2>1. Own(req) /\ appq' = Append(appq, req) /\ mailbox' = mailbox
    BY <1>5 DEF DispatchSend, AddressInv, ReqOf, Own
  <2> QED
    BY <1>1, <1>3, <2>1
<1>6. CASE Handle
  <2>1. PICK n \in DOMAIN appq : \E outcome \in Outcomes :
           /\ appq' = RemoveAt(appq, n)
           /\ \/ mailbox' = Append(mailbox, Reply(appq[n], outcome))
              \/ mailbox' = Append(mailbox, Null)
              \/ mailbox' = mailbox
    BY <1>6 DEF Handle
  <2>2. PICK outcome : \/ mailbox' = Append(mailbox, Reply(appq[n], outcome))
                       \/ mailbox' = Append(mailbox, Null)
                       \/ mailbox' = mailbox
    BY <2>1
  <2>3. Mine(Reply(appq[n], outcome)) /\ Mine(Null)
    BY <1>1 DEF Mine, Own, ReqOf, Reply, getResponse
  <2>4. \A m \in DOMAIN mailbox' : Mine(mailbox'[m])
    BY <1>1, <1>2, <2>2, <2>3
  <2>5. \A m \in DOMAIN appq' : \E k \in DOMAIN appq : appq'[m] = appq[k]
    BY <1>1, <2>1, Removed
  <2> QED
    BY <1>1, <2>4, <2>5
<1>7. CASE SendShutdown
  <2>1. mailbox' = Append(mailbox, Shutdown) /\ appq' = appq /\ Mine(Shutdown)
    BY <1>7 DEF SendShutdown, Mine
  <2> QED
    BY <1>1, <1>2, <2>1
<1>8. CASE mailbox' = mailbox /\ appq' = appq
  BY <1>1, <1>8
<1> QED
  BY <1>4, <1>5, <1>6, <1>7, <1>8 DEF Next, Server, Poll, ListenError, NoAccept, Accept, AcceptThrows, CloseConn, OnClose,
       SkipRead, ReadEOF, ReadError, ReadException, ReadData, DispatchReply, DispatchNull, DispatchHttpException,
       DispatchException, SkipWrite, Write, WriteError, EndRound, IdleSync, IdleEmpty,
       IdleShutdown, IdleResponse, IdleNull, Client, Connect, Send, Fin, Reset, Drain,
       vars, appVars

\* Every step keeps requests and responses with their clients.
LEMMA AddressStep ==
    ASSUME IInv, NetInv, AddressInv, [Next]_vars
    PROVE  AddressInv'
<1>1. pc' = "dispatch" => ReqOf(req', CurrClient')
  <2> SUFFICES ASSUME pc' = "dispatch" PROVE ReqOf(req', CurrClient')
    OBVIOUS
  <2>1. CASE ReadData
    <3>1. req' = ReadInput.req /\ req' # Null /\ Item' = Item
      BY <2>1 DEF ReadData, Item, roundVars
    <3>2. httpConns'[Item.fd].sock = CurrClient
      BY <2>1, ReadDataReads, Table DEF Reads, CurrClient, CurrConn
    <3>3. CurrClient' = CurrClient
      BY <3>1, <3>2 DEF CurrClient, CurrConn
    <3> QED
      BY <2>1, <3>1, <3>3, ReadDataOwner
  <2>2. CASE pc = "dispatch" /\ UNCHANGED <<req, httpConns, pitem, i>>
    BY <2>2 DEF AddressInv, CurrClient, CurrConn, Item
  <2> QED
    BY <2>1, <2>2, ToDispatch
<1> QED
  BY <1>1, InqOwned, ConnOwned, MessagesOwned DEF AddressInv

LEMMA AddressInit == Init => AddressInv
<1> SUFFICES ASSUME Init PROVE AddressInv
  OBVIOUS
<1>1. Keys(httpConns) = {} /\ \A c \in Clients : DOMAIN inq[c] = {}
  BY DEF Init, Keys, AbsentConn
<1> QED
  BY <1>1 DEF Init, AddressInv

-----------------------------------------------------------------------------
(* A mark is final *)

\* The inductive invariant of this module.
SInv == IInv /\ NetInv /\ ClosingInv /\ AddressInv

LEMMA SInvariance == Spec => []SInv
<1>1. Init => SInv
  BY InitStep, NetInit, ClosingInit, AddressInit DEF SInv
<1>2. SInv /\ [Next]_vars => SInv'
  BY NextStep, NetStep, ClosingStep, AddressStep DEF SInv
<1> QED
  BY <1>1, <1>2, PTL DEF Spec

\* A response goes to the connection of the client it is for.
LEMMA GivenToOwner ==
    ASSUME SInv, OwnAddress, NEW fd, NEW resp \in Response, Adds(fd, resp)
    PROVE  /\ fd \in Keys(httpConns) /\ resp.c = httpConns[fd].sock
           /\ DispatchReply \/ DispatchHttpException => fd = Item.fd
<1>1. fd \in Keys(httpConns) /\ httpConns[fd].sock \in Clients /\ httpConns[fd].ident = IdentOf[httpConns[fd].sock]
  BY Table DEF Adds, SInv, NetInv
<1>2. resp.c \in Clients
  BY DEF Response
<1>3. CASE DispatchReply /\ fd \in Targets(httpConns, resp) /\ \E outcome : resp = Reply(req, outcome)
  <2>1. /\ CurrClient \in Clients /\ Item.fd \in Keys(httpConns) /\ CurrClient = httpConns[Item.fd].sock
        /\ ReqOf(req, CurrClient)
    BY <1>3, AtHand DEF DispatchReply, SInv, AddressInv, CurrClient
  <2>2. resp.connection = IdentOf[CurrClient] /\ resp.c = CurrClient
    BY <1>3, <2>1 DEF Reply, getResponse, ReqOf
  <2>3. httpConns[fd].sock = CurrClient
    BY <1>1, <1>3, <2>1, <2>2 DEF Targets, OwnAddress
  <2>4. fd = Item.fd
    BY <1>1, <2>1, <2>3 DEF SInv, NetInv
  <2> QED
    BY <1>1, <2>2, <2>3, <2>4
<1>4. CASE DispatchHttpException /\ fd = Item.fd /\ resp = ErrorReply(req)
  <2>1. ReqOf(req, CurrClient) /\ CurrClient = httpConns[Item.fd].sock
    BY <1>4 DEF DispatchHttpException, SInv, AddressInv, CurrClient, CurrConn
  <2> QED
    BY <1>1, <1>4, <2>1 DEF ErrorReply, ReqOf
<1>5. CASE IdleResponse /\ fd \in Targets(httpConns, resp) /\ resp = Head(mailbox)
  <2>1. /\ mailbox \in Seq(Message) /\ mailbox # <<>> /\ Head(mailbox) \notin {Shutdown, Null}
    BY <1>5 DEF IdleResponse, SInv, IInv, TypeOK
  <2>2. resp.connection = IdentOf[resp.c]
    <3>1. 1 \in DOMAIN mailbox /\ mailbox[1] = Head(mailbox)
      BY <2>1
    <3> QED
      BY <1>5, <2>1, <3>1 DEF SInv, AddressInv
  <2>3. httpConns[fd].sock = resp.c
    BY <1>1, <1>2, <1>5, <2>2 DEF Targets, OwnAddress
  <2>4. ~DispatchReply /\ ~DispatchHttpException
    BY <1>5 DEF IdleResponse, DispatchReply, DispatchHttpException
  <2> QED
    BY <1>1, <2>3, <2>4
<1> QED
  BY <1>3, <1>4, <1>5 DEF Adds, Gives

\* No step takes a connection that is marked for closing back into use.
LEMMA FinalStep ==
    ASSUME Mode = "async" \/ OwnAddress, SInv, [Next]_vars, NEW fd \in Fds, httpConns[fd].state = "Closing"
    PROVE  httpConns'[fd].state \in {"Closing", "Absent"}
<1>1. IInv /\ fd \in Keys(httpConns)
  BY DEF SInv, Keys
<1>2. ASSUME NEW gd \in Fds, NEW conn, httpConns' = [httpConns EXCEPT ![gd] = conn],
             gd # fd \/ conn.state \in {"Closing", "Absent"}
      PROVE  httpConns'[fd].state \in {"Closing", "Absent"}
  BY <1>1, <1>2, Table
<1>3. ASSUME NEW gd \in Fds, NEW conn \in LiveConn, Reads(gd, conn)
      PROVE  httpConns'[fd].state \in {"Closing", "Absent"}
  BY <1>2, <1>3 DEF Reads, needsClose
<1>4. ASSUME NEW gd \in Fds, NEW resp \in Response, Adds(gd, resp)
      PROVE  httpConns'[fd].state \in {"Closing", "Absent"}
  <2>1. gd # fd
    <3>1. CASE IdleResponse
      BY <3>1 DEF IdleResponse, SInv, ClosingInv, needsClose
    <3>2. CASE DispatchReply \/ DispatchHttpException
      <4>1. ~needsClose(httpConns[Item.fd]) /\ (gd = Item.fd \/ Mode = "async")
        BY <1>4, <3>2, GivenToOwner DEF DispatchReply, DispatchHttpException, SInv, ClosingInv
      <4>2. Mode # "async"
        BY <3>2 DEF DispatchReply, DispatchHttpException
      <4> QED
        BY <4>1, <4>2 DEF needsClose
    <3> QED
      BY <1>4, <3>1, <3>2 DEF Adds, Gives
  <2> QED
    BY <1>2, <1>4, <2>1 DEF Adds
<1>5. ASSUME NEW gd \in Fds, NEW num \in Nat, Writes(gd, num)
      PROVE  httpConns'[fd].state \in {"Closing", "Absent"}
  <2>1. httpConns[gd] \in LiveConn
    BY <1>1, <1>5, Table DEF Writes
  <2>2. write(httpConns[gd], num).state = httpConns[gd].state
    BY <2>1 DEF write, LiveConn, Conn
  <2>3. httpConns' = [httpConns EXCEPT ![gd] = write(httpConns[gd], num)]
    BY <1>5 DEF Writes
  <2> HIDE DEF write
  <2> QED
    BY <1>2, <2>2, <2>3
<1>6. ASSUME NEW gd \in Fds, NEW unread, Closes(gd, unread)
      PROVE  httpConns'[fd].state \in {"Closing", "Absent"}
  BY <1>2, <1>6 DEF Closes, AbsentConn
<1>7. CASE Accept
  <2>1. PICK gd \in Fds \ Keys(httpConns) : \E conn : httpConns' = [httpConns EXCEPT ![gd] = conn]
    BY <1>7 DEF Accept
  <2> QED
    BY <1>1, <1>2, <2>1
<1>8. CASE httpConns' = httpConns
  BY <1>8
<1> QED
  BY <1>1, <1>3, <1>4, <1>5, <1>6, <1>7, <1>8, Effects DEF AcceptThrows, Client, Connect, Send, Fin, Reset, Drain, loopVars

\* A connection that add() has marked for closing stays marked until it is
\* closed, although another add() would take the mark away: in asynchronous
\* mode whatever the addresses are, because receivedData makes the loop visit
\* every item before it takes the next message; in synchronous mode if no two
\* clients have the same address, because httpConns is searched by address.
THEOREM ClosingCorrect ==
    ASSUME Mode = "async" \/ OwnAddress
    PROVE  Spec => ClosingIsFinal
<1>1. SInv /\ [Next]_vars => [\A fd \in Fds : httpConns[fd].state = "Closing"
                                => httpConns'[fd].state \in {"Closing", "Absent"}]_vars
  BY FinalStep
<1> QED
  BY <1>1, SInvariance, PTL DEF Spec, ClosingIsFinal

-----------------------------------------------------------------------------
(* Whole responses *)

\* The two halves of a response follow one another.
LEMMA BytesOf ==
    ASSUME NEW resp \in Response
    PROVE  /\ Bytes(resp) \in Seq(Unit) /\ Len(Bytes(resp)) = 2 /\ OwnedBy(Bytes(resp), resp.c)
           /\ Bytes(resp)[1].part = 1 /\ Bytes(resp)[2].part = 2 /\ Bytes(resp)[2].q = Bytes(resp)[1].q
  BY DEF Bytes, Response, Unit, OwnedBy

\* Whole responses stay whole when another one is added.
LEMMA FramedAdd ==
    ASSUME NEW s \in Seq(Unit), Framed(s), Len(s) % 2 = 0, NEW t \in Seq(Unit), Len(t) = 2,
           t[1].part = 1, t[2].part = 2, t[2].q = t[1].q
    PROVE  Framed(s \o t) /\ Len(s \o t) % 2 = 0
<1>1. /\ Len(s) \in Nat /\ Len(s \o t) = Len(s) + 2 /\ DOMAIN (s \o t) = 1 .. Len(s) + 2 /\ DOMAIN s = 1 .. Len(s)
      /\ \A n \in 1 .. Len(s) + 2 : (s \o t)[n] = IF n <= Len(s) THEN s[n] ELSE t[n - Len(s)]
  <2>1. /\ s \o t \in Seq(Unit) /\ Len(s \o t) = Len(s) + Len(t)
        /\ \A n \in 1 .. Len(s) + Len(t) : (s \o t)[n] = IF n <= Len(s) THEN s[n] ELSE t[n - Len(s)]
    BY ConcatProperties
  <2>2. Len(s) \in Nat /\ DOMAIN s = 1 .. Len(s) /\ DOMAIN (s \o t) = 1 .. Len(s \o t)
    BY <2>1, LenProperties
  <2> QED
    BY <2>1, <2>2
<1>2. (Len(s) + 1) % 2 = 1 /\ (Len(s) + 2) % 2 = 0
  <2>1. \A n \in Nat : n % 2 = 0 => (n + 1) % 2 = 1 /\ (n + 2) % 2 = 0
    OBVIOUS
  <2> QED
    BY <2>1, <1>1
<1>3. \A n \in 1 .. Len(s) : (s \o t)[n] = s[n]
  BY <1>1
<1>4. (s \o t)[Len(s) + 1] = t[1] /\ (s \o t)[Len(s) + 2] = t[2]
  <2>1. ~(Len(s) + 1 <= Len(s)) /\ ~(Len(s) + 2 <= Len(s)) /\ (Len(s) + 1) - Len(s) = 1 /\ (Len(s) + 2) - Len(s) = 2
    BY <1>1
  <2> QED
    BY <1>1, <2>1
<1>5. ASSUME NEW n \in DOMAIN (s \o t)
      PROVE  /\ (s \o t)[n].part = IF n % 2 = 1 THEN 1 ELSE 2
             /\ n % 2 = 0 => (s \o t)[n].q = (s \o t)[n - 1].q
  <2>1. CASE n <= Len(s)
    <3>1. n \in DOMAIN s /\ (s \o t)[n] = s[n] /\ (n % 2 = 0 => n - 1 \in 1 .. Len(s))
      BY <1>1, <1>3, <2>1
    <3>2. n % 2 = 0 => (s \o t)[n - 1] = s[n - 1]
      BY <1>3, <3>1
    <3> QED
      BY <3>1, <3>2 DEF Framed
  <2>2. CASE n = Len(s) + 1
    <3>1. n % 2 = 1 /\ (s \o t)[n] = t[1]
      BY <1>2, <1>4, <2>2
    <3> QED
      BY <3>1
  <2>3. CASE n = Len(s) + 2
    <3>1. n % 2 = 0 /\ (s \o t)[n] = t[2] /\ (s \o t)[n - 1] = t[1]
      <4>1. n - 1 = Len(s) + 1
        BY <1>1, <2>3
      <4> QED
        BY <1>2, <1>4, <2>3, <4>1
    <3> QED
      BY <3>1
  <2> QED
    BY <1>1, <2>1, <2>2, <2>3
<1> QED
  BY <1>1, <1>2, <1>5 DEF Framed

\* The first part of whole responses is one.
LEMMA FramedPrefix ==
    ASSUME NEW s \in Seq(Unit), NEW t \in Seq(Unit), Framed(s \o t)
    PROVE  Framed(s)
<1>1. /\ Len(s) \in Nat /\ Len(t) \in Nat /\ DOMAIN (s \o t) = 1 .. Len(s) + Len(t) /\ DOMAIN s = 1 .. Len(s)
      /\ \A n \in 1 .. Len(s) : (s \o t)[n] = s[n]
  BY ConcatProperties, LenProperties
<1> SUFFICES ASSUME NEW n \in DOMAIN s
             PROVE  s[n].part = (IF n % 2 = 1 THEN 1 ELSE 2) /\ (n % 2 = 0 => s[n].q = s[n - 1].q)
  BY DEF Framed
<1>2. n \in DOMAIN (s \o t) /\ (s \o t)[n] = s[n] /\ (n % 2 = 0 => n - 1 \in 1 .. Len(s))
  BY <1>1
<1>3. n % 2 = 0 => (s \o t)[n - 1] = s[n - 1]
  BY <1>1, <1>2
<1> QED
  BY <1>2, <1>3 DEF Framed

\* Ownership of parts and of the whole.
LEMMA OwnedParts ==
    ASSUME NEW s \in Seq(Unit), NEW t \in Seq(Unit), NEW c
    PROVE  OwnedBy(s \o t, c) <=> OwnedBy(s, c) /\ OwnedBy(t, c)
<1>1. /\ Len(s) \in Nat /\ Len(t) \in Nat /\ DOMAIN (s \o t) = 1 .. Len(s) + Len(t)
      /\ DOMAIN s = 1 .. Len(s) /\ DOMAIN t = 1 .. Len(t)
      /\ \A n \in 1 .. Len(s) + Len(t) : (s \o t)[n] = IF n <= Len(s) THEN s[n] ELSE t[n - Len(s)]
  BY ConcatProperties, LenProperties
<1>2. \A n \in 1 .. Len(s) : n \in DOMAIN (s \o t) /\ (s \o t)[n] = s[n]
  BY <1>1
<1>3. ASSUME NEW n \in 1 .. Len(t) PROVE Len(s) + n \in DOMAIN (s \o t) /\ (s \o t)[Len(s) + n] = t[n]
  <2>1. Len(s) + n \in 1 .. Len(s) + Len(t) /\ ~(Len(s) + n <= Len(s)) /\ (Len(s) + n) - Len(s) = n
    BY <1>1
  <2> QED
    BY <1>1, <2>1
<1>4. ASSUME NEW n \in DOMAIN (s \o t)
      PROVE  \/ n \in 1 .. Len(s) /\ (s \o t)[n] = s[n]
             \/ \E m \in 1 .. Len(t) : (s \o t)[n] = t[m]
  <2>1. CASE n <= Len(s)
    BY <1>1, <2>1
  <2>2. CASE n > Len(s)
    <3>1. n - Len(s) \in 1 .. Len(t) /\ ~(n <= Len(s))
      BY <1>1, <2>2
    <3>2. (s \o t)[n] = t[n - Len(s)]
      BY <1>1, <3>1
    <3> QED
      BY <3>1, <3>2
  <2> QED
    BY <1>1, <2>1, <2>2
<1>5. ASSUME OwnedBy(s \o t, c) PROVE OwnedBy(s, c) /\ OwnedBy(t, c)
  <2>1. \A n \in DOMAIN s : s[n].c = c
    BY <1>1, <1>2, <1>5 DEF OwnedBy
  <2>2. \A n \in DOMAIN t : t[n].c = c
    BY <1>1, <1>3, <1>5 DEF OwnedBy
  <2> QED
    BY <2>1, <2>2 DEF OwnedBy
<1>6. ASSUME OwnedBy(s, c), OwnedBy(t, c) PROVE OwnedBy(s \o t, c)
  <2>1. \A n \in DOMAIN (s \o t) : (s \o t)[n].c = c
    BY <1>1, <1>4, <1>6 DEF OwnedBy
  <2> QED
    BY <2>1 DEF OwnedBy
<1> QED
  BY <1>5, <1>6

\* Concatenation is associative.
LEMMA Assoc == \A p, s, t \in Seq(Unit) : p \o (s \o t) = (p \o s) \o t
<1> TAKE p, s, t \in Seq(Unit)
<1>1. (p \o s) \o t = p \o (s \o t)
  BY ConcatAssociative
<1> QED
  BY <1>1, Zenon

\* A response that is added to the output is whole.
LEMMA EntireAdd ==
    ASSUME NEW r \in Seq(Unit), NEW f \in Seq(Unit), NEW w \in Seq(Unit), NEW resp \in Response
    PROVE  /\ Entire(r, f, w) => Entire(r, f, w \o Bytes(resp))
           /\ OwnedBy(w, resp.c) => OwnedBy(w \o Bytes(resp), resp.c)
<1> DEFINE b == Bytes(resp)
           s == (r \o f) \o w
<1>1. /\ b \in Seq(Unit) /\ Len(b) = 2 /\ OwnedBy(b, resp.c)
      /\ b[1].part = 1 /\ b[2].part = 2 /\ b[2].q = b[1].q
  BY BytesOf
<1>2. r \o f \in Seq(Unit)
  BY ConcatProperties
<1>3. s \in Seq(Unit)
  BY <1>2, ConcatProperties
<1> HIDE DEF b
<1>4. (r \o f) \o (w \o b) = s \o b
  <2> DEFINE p == r \o f
  <2>1. p \in Seq(Unit)
    BY <1>2
  <2> HIDE DEF p
  <2>2. p \o (w \o b) = (p \o w) \o b
    BY <1>1, <2>1, Assoc, Zenon
  <2> QED
    BY <2>2, Zenon DEF p
<1>5. OwnedBy(w, resp.c) => OwnedBy(w \o b, resp.c)
  BY <1>1, OwnedParts
<1> HIDE DEF s
<1>6. Framed(s) /\ Len(s) % 2 = 0 => Framed(s \o b) /\ Len(s \o b) % 2 = 0
  BY <1>1, <1>3, FramedAdd
<1> QED
  BY <1>4, <1>5, <1>6, Zenon DEF Entire, b, s

\* What the kernel takes of the output leaves what there is in all as it was.
LEMMA EntireWrite ==
    ASSUME NEW r \in Seq(Unit), NEW f \in Seq(Unit), NEW w \in Seq(Unit), NEW num \in 0 .. Len(w), NEW c
    PROVE  LET s == SubSeq(w, 1, num)
               t == SubSeq(w, num + 1, Len(w))
           IN  /\ Entire(r, f, w) => Entire(r, f \o s, t) /\ Begun(r, f \o s)
               /\ OwnedBy(f, c) /\ OwnedBy(w, c) => OwnedBy(f \o s, c) /\ OwnedBy(t, c)
               /\ s \in Seq(Unit) /\ t \in Seq(Unit) /\ f \o s \in Seq(Unit)
<1> DEFINE s == SubSeq(w, 1, num)
           t == SubSeq(w, num + 1, Len(w))
<1>1. Len(w) \in Nat /\ num \in Nat /\ num <= Len(w) /\ \A n \in 1 .. Len(w) : w[n] \in Unit
  BY LenProperties, ElementOfSeq
<1>2. s \in Seq(Unit) /\ t \in Seq(Unit)
  BY <1>1, SubSeqProperties
<1>3. s \o t = w
  <2>1. SubSeq(w, 1, num) \o SubSeq(w, num + 1, Len(w)) = SubSeq(w, 1, Len(w))
    <3>1. 1 \in 1 .. Len(w) + 1 /\ num \in 1 - 1 .. Len(w) /\ Len(w) \in num .. Len(w)
      BY <1>1
    <3> QED
      BY <3>1, ConcatAdjacentSubSeq
  <2> QED
    BY <2>1, SubSeqFull
<1> HIDE DEF s, t
<1>4. f \o s \in Seq(Unit) /\ r \o f \in Seq(Unit) /\ r \o (f \o s) \in Seq(Unit)
  BY <1>2, ConcatProperties
<1>5. (r \o f) \o w = (r \o (f \o s)) \o t
  <2>1. (r \o f) \o (s \o t) = ((r \o f) \o s) \o t
    <3> DEFINE p == r \o f
    <3>1. p \in Seq(Unit)
      BY <1>4
    <3> HIDE DEF p
    <3>2. p \o (s \o t) = (p \o s) \o t
      BY <1>2, <3>1, Assoc, Zenon
    <3> QED
      BY <3>2, Zenon DEF p
  <2>2. (r \o f) \o s = r \o (f \o s)
    BY <1>2, ConcatAssociative
  <2> QED
    BY <1>3, <2>1, <2>2
<1>6. Entire(r, f, w) => Entire(r, f \o s, t)
  BY <1>5, Zenon DEF Entire
<1>7. Entire(r, f \o s, t) => Begun(r, f \o s)
  BY <1>2, <1>4, FramedPrefix DEF Entire, Begun
<1>8. OwnedBy(f, c) /\ OwnedBy(w, c) => OwnedBy(f \o s, c) /\ OwnedBy(t, c)
  BY <1>2, <1>3, OwnedParts
<1> QED
  BY <1>2, <1>4, <1>6, <1>7, <1>8 DEF s, t

\* What a client takes was under way to it.
LEMMA EntireDrain ==
    ASSUME NEW r \in Seq(Unit), NEW f \in Seq(Unit), f # <<>>, NEW c
    PROVE  /\ Begun(Append(r, Head(f)), Tail(f)) <=> Begun(r, f)
           /\ \A w \in Seq(Unit) : Entire(Append(r, Head(f)), Tail(f), w) <=> Entire(r, f, w)
           /\ OwnedBy(r, c) /\ OwnedBy(f, c) => OwnedBy(Append(r, Head(f)), c) /\ OwnedBy(Tail(f), c)
<1> DEFINE h == <<Head(f)>>
           t == Tail(f)
<1>1. h \in Seq(Unit) /\ t \in Seq(Unit) /\ Append(r, Head(f)) = r \o h
  BY HeadTailProperties, AppendIsConcat
<1>2. f = h \o t
  OBVIOUS
<1> HIDE DEF h, t
<1>3. (r \o h) \o t = r \o f
  BY <1>1, <1>2, ConcatAssociative
<1>4. OwnedBy(r, c) /\ OwnedBy(f, c) => OwnedBy(r \o h, c) /\ OwnedBy(t, c)
  BY <1>1, <1>2, OwnedParts
<1>5. Begun(r \o h, t) <=> Begun(r, f)
  BY <1>3, Zenon DEF Begun
<1>6. \A w \in Seq(Unit) : Entire(r \o h, t, w) <=> Entire(r, f, w)
  BY <1>3, Zenon DEF Entire
<1> QED
  BY <1>1, <1>4, <1>5, <1>6 DEF t

\* Nothing is whole, and what was received stays begun when the rest is lost.
LEMMA EntireLost ==
    /\ Begun(<<>>, <<>>) /\ Entire(<<>>, <<>>, <<>>)
    /\ \A r \in Seq(Unit), f \in Seq(Unit) : Begun(r, f) => Begun(r, <<>>)
<1>1. <<>> \o <<>> = <<>> /\ (<<>> \o <<>>) \o <<>> = <<>> /\ DOMAIN <<>> = {} /\ Len(<<>>) % 2 = 0
  OBVIOUS
<1>2. ASSUME NEW r \in Seq(Unit), NEW f \in Seq(Unit), Begun(r, f) PROVE Begun(r, <<>>)
  <2>1. Framed(r)
    BY <1>2, FramedPrefix DEF Begun
  <2>2. r \o <<>> = r
    BY ConcatEmptySeq
  <2> QED
    BY <2>1, <2>2 DEF Begun
<1> QED
  BY <1>1, <1>2 DEF Begun, Entire, Framed

\* What the invariant says of one client: of what it was sent.
LEMMA FrameOfClient ==
    ASSUME IInv, FrameInv, NEW c \in Clients
    PROVE  /\ received[c] \in Seq(Unit) /\ inflight[c] \in Seq(Unit)
           /\ OwnedBy(received[c], c) /\ OwnedBy(inflight[c], c)
           /\ cli[c] # "rst" => Begun(received[c], inflight[c])
<1>1. received[c] \in Seq(Unit) /\ inflight[c] \in Seq(Unit)
  BY DEF IInv, TypeOK
<1>2. OwnedBy(received[c], c) /\ OwnedBy(inflight[c], c)
  BY DEF FrameInv
<1>3. cli[c] # "rst" => Begun(received[c], inflight[c])
  BY DEF FrameInv
<1> QED
  BY <1>1, <1>2, <1>3

\* And of one connection: of its output, and of what its client was sent.
LEMMA FrameOfConn ==
    ASSUME IInv, FrameInv, NEW fd \in Keys(httpConns), NEW c, c = httpConns[fd].sock
    PROVE  /\ c \in Clients
           /\ received[c] \in Seq(Unit) /\ inflight[c] \in Seq(Unit)
           /\ OwnedBy(received[c], c) /\ OwnedBy(inflight[c], c)
           /\ cli[c] # "rst" => Begun(received[c], inflight[c])
           /\ httpConns[fd].writeBuf \in Seq(Unit)
           /\ OwnedBy(httpConns[fd].writeBuf, c)
           /\ cli[c] # "rst" => Entire(received[c], inflight[c], httpConns[fd].writeBuf)
<1>1. c \in Clients /\ httpConns[fd].writeBuf \in Seq(Unit)
  BY Table DEF LiveConn, Conn
<1>2. /\ OwnedBy(httpConns[fd].writeBuf, c)
      /\ cli[c] # "rst" => Entire(received[c], inflight[c], httpConns[fd].writeBuf)
  BY DEF FrameInv
<1> QED
  BY <1>1, <1>2, FrameOfClient

\* What holds of the output of one connection and of the others.
LEMMA FrameConn ==
    ASSUME IInv, NetInv, FrameInv, NEW fd \in Keys(httpConns), NEW conn \in LiveConn,
           httpConns' = [httpConns EXCEPT ![fd] = conn], conn.sock = httpConns[fd].sock,
           UNCHANGED <<cli, received>>, NEW f \in Seq(Unit), inflight'[conn.sock] = f,
           \A c \in Clients : c # conn.sock => inflight'[c] = inflight[c],
           OwnedBy(f, conn.sock), OwnedBy(conn.writeBuf, conn.sock),
           cli[conn.sock] # "rst" => /\ Begun(received[conn.sock], f)
                                     /\ Entire(received[conn.sock], f, conn.writeBuf)
    PROVE  FrameInv'
<1>1. /\ Keys(httpConns') = Keys(httpConns) /\ httpConns'[fd] = conn
      /\ \A gd \in Fds : gd # fd => httpConns'[gd] = httpConns[gd]
      /\ Keys(httpConns) \subseteq Fds
  BY Table
<1>3. \A gd \in Keys(httpConns) : gd # fd => httpConns[gd].sock # conn.sock /\ httpConns[gd].sock \in Clients
  BY Table DEF NetInv
<1>4. \A c \in Clients : /\ OwnedBy(received'[c], c) /\ OwnedBy(inflight'[c], c)
                         /\ cli'[c] # "rst" => Begun(received'[c], inflight'[c])
  <2> TAKE c \in Clients
  <2>1. CASE c = conn.sock
    BY <2>1, FrameOfClient
  <2>2. CASE c # conn.sock
    BY <2>2, FrameOfClient
  <2> QED
    BY <2>1, <2>2
<1>5. ASSUME NEW gd \in Keys(httpConns')
      PROVE  LET c == httpConns'[gd].sock IN
             /\ OwnedBy(httpConns'[gd].writeBuf, c)
             /\ cli'[c] # "rst" => Entire(received'[c], inflight'[c], httpConns'[gd].writeBuf)
  <2>1. CASE gd = fd
    BY <1>1, <2>1
  <2>2. CASE gd # fd
    <3>1. gd \in Keys(httpConns) /\ httpConns'[gd] = httpConns[gd] /\ inflight'[httpConns[gd].sock] = inflight[httpConns[gd].sock]
      BY <1>1, <1>3, <1>5, <2>2
    <3> QED
      BY <3>1, FrameOfConn
  <2> QED
    BY <2>1, <2>2
<1> QED
  BY <1>4, <1>5 DEF FrameInv

\* The output stays whole when connections go, or come, and when clients act.
LEMMA FrameOthers ==
    ASSUME IInv, FrameInv, UNCHANGED received,
           \A c \in Clients : inflight'[c] = inflight[c] \/ inflight'[c] = <<>>,
           \A c \in Clients : cli'[c] # "rst" => cli[c] # "rst",
           \A fd \in Keys(httpConns') :
             LET c == httpConns'[fd].sock IN
             \/ /\ fd \in Keys(httpConns) /\ httpConns'[fd] = httpConns[fd]
                /\ inflight'[c] = inflight[c] \/ cli'[c] = "rst"
             \/ httpConns'[fd].writeBuf = <<>> /\ received[c] = <<>> /\ inflight'[c] = <<>>
    PROVE  FrameInv'
<1>1. \A c \in Clients : received[c] \in Seq(Unit) /\ inflight[c] \in Seq(Unit)
  BY DEF IInv, TypeOK
<1>2. \A c : OwnedBy(<<>>, c)
  BY DEF OwnedBy
<1>3. \A c \in Clients : /\ OwnedBy(received'[c], c) /\ OwnedBy(inflight'[c], c)
                         /\ cli'[c] # "rst" => Begun(received'[c], inflight'[c])
  <2> TAKE c \in Clients
  <2>1. CASE inflight'[c] = inflight[c]
    BY <2>1, FrameOfClient
  <2>2. CASE inflight'[c] = <<>>
    BY <1>2, <2>2, FrameOfClient, EntireLost, Zenon
  <2> QED
    BY <2>1, <2>2
<1>4. ASSUME NEW fd \in Keys(httpConns')
      PROVE  LET c == httpConns'[fd].sock IN
             /\ OwnedBy(httpConns'[fd].writeBuf, c)
             /\ cli'[c] # "rst" => Entire(received'[c], inflight'[c], httpConns'[fd].writeBuf)
  <2> DEFINE c == httpConns'[fd].sock
  <2>1. CASE /\ fd \in Keys(httpConns) /\ httpConns'[fd] = httpConns[fd]
             /\ inflight'[c] = inflight[c] \/ cli'[c] = "rst"
    BY <2>1, FrameOfConn
  <2>2. CASE httpConns'[fd].writeBuf = <<>> /\ received[c] = <<>> /\ inflight'[c] = <<>>
    BY <1>2, <2>2, EntireLost
  <2> QED
    BY <1>4, <2>1, <2>2
<1> QED
  BY <1>3, <1>4 DEF FrameInv

LEMMA FrameStep ==
    ASSUME OwnAddress, SInv, FrameInv, [Next]_vars
    PROVE  FrameInv'
<1>0. IInv /\ NetInv /\ inflight \in [Clients -> Seq(Unit)] /\ received \in [Clients -> Seq(Unit)]
  BY DEF SInv, IInv, TypeOK
<1>1. CASE httpConns' = httpConns /\ Kept
  BY <1>1 DEF FrameInv, Kept, peerVars
<1>2. ASSUME NEW fd \in Fds, NEW conn \in LiveConn, Reads(fd, conn) PROVE FrameInv'
  <2> DEFINE c == conn.sock
  <2>1. /\ fd \in Keys(httpConns) /\ c = httpConns[fd].sock /\ conn.writeBuf = httpConns[fd].writeBuf
        /\ httpConns' = [httpConns EXCEPT ![fd] = conn] /\ UNCHANGED <<cli, received, inflight>> /\ c \in Clients
    BY <1>0, <1>2, Table DEF Reads, Kept, peerVars
  <2>2. /\ inflight[c] \in Seq(Unit)
        /\ OwnedBy(inflight[c], c) /\ OwnedBy(conn.writeBuf, c)
        /\ cli[c] # "rst" => Begun(received[c], inflight[c]) /\ Entire(received[c], inflight[c], conn.writeBuf)
    BY <1>0, <2>1, FrameOfConn
  <2> QED
    BY <1>0, <2>1, <2>2, FrameConn
<1>3. ASSUME NEW fd \in Fds, NEW resp \in Response, Adds(fd, resp) PROVE FrameInv'
  <2> DEFINE conn == add(httpConns[fd], resp)
             c    == resp.c
             buf  == httpConns[fd].writeBuf
  <2>1. /\ fd \in Keys(httpConns) /\ c = httpConns[fd].sock /\ httpConns[fd] \in LiveConn /\ c \in Clients
        /\ httpConns' = [httpConns EXCEPT ![fd] = conn] /\ UNCHANGED <<cli, received, inflight>>
    <3>1. fd \in Keys(httpConns) /\ c = httpConns[fd].sock
      BY <1>3, GivenToOwner
    <3>2. httpConns' = [httpConns EXCEPT ![fd] = conn] /\ UNCHANGED <<cli, received, inflight>>
      BY <1>3 DEF Adds, Kept, peerVars
    <3> QED
      BY <1>0, <3>1, <3>2, Table
  <2>2. conn \in LiveConn /\ conn.sock = c /\ conn.writeBuf = buf \o Bytes(resp) /\ buf \in Seq(Unit)
    BY <2>1, AddType DEF add, LiveConn, Conn
  <2>3. /\ inflight[c] \in Seq(Unit) /\ received[c] \in Seq(Unit)
        /\ OwnedBy(inflight[c], c) /\ OwnedBy(buf, c)
        /\ cli[c] # "rst" => Begun(received[c], inflight[c]) /\ Entire(received[c], inflight[c], buf)
    BY <1>0, <2>1, FrameOfConn
  <2> HIDE DEF conn, buf
  <2>4. /\ OwnedBy(conn.writeBuf, c)
        /\ cli[c] # "rst" => Entire(received[c], inflight[c], conn.writeBuf)
    BY <2>2, <2>3, EntireAdd
  <2> QED
    BY <1>0, <2>1, <2>2, <2>3, <2>4, FrameConn
<1>4. ASSUME NEW fd \in Fds, NEW num \in Nat, Writes(fd, num) PROVE FrameInv'
  <2> DEFINE conn == write(httpConns[fd], num)
             c    == httpConns[fd].sock
             buf  == httpConns[fd].writeBuf
             s    == SubSeq(buf, 1, num)
             t    == SubSeq(buf, num + 1, Len(buf))
  <2>1. /\ fd \in Keys(httpConns) /\ httpConns[fd] \in LiveConn /\ c \in Clients /\ num \in 0 .. Len(buf)
        /\ httpConns' = [httpConns EXCEPT ![fd] = conn] /\ UNCHANGED <<cli, received>>
        /\ inflight' = [inflight EXCEPT ![c] = inflight[c] \o s]
    BY <1>0, <1>4, Table DEF Writes, peerVars
  <2>2. conn \in LiveConn /\ conn.sock = c /\ conn.writeBuf = t /\ buf \in Seq(Unit)
    BY <2>1, WriteType DEF write, LiveConn, Conn
  <2>3. /\ inflight[c] \in Seq(Unit) /\ received[c] \in Seq(Unit)
        /\ OwnedBy(inflight[c], c) /\ OwnedBy(buf, c)
        /\ cli[c] # "rst" => Entire(received[c], inflight[c], buf)
    BY <1>0, <2>1, FrameOfConn
  <2> HIDE DEF conn, buf
  <2>4. /\ inflight[c] \o s \in Seq(Unit) /\ OwnedBy(inflight[c] \o s, c) /\ OwnedBy(t, c)
        /\ cli[c] # "rst" => /\ Begun(received[c], inflight[c] \o s)
                             /\ Entire(received[c], inflight[c] \o s, t)
    BY <2>1, <2>2, <2>3, EntireWrite
  <2> HIDE DEF s, t
  <2> DEFINE f == inflight[c] \o s
  <2>5. f \in Seq(Unit) /\ OwnedBy(f, conn.sock) /\ OwnedBy(conn.writeBuf, conn.sock)
    BY <2>2, <2>4
  <2>6. cli[conn.sock] # "rst" => Begun(received[conn.sock], f) /\ Entire(received[conn.sock], f, conn.writeBuf)
    BY <2>2, <2>4
  <2>7. inflight'[conn.sock] = f /\ \A d \in Clients : d # conn.sock => inflight'[d] = inflight[d]
    BY <1>0, <2>1, <2>2
  <2> HIDE DEF f
  <2> QED
    BY <1>0, <2>1, <2>2, <2>5, <2>6, <2>7, FrameConn
<1>5. ASSUME NEW fd \in Fds, NEW unread, Closes(fd, unread) PROVE FrameInv'
  <2> DEFINE e == httpConns[fd].sock
  <2>1. /\ Keys(httpConns') = Keys(httpConns) \ {fd} /\ fd \in Keys(httpConns) /\ e \in Clients
        /\ \A gd \in Fds : gd # fd => httpConns'[gd] = httpConns[gd]
        /\ Keys(httpConns) \subseteq Fds
    BY <1>0, <1>5, Table DEF Closes
  <2>2. UNCHANGED <<cli, received>> /\ (inflight' = inflight \/ inflight' = [inflight EXCEPT ![e] = <<>>])
    BY <1>5 DEF Closes, CloseSocket, peerVars
  <2>3. \A gd \in Keys(httpConns') : gd \in Keys(httpConns) /\ httpConns'[gd] = httpConns[gd] /\ httpConns[gd].sock # e
    BY <1>0, <2>1 DEF NetInv
  <2> HIDE DEF e
  <2>4. \A c \in Clients : (inflight'[c] = inflight[c] \/ inflight'[c] = <<>>) /\ (c # e => inflight'[c] = inflight[c])
    BY <1>0, <2>2
  <2>5. \A gd \in Keys(httpConns') : inflight'[httpConns'[gd].sock] = inflight[httpConns'[gd].sock]
    BY <1>0, <2>3, <2>4, Table
  <2> QED
    BY <1>0, <2>2, <2>3, <2>4, <2>5, FrameOthers
<1>6. CASE Accept
  <2> DEFINE c == Head(backlog)
  <2>1. PICK fd \in Fds \ Keys(httpConns) : httpConns' = [httpConns EXCEPT ![fd] = NewConn(c, IdentOf[c])]
    BY <1>6 DEF Accept
  <2>2. UNCHANGED <<cli, received, inflight>> /\ c \in Clients /\ received[c] = <<>> /\ inflight[c] = <<>>
    BY <1>0, <1>6, NetHead DEF Accept, CanAccept, NetInv
  <2>3. httpConns'[fd] = NewConn(c, IdentOf[c]) /\ \A gd \in Fds : gd # fd => httpConns'[gd] = httpConns[gd]
    BY <1>0, <2>1, Table
  <2>4. httpConns'[fd].sock = c /\ httpConns'[fd].writeBuf = <<>>
    BY <2>3 DEF NewConn
  <2> HIDE DEF c
  <2>5. \A gd \in Keys(httpConns') : gd # fd => gd \in Keys(httpConns) /\ httpConns'[gd] = httpConns[gd]
    BY <2>3 DEF Keys
  <2> QED
    BY <1>0, <2>2, <2>4, <2>5, FrameOthers
<1>7. CASE AcceptThrows
  BY <1>7 DEF AcceptThrows, FrameInv
<1>8. ASSUME NEW c \in Clients, Connect(c) \/ Send(c) \/ Fin(c) \/ Reset(c) PROVE FrameInv'
  <2>1. httpConns' = httpConns /\ received' = received /\ cli \in [Clients -> {"new", "open", "fin", "rst"}]
    BY <1>0, <1>8 DEF Connect, Send, Fin, Reset, loopVars, IInv, TypeOK
  <2>2. /\ \A d \in Clients : cli'[d] # "rst" => cli[d] # "rst"
        /\ \A d \in Clients : inflight'[d] = inflight[d] \/ (inflight'[d] = <<>> /\ cli'[d] = "rst")
    BY <1>0, <1>8, <2>1 DEF Connect, Send, Fin, Reset
  <2>3. \A fd \in Keys(httpConns) : httpConns[fd].sock \in Clients
    BY <1>0, Table
  <2> QED
    BY <1>0, <2>1, <2>2, <2>3, FrameOthers
<1>9. ASSUME NEW c \in Clients, Drain(c) PROVE FrameInv'
  <2>1. /\ httpConns' = httpConns /\ cli' = cli /\ inflight[c] # <<>>
        /\ received' = [received EXCEPT ![c] = Append(received[c], Head(inflight[c]))]
        /\ inflight' = [inflight EXCEPT ![c] = Tail(inflight[c])]
    BY <1>9 DEF Drain, loopVars
  <2>2. /\ received'[c] = Append(received[c], Head(inflight[c])) /\ inflight'[c] = Tail(inflight[c])
        /\ \A d \in Clients : d # c => received'[d] = received[d] /\ inflight'[d] = inflight[d]
        /\ received[c] \in Seq(Unit) /\ inflight[c] \in Seq(Unit)
    BY <1>0, <2>1
  <2>3. /\ Begun(received'[c], inflight'[c]) <=> Begun(received[c], inflight[c])
        /\ \A w \in Seq(Unit) : Entire(received'[c], inflight'[c], w) <=> Entire(received[c], inflight[c], w)
        /\ OwnedBy(received[c], c) /\ OwnedBy(inflight[c], c) => OwnedBy(received'[c], c) /\ OwnedBy(inflight'[c], c)
    <3>1. /\ Begun(Append(received[c], Head(inflight[c])), Tail(inflight[c])) <=> Begun(received[c], inflight[c])
          /\ \A w \in Seq(Unit) : Entire(Append(received[c], Head(inflight[c])), Tail(inflight[c]), w)
                                    <=> Entire(received[c], inflight[c], w)
          /\ OwnedBy(received[c], c) /\ OwnedBy(inflight[c], c)
               => OwnedBy(Append(received[c], Head(inflight[c])), c) /\ OwnedBy(Tail(inflight[c]), c)
      BY <2>1, <2>2, EntireDrain
    <3> QED
      BY <2>2, <3>1, Zenon
  <2>4. \A d \in Clients : /\ OwnedBy(received'[d], d) /\ OwnedBy(inflight'[d], d)
                           /\ cli'[d] # "rst" => Begun(received'[d], inflight'[d])
    <3> TAKE d \in Clients
    <3>1. CASE d = c
      BY <1>0, <2>1, <2>3, <3>1, FrameOfClient
    <3>2. CASE d # c
      BY <1>0, <2>1, <2>2, <3>2, FrameOfClient
    <3> QED
      BY <3>1, <3>2
  <2>5. \A fd \in Keys(httpConns) : httpConns[fd].sock \in Clients /\ httpConns[fd].writeBuf \in Seq(Unit)
    BY <1>0, Table DEF LiveConn, Conn
  <2>6. \A fd \in Keys(httpConns) :
          LET d == httpConns[fd].sock IN
          cli'[d] # "rst" => Entire(received'[d], inflight'[d], httpConns[fd].writeBuf)
    <3> TAKE fd \in Keys(httpConns)
    <3>1. CASE httpConns[fd].sock = c
      BY <1>0, <2>1, <2>3, <2>5, <3>1, FrameOfConn
    <3>2. CASE httpConns[fd].sock # c
      BY <1>0, <2>1, <2>2, <2>5, <3>2, FrameOfConn
    <3> QED
      BY <3>1, <3>2
  <2> QED
    BY <2>1, <2>4, <2>5, <2>6 DEF FrameInv
<1> QED
  BY <1>0, <1>1, <1>2, <1>3, <1>4, <1>5, <1>6, <1>7, <1>8, <1>9, Effects DEF Client

LEMMA FrameInit == Init => FrameInv
<1> SUFFICES ASSUME Init PROVE FrameInv
  OBVIOUS
<1>1. Keys(httpConns) = {} /\ \A c \in Clients : received[c] = <<>> /\ inflight[c] = <<>>
  BY DEF Init, Keys, AbsentConn
<1> QED
  BY <1>1, EntireLost DEF FrameInv, OwnedBy

-----------------------------------------------------------------------------
(* Responses reach their client, whole *)

\* What is still to be written belongs to the client and follows what was sent.
LEMMA PendingFollows ==
    ASSUME IInv, FrameInv, NEW c \in Clients
    PROVE  /\ Pending(c) \in Seq(Unit) /\ OwnedBy(Pending(c), c)
           /\ cli[c] # "rst" => Framed(ToClient(c))
<1>1. /\ received[c] \in Seq(Unit) /\ inflight[c] \in Seq(Unit)
      /\ cli[c] # "rst" => Begun(received[c], inflight[c])
  BY FrameOfClient
<1>2. CASE Pending(c) = <<>>
  <2>1. received[c] \o inflight[c] \in Seq(Unit)
    BY <1>1, ConcatProperties
  <2>2. ToClient(c) = received[c] \o inflight[c]
    BY <1>2, <2>1, ConcatEmptySeq DEF ToClient
  <2> QED
    <3>1. Pending(c) \in Seq(Unit) /\ OwnedBy(Pending(c), c)
      BY <1>2 DEF OwnedBy
    <3> QED
      BY <1>1, <2>2, <3>1 DEF Begun
<1>3. CASE \E fd \in Keys(httpConns) : httpConns[fd].sock = c /\ Pending(c) = httpConns[fd].writeBuf
  <2>1. PICK fd \in Keys(httpConns) : httpConns[fd].sock = c /\ Pending(c) = httpConns[fd].writeBuf
    BY <1>3
  <2>2. /\ httpConns[fd].writeBuf \in Seq(Unit) /\ OwnedBy(httpConns[fd].writeBuf, c)
        /\ cli[c] # "rst" => Entire(received[c], inflight[c], httpConns[fd].writeBuf)
    BY <2>1, FrameOfConn
  <2> QED
    BY <2>1, <2>2 DEF Entire, ToClient
<1>4. Pending(c) = <<>> \/ \E fd \in Keys(httpConns) : httpConns[fd].sock = c /\ Pending(c) = httpConns[fd].writeBuf
  <2> DEFINE gd == CHOOSE fd \in Fds : httpConns[fd].sock = c
  <2>1. CASE \E fd \in Fds : httpConns[fd].sock = c
    <3>1. gd \in Fds /\ httpConns[gd].sock = c
      BY <2>1
    <3>2. Pending(c) = httpConns[gd].writeBuf
      BY <2>1 DEF Pending
    <3>3. gd \in Keys(httpConns) \/ httpConns[gd] = AbsentConn
      BY <3>1 DEF IInv, ConnsOK, Keys, LiveConn
    <3>4. httpConns[gd] = AbsentConn => Pending(c) = <<>>
      BY <3>2 DEF AbsentConn
    <3> HIDE DEF gd
    <3> QED
      BY <3>1, <3>2, <3>3, <3>4
  <2>2. CASE ~\E fd \in Fds : httpConns[fd].sock = c
    BY <2>2 DEF Pending
  <2> QED
    BY <2>1, <2>2
<1> QED
  BY <1>2, <1>3, <1>4

LEMMA FramedImplied ==
    ASSUME IInv, FrameInv
    PROVE  ResponsesFramed
<1> SUFFICES ASSUME NEW c \in Clients, NEW n \in DOMAIN ToClient(c)
             PROVE  /\ ToClient(c)[n].c = c
                    /\ cli[c] # "rst" =>
                         /\ ToClient(c)[n].part = IF n % 2 = 1 THEN 1 ELSE 2
                         /\ n % 2 = 0 => ToClient(c)[n].q = ToClient(c)[n - 1].q
  BY DEF ResponsesFramed
<1> DEFINE p == received[c] \o inflight[c]
<1>1. /\ received[c] \in Seq(Unit) /\ inflight[c] \in Seq(Unit)
      /\ OwnedBy(received[c], c) /\ OwnedBy(inflight[c], c)
  BY FrameOfClient
<1>2. p \in Seq(Unit) /\ OwnedBy(p, c)
  BY <1>1, OwnedParts, ConcatProperties
<1>3. ToClient(c) = p \o Pending(c)
  BY DEF ToClient
<1> HIDE DEF p
<1>4. OwnedBy(ToClient(c), c)
  BY <1>2, <1>3, PendingFollows, OwnedParts
<1> QED
  BY <1>4, PendingFollows DEF OwnedBy, Framed

\* A response goes to the client whose request it answers, and to no other, and
\* no response starts inside another one, however the kernel takes the output
\* (onWrite, HttpConnection.add and write): the clients have their own addresses.
THEOREM ResponsesCorrect ==
    ASSUME OwnAddress
    PROVE  Spec => []ResponsesFramed
<1>1. Init => FrameInv
  BY FrameInit
<1>2. SInv /\ FrameInv /\ [Next]_vars => FrameInv'
  BY FrameStep
<1>3. SInv /\ FrameInv => ResponsesFramed
  BY FramedImplied DEF SInv
<1> QED
  BY <1>1, <1>2, <1>3, SInvariance, PTL DEF Spec
=============================================================================
