-------------------------- MODULE HttpServerProofs --------------------------
(***************************************************************************)
(* Type correctness of the serve loop, and the agreement of its poll list  *)
(* with the table of connections, for any number of clients, descriptors   *)
(* and requests, in both modes and whatever the clients do.                *)
(***************************************************************************)
EXTENDS HttpServerProps, SequenceTheorems, WellFoundedInduction, TLAPS

-----------------------------------------------------------------------------
(* The parser and the operations of a connection, for every buffer and every
   length of request *)

\* A non-empty set of naturals has a least element, which FirstOf chooses.
LEMMA FirstOfLemma ==
    ASSUME NEW S \in SUBSET Nat, S # {}
    PROVE  FirstOf(S) \in S /\ \A m \in S : FirstOf(S) <= m
<1> DEFINE R == OpToRel(<, Nat)
<1>1. \A x, y \in Nat : x < y => <<x, y>> \in R
  BY DEF OpToRel
<1>2. IsWellFoundedOn(R, Nat)
  BY NatLessThanWellFounded
<1> HIDE DEF R
<1>3. PICK n \in S : \A m \in S : ~(<<m, n>> \in R)
  BY <1>2, WFMin
<1>4. \A m \in S : n <= m
  <2> TAKE m \in S
  <2>1. ~(m < n)
    BY <1>1, <1>3, Zenon
  <2>2. QED
    BY <2>1
<1>5. QED
  BY <1>4 DEF FirstOf

\* A non-empty bounded set of naturals has a greatest element: LastOf chooses it.
LEMMA LastOfLemma ==
    ASSUME NEW S \in SUBSET Nat, S # {}, NEW b \in Nat, \A n \in S : n <= b
    PROVE  LastOf(S) \in S /\ \A n \in S : n <= LastOf(S)
<1> DEFINE T == {b - n : n \in S}
<1>1. T \in SUBSET Nat /\ T # {}
  <2>1. \A n \in S : b - n \in Nat
    OBVIOUS
  <2>2. PICK n \in S : TRUE
    OBVIOUS
  <2>3. b - n \in T
    OBVIOUS
  <2>4. QED
    BY <2>1, <2>3
<1>2. FirstOf(T) \in T /\ \A m \in T : FirstOf(T) <= m
  BY <1>1, FirstOfLemma
<1>3. PICK n \in S : FirstOf(T) = b - n
  BY <1>2
<1>4. \A m \in S : m <= n
  <2> TAKE m \in S
  <2>1. b - m \in T
    OBVIOUS
  <2>2. b - n <= b - m
    BY <1>2, <1>3, <2>1
  <2>3. QED
    BY <2>2
<1>5. QED
  BY <1>4 DEF LastOf

-----------------------------------------------------------------------------
(* The parser *)

\* The first line of a buffer ends inside the buffer.
LEMMA FirstLineLemma ==
    ASSUME NEW buf \in Seq(Token), buf # <<>>
    PROVE  FirstLine(buf) \in 1 .. Len(buf)
<1> DEFINE ends == {n \in DOMAIN buf : buf[n].k # "body"}
<1>1. Len(buf) \in Nat \ {0} /\ DOMAIN buf = 1 .. Len(buf)
  BY EmptySeq, LenProperties
<1>2. CASE ends = {}
  BY <1>1, <1>2 DEF FirstLine
<1>3. CASE ends # {}
  <2>1. ends \in SUBSET Nat
    BY <1>1
  <2>2. FirstOf(ends) \in ends
    BY <1>3, <2>1, FirstOfLemma
  <2>3. QED
    BY <1>1, <1>3, <2>2 DEF FirstLine
<1>4. QED
  BY <1>2, <1>3

\* The header loop ends behind the first line, at the latest behind the buffer.
LEMMA EndOfLoopLemma ==
    ASSUME NEW buf \in Seq(Token), buf # <<>>
    PROVE  EndOfLoop(buf) \in FirstLine(buf) + 1 .. Len(buf) + 1
<1> DEFINE blank == {n \in FirstLine(buf) + 1 .. Len(buf) : BlankAt(buf, n)}
<1>1. FirstLine(buf) \in 1 .. Len(buf) /\ Len(buf) \in Nat
  BY FirstLineLemma, LenProperties
<1>2. CASE blank = {}
  BY <1>1, <1>2 DEF EndOfLoop
<1>3. CASE blank # {}
  <2>1. blank \in SUBSET Nat
    BY <1>1
  <2>2. FirstOf(blank) \in blank
    BY <1>3, <2>1, FirstOfLemma
  <2>3. QED
    BY <1>1, <1>3, <2>2 DEF EndOfLoop
<1>4. QED
  BY <1>2, <1>3

\* The length the headers announce is a natural number.
LEMMA ReqLenLemma ==
    ASSUME NEW buf \in Seq(Token), buf # <<>>
    PROVE  ReqLen(buf) \in Nat
<1>1. /\ FirstLine(buf) \in 1 .. Len(buf) /\ Len(buf) \in Nat
      /\ EndOfLoop(buf) \in FirstLine(buf) + 1 .. Len(buf) + 1
  BY FirstLineLemma, EndOfLoopLemma, LenProperties
<1>2. LengthLines(buf) \in SUBSET (1 .. Len(buf))
  BY <1>1 DEF LengthLines
<1>3. CASE LengthLines(buf) = {}
  BY <1>3 DEF ReqLen
<1>4. CASE LengthLines(buf) # {}
  <2>0. LengthLines(buf) \in SUBSET Nat /\ \A n \in LengthLines(buf) : n <= Len(buf)
    BY <1>1, <1>2
  <2>1. LastOf(LengthLines(buf)) \in LengthLines(buf)
    BY <1>1, <1>4, <2>0, LastOfLemma
  <2>2. buf[LastOf(LengthLines(buf))] \in Token
    BY <1>2, <2>1, ElementOfSeq
  <2>3. QED
    BY <1>4, <2>2 DEF ReqLen, Token
<1>5. QED
  BY <1>3, <1>4

\* What a parser step returns: a request or none, and how much of it is missing.
ParseResult == [err : {"none", "exception", "error"}, req : Request \cup {Null}, rem : Nat]

\* onHttpData() keeps the request a request.
LEMMA OnHttpDataType ==
    ASSUME NEW rq \in Request \cup {Null}, NEW buf \in Seq(Token)
    PROVE  onHttpData(rq, buf) \in ParseResult
<1>1. CASE rq = Null \/ buf = <<>>
  BY <1>1 DEF onHttpData, Parsed, ParseResult
<1>2. CASE ~(rq = Null \/ buf = <<>>)
  <2>1. rq \in Request
    BY <1>2
  <2> DEFINE more == [rq EXCEPT !.data = IF rq.path THEN @ ELSE @ \o buf]
  <2>2. rq.data \o buf \in Seq(Token)
    BY <2>1, ConcatProperties DEF Request
  <2>3. more \in Request /\ more.data \in Seq(Token)
    BY <2>1, <2>2 DEF Request
  <2>4. Len(more.data) \in Nat
    BY <2>3, LenProperties
  <2>5. QED
    BY <1>2, <2>3, <2>4 DEF onHttpData, Parsed, Thrown, ParseResult
<1>3. QED
  BY <1>1, <1>2

\* parseHttpHeaders() returns a request with at least its first line, whatever
\* the buffer holds, or throws.
LEMMA ParseType ==
    ASSUME NEW buf \in Seq(Token), buf # <<>>, NEW ident \in Idents
    PROVE  parseHttpHeaders(buf, ident) \in ParseResult
<1> DEFINE e        == EndOfLoop(buf)
           rest     == SubSeq(buf, e + 1, Len(buf))
           len      == ReqLen(buf)
           diverted == len > DivertLen
           head     == SubSeq(buf, 1, e - 1)
           rq      == [connection |-> ident, head |-> head,
                        data |-> IF diverted THEN <<>> ELSE rest, path |-> diverted]
<1>1. /\ FirstLine(buf) \in 1 .. Len(buf) /\ Len(buf) \in Nat
      /\ e \in FirstLine(buf) + 1 .. Len(buf) + 1
      /\ len \in Nat
  BY FirstLineLemma, EndOfLoopLemma, ReqLenLemma, LenProperties
<1>2. head \in Seq(Token) /\ Len(head) = e - 1
  BY <1>1, SubSeqProperties
<1>3. head # <<>>
  BY <1>1, <1>2, EmptySeq
<1>4. rest \in Seq(Token)
  BY <1>1, SubSeqProperties
<1>5. rq \in Request
  BY <1>2, <1>3, <1>4, LenAssumption, <1>1 DEF Request
<1>6. /\ Thrown("error") \in ParseResult /\ Thrown("exception") \in ParseResult
      /\ Parsed(Null, 0) \in ParseResult /\ Parsed(rq, len) \in ParseResult
  BY <1>1, <1>5 DEF Thrown, Parsed, ParseResult
<1>7. QED
  BY <1>6 DEF parseHttpHeaders

-----------------------------------------------------------------------------
(* The operations of a connection *)

\* A connection that is in httpConns: it has a socket and an address.
LiveConn == {conn \in Conn : conn.state # "Absent" /\ conn.sock \in Clients /\ conn.ident \in Idents}

\* What read() leaves and returns.
ReadResults == [conn : LiveConn, req : Request \cup {Null}, err : {"none", "exception", "error"}]

\* The tail of read() keeps the connection's socket, address and output.
LEMMA FinishReadType ==
    ASSUME NEW conn \in LiveConn, NEW p \in ParseResult
    PROVE  FinishRead(conn, p) \in ReadResults
<1>1. <<>> \in Seq(Token)
  BY EmptySeq
<1>2. /\ [conn EXCEPT !.currReq = Null, !.readBuf = <<>>, !.state = "Headers"] \in LiveConn
      /\ [conn EXCEPT !.currReq = p.req] \in LiveConn
  BY <1>1 DEF LiveConn, Conn, ParseResult
<1>3. QED
  BY <1>2 DEF FinishRead, ReadResult, ReadResults, ParseResult

\* read() maps a live connection and a non-empty chunk to a live connection and
\* a request, or none, or an exception: for every chunk, however it cuts the
\* stream.
LEMMA ReadType ==
    ASSUME NEW conn \in LiveConn, NEW buf \in Seq(Token), buf # <<>>
    PROVE  read(conn, buf) \in ReadResults
<1>1. conn.readBuf \o buf \in Seq(Token) /\ conn.ident \in Idents
      /\ conn.currReq \in Request \cup {Null} /\ <<>> \in Seq(Token)
  BY ConcatProperties, EmptySeq DEF LiveConn, Conn
<1>2. parseHttpHeaders(buf, conn.ident) \in ParseResult
  BY <1>1, ParseType
<1>3. Parsed(conn.currReq, 0) \in ParseResult
  BY <1>1 DEF Parsed, ParseResult
<1>4. onHttpData(conn.currReq, buf) \in ParseResult
  BY <1>1, OnHttpDataType
<1>5. ASSUME NEW stored \in Seq(Token)
      PROVE  /\ [conn EXCEPT !.readBuf = stored, !.state = "Body"] \in LiveConn
             /\ [conn EXCEPT !.readBuf = stored] \in LiveConn
  BY DEF LiveConn, Conn
<1>6. ReadHeaders(conn, buf) \in ReadResults
  <2> DEFINE all    == conn.readBuf \o buf
             found  == HasEndOfHeaders(all)
             stored == IF conn.readBuf = <<>> /\ found THEN <<>> ELSE all
  <2>1. stored \in Seq(Token)
    BY <1>1
  <2>2. FinishRead([conn EXCEPT !.readBuf = stored, !.state = "Body"],
                   parseHttpHeaders(buf, conn.ident)) \in ReadResults
    BY <1>2, <1>5, <2>1, FinishReadType
  <2>3. FinishRead([conn EXCEPT !.readBuf = stored], Parsed(conn.currReq, 0)) \in ReadResults
    BY <1>3, <1>5, <2>1, FinishReadType
  <2>4. QED
    BY <2>2, <2>3 DEF ReadHeaders
<1>7. FinishRead(conn, onHttpData(conn.currReq, buf)) \in ReadResults
  BY <1>4, FinishReadType
<1>8. ReadResult(conn, Null, "none") \in ReadResults
  BY DEF ReadResult, ReadResults
<1>9. QED
  BY <1>6, <1>7, <1>8 DEF read

\* add() keeps a live connection live.
LEMMA AddType ==
    ASSUME NEW conn \in LiveConn, NEW resp \in Response
    PROVE  add(conn, resp) \in LiveConn
<1>1. Bytes(resp) \in Seq(Unit)
  BY DEF Bytes, Response, Unit
<1>2. conn.writeBuf \o Bytes(resp) \in Seq(Unit)
  BY <1>1, ConcatProperties DEF LiveConn, Conn
<1>3. QED
  BY <1>2 DEF add, LiveConn, Conn

\* write() keeps a live connection live.
LEMMA WriteType ==
    ASSUME NEW conn \in LiveConn, NEW num \in 0 .. Len(conn.writeBuf)
    PROVE  write(conn, num) \in LiveConn
<1>1. conn.writeBuf \in Seq(Unit) /\ Len(conn.writeBuf) \in Nat
  BY LenProperties DEF LiveConn, Conn
<1>2. SubSeq(conn.writeBuf, num + 1, Len(conn.writeBuf)) \in Seq(Unit)
  BY <1>1, SubSeqProperties
<1>3. QED
  BY <1>2 DEF write, LiveConn, Conn

\* getResponse() makes a response addressed to the request's connection.
LEMMA GetResponseType ==
    ASSUME NEW rq \in Request, NEW more \in Seq({"keep", "close"}), NEW chunked \in BOOLEAN
    PROVE  getResponse(rq, more, chunked) \in Response
<1>1. rq.head \in Seq(Token) /\ rq.head # <<>> /\ rq.connection \in Idents
  BY DEF Request
<1>2. Len(rq.head) \in Nat \ {0} /\ FirstLine(rq.head) \in 1 .. Len(rq.head)
  BY <1>1, EmptySeq, LenProperties, FirstLineLemma
<1>3. rq.head[1] \in Token
  BY <1>1, <1>2, ElementOfSeq
<1> DEFINE hdrs == ConnHeaders(rq)
           conn == IF hdrs = {} THEN more ELSE << rq.head[FirstOf(hdrs)].k >> \o more
<1>4. conn \in Seq({"keep", "close"})
  <2>1. CASE hdrs = {}
    BY <2>1
  <2>2. CASE hdrs # {}
    <3>1. hdrs \in SUBSET Nat
      BY <1>2 DEF ConnHeaders
    <3>2. FirstOf(hdrs) \in hdrs
      BY <2>2, <3>1, FirstOfLemma
    <3>3. rq.head[FirstOf(hdrs)].k \in {"keep", "close"}
      BY <3>2 DEF ConnHeaders
    <3>4. << rq.head[FirstOf(hdrs)].k >> \in Seq({"keep", "close"})
      BY <3>3
    <3>5. QED
      BY <2>2, <3>4, ConcatProperties
  <2>3. QED
    BY <2>1, <2>2
<1>5. QED
  BY <1>1, <1>3, <1>4 DEF getResponse, Response, Token

-----------------------------------------------------------------------------
(* Types and lists *)

(***************************************************************************)
(* The list being built (p), the items still to be looked at (q from index *)
(* j on) and the keys K of httpConns agree.                                *)
(***************************************************************************)
Sync(p, q, j, K) ==
    /\ \A m, n \in 1 .. Len(p) : p[m].fd = p[n].fd => m = n
    /\ \A m, n \in j .. Len(q) : q[m].fd = q[n].fd => m = n
    /\ \A m \in 1 .. Len(p), n \in j .. Len(q) : p[m].fd # q[n].fd
    /\ \A fd \in Fds : fd \in K <=> \/ \E m \in 1 .. Len(p) : p[m].fd = fd
                                    \/ \E n \in j .. Len(q) : q[n].fd = fd

\* An item merged for the descriptor at hand keeps the agreement.
LEMMA MergeSame ==
    ASSUME NEW p \in Seq(PollItem), NEW q \in Seq(PollItem), NEW j \in 1 .. Len(q), NEW K,
           NEW item \in PollItem, item.fd = q[j].fd, Sync(p, q, j, K)
    PROVE  Sync(p \o <<item>>, q, j + 1, K)
<1> DEFINE r == p \o <<item>>
<1>1. /\ Len(p) \in Nat /\ Len(q) \in Nat /\ Len(r) = Len(p) + 1
      /\ \A m \in 1 .. Len(p) : r[m] = p[m]
      /\ r[Len(p) + 1] = item
  BY ConcatProperties, LenProperties
<1> HIDE DEF r
<1>2. \A m, n \in 1 .. Len(r) : r[m].fd = r[n].fd => m = n
  BY <1>1 DEF Sync
<1>3. \A m \in 1 .. Len(r), n \in j + 1 .. Len(q) : r[m].fd # q[n].fd
  BY <1>1 DEF Sync
<1>4. \A fd \in Fds : fd \in K <=> \/ \E m \in 1 .. Len(r) : r[m].fd = fd
                                   \/ \E n \in j + 1 .. Len(q) : q[n].fd = fd
  <2> TAKE fd \in Fds
  <2>1. (\E m \in 1 .. Len(r) : r[m].fd = fd) <=> q[j].fd = fd \/ \E m \in 1 .. Len(p) : p[m].fd = fd
    BY <1>1, SMTT(30)
  <2>2. (\E n \in j .. Len(q) : q[n].fd = fd) <=> q[j].fd = fd \/ \E n \in j + 1 .. Len(q) : q[n].fd = fd
    BY <1>1
  <2>3. QED
    BY <2>1, <2>2 DEF Sync
<1>5. \A m, n \in j + 1 .. Len(q) : q[m].fd = q[n].fd => m = n
  BY <1>1 DEF Sync
<1>6. Sync(r, q, j + 1, K)
  BY <1>2, <1>3, <1>4, <1>5 DEF Sync
<1>7. QED
  BY <1>6 DEF r

\* A connection that is closed leaves the list and the table together.
LEMMA MergeDrop ==
    ASSUME NEW p \in Seq(PollItem), NEW q \in Seq(PollItem), NEW j \in 1 .. Len(q), NEW K,
           Sync(p, q, j, K)
    PROVE  Sync(p \o <<>>, q, j + 1, K \ {q[j].fd})
<1>1. Len(p) \in Nat /\ Len(q) \in Nat /\ p \o <<>> = p
  BY ConcatEmptySeq, LenProperties
<1>2. \A fd \in Fds : fd \in K \ {q[j].fd} <=> \/ \E m \in 1 .. Len(p) : p[m].fd = fd
                                               \/ \E n \in j + 1 .. Len(q) : q[n].fd = fd
  <2> TAKE fd \in Fds
  <2>1. (\E n \in j .. Len(q) : q[n].fd = fd) <=> q[j].fd = fd \/ \E n \in j + 1 .. Len(q) : q[n].fd = fd
    BY <1>1
  <2>2. q[j].fd = fd => /\ ~\E m \in 1 .. Len(p) : p[m].fd = fd
                        /\ ~\E n \in j + 1 .. Len(q) : q[n].fd = fd
    BY <1>1 DEF Sync
  <2>3. fd \in K <=> \/ \E m \in 1 .. Len(p) : p[m].fd = fd
                     \/ \E n \in j .. Len(q) : q[n].fd = fd
    BY DEF Sync
  <2>4. fd \in K \ {q[j].fd} <=> fd \in K /\ q[j].fd # fd
    OBVIOUS
  <2>5. QED
    BY <2>1, <2>2, <2>3, <2>4
<1>3. QED
  BY <1>1, <1>2 DEF Sync

\* An accepted connection enters the list and the table together.
LEMMA MergeAccept ==
    ASSUME NEW p \in Seq(PollItem), NEW q \in Seq(PollItem), NEW j \in 1 .. Len(q), NEW K \in SUBSET Fds,
           q[j].fd = Listener, NEW fd0 \in Fds \ K, NEW item \in PollItem, item.fd = fd0,
           Sync(p, q, j, K)
    PROVE  Sync(p \o <<listenItem, item>>, q, j + 1, K \cup {fd0})
<1> DEFINE r == p \o <<listenItem, item>>
<1>1. /\ Len(p) \in Nat /\ Len(q) \in Nat /\ Len(r) = Len(p) + 2
      /\ \A m \in 1 .. Len(p) : r[m] = p[m]
      /\ r[Len(p) + 1] = listenItem /\ r[Len(p) + 2] = item
  <2>1. listenItem \in PollItem
    BY DEF listenItem, PollItem
  <2>2. <<listenItem, item>> \in Seq(PollItem) /\ Len(<<listenItem, item>>) = 2
    BY <2>1
  <2>3. Len(p) \in Nat /\ Len(q) \in Nat
    BY LenProperties
  <2>4. /\ Len(r) = Len(p) + Len(<<listenItem, item>>)
        /\ \A m \in 1 .. Len(r) : r[m] = IF m <= Len(p) THEN p[m] ELSE <<listenItem, item>>[m - Len(p)]
    BY <2>2, ConcatProperties
  <2> HIDE DEF r
  <2>5. r[Len(p) + 1] = <<listenItem, item>>[1] /\ r[Len(p) + 2] = <<listenItem, item>>[2]
    BY <2>2, <2>3, <2>4
  <2>6. QED
    BY <2>2, <2>3, <2>4, <2>5
<1>2. Listener \notin Fds /\ listenItem.fd = Listener
  BY ConstAssumption DEF listenItem
<1>3. /\ \A m \in 1 .. Len(p) : p[m].fd # fd0 /\ p[m].fd # Listener
      /\ \A n \in j .. Len(q) : q[n].fd # fd0
      /\ \A n \in j + 1 .. Len(q) : q[n].fd # Listener
  <2>1. j \in j .. Len(q)
    BY <1>1
  <2>2. QED
    BY <1>1, <2>1 DEF Sync
<1> HIDE DEF r
<1>4. \A m, n \in 1 .. Len(r) : r[m].fd = r[n].fd => m = n
  BY <1>1, <1>2, <1>3 DEF Sync
<1>5. \A m \in 1 .. Len(r), n \in j + 1 .. Len(q) : r[m].fd # q[n].fd
  <2> TAKE m \in 1 .. Len(r), n \in j + 1 .. Len(q)
  <2>1. CASE m \in 1 .. Len(p)
    <3>1. p[m].fd # q[n].fd
      BY <1>1, <2>1 DEF Sync
    <3>2. QED
      BY <1>1, <2>1, <3>1
  <2>2. CASE m = Len(p) + 1
    <3>1. r[m].fd = Listener /\ q[n].fd # Listener
      BY <1>1, <1>2, <1>3, <2>2
    <3>2. QED
      BY <3>1
  <2>3. CASE m = Len(p) + 2
    <3>1. r[m].fd = fd0 /\ q[n].fd # fd0
      BY <1>1, <1>3, <2>3
    <3>2. QED
      BY <3>1
  <2>4. m \in 1 .. Len(p) \/ m = Len(p) + 1 \/ m = Len(p) + 2
    BY <1>1, SMTT(30)
  <2>5. QED
    BY <2>1, <2>2, <2>3, <2>4
<1>6. \A fd \in Fds : fd \in K \cup {fd0} <=> \/ \E m \in 1 .. Len(r) : r[m].fd = fd
                                              \/ \E n \in j + 1 .. Len(q) : q[n].fd = fd
  <2> TAKE fd \in Fds
  <2>1. (\E m \in 1 .. Len(r) : r[m].fd = fd) <=> fd = fd0 \/ \E m \in 1 .. Len(p) : p[m].fd = fd
    BY <1>1, <1>2
  <2>2. (\E n \in j .. Len(q) : q[n].fd = fd) <=> \E n \in j + 1 .. Len(q) : q[n].fd = fd
    BY <1>1, <1>2
  <2>3. QED
    BY <2>1, <2>2 DEF Sync
<1>7. \A m, n \in j + 1 .. Len(q) : q[m].fd = q[n].fd => m = n
  BY <1>1 DEF Sync
<1>8. Sync(r, q, j + 1, K \cup {fd0})
  BY <1>4, <1>5, <1>6, <1>7 DEF Sync
<1>9. QED
  BY <1>8 DEF r

\* When all items are done, the list that was built is the list to be polled.
LEMMA MergeDone ==
    ASSUME NEW p \in Seq(PollItem), NEW q \in Seq(PollItem), NEW j \in Nat, j > Len(q), NEW K,
           Sync(p, q, j, K)
    PROVE  Sync(<<>>, p, 1, K)
<1>1. Len(p) \in Nat /\ Len(q) \in Nat /\ Len(<<>>) = 0 /\ j .. Len(q) = {} /\ 1 .. 0 = {}
  BY LenProperties
<1>2. \A fd \in Fds : fd \in K <=> \E n \in 1 .. Len(p) : p[n].fd = fd
  BY <1>1 DEF Sync
<1>3. QED
  BY <1>1, <1>2 DEF Sync

-----------------------------------------------------------------------------
(***************************************************************************)
(* The inductive invariant.  TypeOK and PollListInSync are not inductive:  *)
(* that the connection at hand exists follows from the agreement of the    *)
(* two lists with the table in the middle of a round, that there is a      *)
(* request to dispatch from the place where the loop stands.               *)
(***************************************************************************)

\* Every key of httpConns holds a connection with a socket and an address.
ConnsOK == \A fd \in Fds : httpConns[fd] \in LiveConn \cup {AbsentConn}

\* The kernel never holds more than the send buffer has room for.
BufOK == \A c \in Clients : Len(inflight[c]) <= SndBuf

\* The place of the loop: at a connection when it dispatches or writes, with a
\* request when it dispatches, and outside of a round with no list being built.
PcOK ==
    /\ pc \in {"dispatch", "write"} => i \in 1 .. Len(pitem) /\ ~isListener(Item)
    /\ pc = "dispatch" => req # Null
    /\ pc \in {"poll", "idle", "done"} => ptmp = <<>> /\ i = 1

SyncOK == pc # "crashed" => Sync(ptmp, pitem, i, Keys(httpConns))

IInv == TypeOK /\ ConnsOK /\ BufOK /\ PcOK /\ SyncOK

\* The connection at hand is in the table.
LEMMA CurrLemma ==
    ASSUME TypeOK, ConnsOK, SyncOK, pc # "crashed", i \in 1 .. Len(pitem), ~isListener(Item)
    PROVE  /\ Item \in PollItem /\ Item.fd \in Fds /\ Item.fd \in Keys(httpConns)
           /\ CurrConn \in LiveConn /\ CurrClient \in Clients
<1>1. Item \in PollItem
  BY ElementOfSeq DEF TypeOK, Item
<1>2. Item.fd \in Fds
  BY <1>1 DEF PollItem, isListener
<1>3. Len(pitem) \in Nat /\ i \in i .. Len(pitem)
  BY LenProperties DEF TypeOK
<1>4. Item.fd \in Keys(httpConns)
  BY <1>2, <1>3 DEF SyncOK, Sync, Item
<1>5. CurrConn \in LiveConn
  BY <1>2, <1>4 DEF ConnsOK, CurrConn, Keys, AbsentConn
<1>6. QED
  BY <1>1, <1>2, <1>4, <1>5 DEF CurrClient, LiveConn

\* An entry of the table is replaced by a connection, or removed.
LEMMA ConnsUpdate ==
    ASSUME TypeOK, ConnsOK, NEW fd \in Fds, NEW conn \in LiveConn \cup {AbsentConn},
           httpConns' = [httpConns EXCEPT ![fd] = conn]
    PROVE  /\ httpConns' \in [Fds -> Conn] /\ ConnsOK'
           /\ conn \in LiveConn => Keys(httpConns') = Keys(httpConns) \cup {fd}
           /\ conn = AbsentConn => Keys(httpConns') = Keys(httpConns) \ {fd}
<1>1. LiveConn \cup {AbsentConn} \subseteq Conn
  <2>1. <<>> \in Seq(Token) /\ <<>> \in Seq(Unit)
    BY EmptySeq
  <2>2. AbsentConn \in Conn
    BY <2>1 DEF AbsentConn, Conn
  <2>3. QED
    BY <2>2 DEF LiveConn
<1>2. httpConns \in [Fds -> Conn]
  BY DEF TypeOK
<1>3. httpConns' \in [Fds -> Conn]
  BY <1>1, <1>2
<1>4. ConnsOK'
  BY <1>2 DEF ConnsOK
<1>5. httpConns'[fd] = conn /\ \A g \in Fds : g # fd => httpConns'[g] = httpConns[g]
  BY <1>2
<1>6. conn \in LiveConn => conn.state # "Absent"
  BY DEF LiveConn
<1>7. conn = AbsentConn => conn.state = "Absent"
  BY DEF AbsentConn
<1>8. QED
  BY <1>3, <1>4, <1>5, <1>6, <1>7 DEF Keys

\* The list being built stays a list of poll items.
LEMMA MergeType ==
    ASSUME TypeOK, NEW items \in Seq(PollItem), Merge(items)
    PROVE  ptmp' \in Seq(PollItem) /\ i' \in Nat \ {0} /\ pc' = "item"
  BY ConcatProperties DEF TypeOK, Merge

\* The items of connections and of the listener.
LEMMA ItemTypes ==
    /\ listenItem \in PollItem
    /\ \A fd \in Fds, conn \in LiveConn : connItem(fd, conn) \in PollItem /\ connItem(fd, conn).fd = fd
  BY DEF listenItem, connItem, needsWrite, PollItem

\* Going on with the next item, the one at hand staying in the list.
LEMMA KeepItem ==
    ASSUME TypeOK, SyncOK, pc # "crashed", i \in 1 .. Len(pitem), NEW item \in PollItem,
           item.fd = Item.fd, Merge(<<item>>), pitem' = pitem, Keys(httpConns') = Keys(httpConns)
    PROVE  PcOK' /\ SyncOK'
<1>1. pitem \in Seq(PollItem) /\ ptmp \in Seq(PollItem)
  BY DEF TypeOK
<1>2. Sync(ptmp \o <<item>>, pitem, i + 1, Keys(httpConns))
  BY <1>1, MergeSame DEF SyncOK, Item
<1>3. QED
  BY <1>2 DEF PcOK, SyncOK, Merge

\* Going on with the next item, the one at hand leaving the list and the table.
LEMMA DropItem ==
    ASSUME TypeOK, SyncOK, pc # "crashed", i \in 1 .. Len(pitem),
           Merge(<<>>), pitem' = pitem, Keys(httpConns') = Keys(httpConns) \ {Item.fd}
    PROVE  PcOK' /\ SyncOK'
<1>1. pitem \in Seq(PollItem) /\ ptmp \in Seq(PollItem)
  BY DEF TypeOK
<1>2. Sync(ptmp \o <<>>, pitem, i + 1, Keys(httpConns) \ {Item.fd})
  BY <1>1, MergeDrop DEF SyncOK, Item
<1>3. QED
  BY <1>2 DEF PcOK, SyncOK, Merge

\* The place of an item in the list.
LEMMA IndexOK ==
    ASSUME TypeOK, i <= Len(pitem)
    PROVE  i \in 1 .. Len(pitem)
  BY LenProperties DEF TypeOK

-----------------------------------------------------------------------------
(* One lemma for each action of the loop. *)

\* Poll writes the events into the items; the descriptors stay as they are.
LEMMA PollStep == IInv /\ Poll => IInv'
<1> SUFFICES ASSUME IInv, Poll PROVE IInv'
  OBVIOUS
<1>1. pitem \in Seq(PollItem) /\ DOMAIN pitem = 1 .. Len(pitem) /\ Len(pitem) \in Nat
  BY LenProperties DEF IInv, TypeOK
<1>2. PICK listenEvents \in {ListenEvents} \cup IF "listenErr" \in Env THEN {{"ERR"}} ELSE {} :
        pitem' = Polled(listenEvents)
  BY DEF Poll
<1>3. listenEvents \in SUBSET PollEvents
  BY <1>2 DEF ListenEvents, PollEvents
<1>4. \A n \in 1 .. Len(pitem) : pitem'[n] \in PollItem /\ pitem'[n].fd = pitem[n].fd
  <2> TAKE n \in 1 .. Len(pitem)
  <2>1. pitem[n] \in PollItem
    BY <1>1, ElementOfSeq
  <2>2. pitem'[n] = [pitem[n] EXCEPT !.revents =
            IF isListener(pitem[n]) THEN listenEvents
            ELSE ConnEvents(httpConns[pitem[n].fd].sock, pitem[n].out)]
    BY <1>1, <1>2 DEF Polled
  <2>3. ConnEvents(httpConns[pitem[n].fd].sock, pitem[n].out) \in SUBSET PollEvents
    BY DEF ConnEvents, PollEvents
  <2>4. QED
    BY <1>3, <2>1, <2>2, <2>3 DEF PollItem
<1>5. pitem' \in Seq(PollItem) /\ Len(pitem') = Len(pitem)
  <2>1. pitem' \in [1 .. Len(pitem) -> PollItem]
    BY <1>1, <1>2, <1>4 DEF Polled
  <2>2. QED
    BY <1>1, <2>1, SeqDef
<1>6. TypeOK'
  BY <1>5, EmptySeq DEF IInv, TypeOK, Poll, appVars, netVars, peerVars
<1>7. ConnsOK' /\ BufOK' /\ PcOK'
  BY DEF IInv, Poll, ConnsOK, BufOK, PcOK, netVars
<1>8. Sync(<<>>, pitem', 1, Keys(httpConns))
  <2>1. Sync(<<>>, pitem, 1, Keys(httpConns))
    BY DEF IInv, SyncOK, PcOK, Poll
  <2>2. QED
    BY <1>4, <1>5, <2>1 DEF Sync
<1>9. SyncOK'
  BY <1>8 DEF Poll, SyncOK
<1>10. QED
  BY <1>6, <1>7, <1>9 DEF IInv

\* ListenError leaves the listener in the list.
LEMMA ListenErrorStep == IInv /\ ListenError => IInv'
<1> SUFFICES ASSUME IInv, ListenError PROVE IInv'
  OBVIOUS
<1>1. <<listenItem>> \in Seq(PollItem) /\ listenItem.fd = Item.fd
  BY ItemTypes DEF ListenError, AtListener, isListener, listenItem
<1>2. TypeOK'
  BY <1>1, MergeType DEF IInv, TypeOK, ListenError, appVars, netVars, peerVars
<1>3. ConnsOK' /\ BufOK'
  BY DEF IInv, ListenError, ConnsOK, BufOK, netVars
<1>4. PcOK' /\ SyncOK'
  BY <1>1, ItemTypes, IndexOK, KeepItem DEF IInv, ListenError, AtListener
<1>5. QED
  BY <1>2, <1>3, <1>4 DEF IInv

\* NoAccept leaves the listener in the list.
LEMMA NoAcceptStep == IInv /\ NoAccept => IInv'
<1> SUFFICES ASSUME IInv, NoAccept PROVE IInv'
  OBVIOUS
<1>1. <<listenItem>> \in Seq(PollItem) /\ listenItem.fd = Item.fd
  BY ItemTypes DEF NoAccept, AtListener, isListener, listenItem
<1>2. TypeOK'
  BY <1>1, MergeType DEF IInv, TypeOK, NoAccept, roundVars, appVars, netVars, peerVars
<1>3. ConnsOK' /\ BufOK'
  BY DEF IInv, NoAccept, ConnsOK, BufOK, netVars
<1>4. PcOK' /\ SyncOK'
  BY <1>1, ItemTypes, IndexOK, KeepItem DEF IInv, NoAccept, AtListener, roundVars
<1>5. QED
  BY <1>2, <1>3, <1>4 DEF IInv

\* Accept puts the new connection into the table and its item behind the listener's.
LEMMA AcceptStep == IInv /\ Accept => IInv'
<1> SUFFICES ASSUME IInv, Accept PROVE IInv'
  OBVIOUS
<1> DEFINE c    == Head(backlog)
           conn == NewConn(c, IdentOf[c])
<1>1. c \in Clients /\ Tail(backlog) \in Seq(Clients)
  BY HeadTailProperties DEF IInv, TypeOK, Accept, CanAccept
<1>2. conn \in LiveConn
  BY <1>1, ConstAssumption, EmptySeq DEF NewConn, LiveConn, Conn
<1> HIDE DEF c
<1>3. PICK fd \in Fds \ Keys(httpConns) :
        httpConns' = [httpConns EXCEPT ![fd] = conn] /\ Merge(<<listenItem, connItem(fd, conn)>>)
  BY DEF Accept, AcceptItems, c
<1> HIDE DEF conn
<1>4. connItem(fd, conn) \in PollItem /\ connItem(fd, conn).fd = fd /\ listenItem \in PollItem
  BY <1>2, ItemTypes
<1>5. /\ httpConns' \in [Fds -> Conn] /\ ConnsOK'
      /\ Keys(httpConns') = Keys(httpConns) \cup {fd}
  BY <1>2, <1>3, ConnsUpdate DEF IInv
<1>6. ptmp' \in Seq(PollItem) /\ i' \in Nat \ {0} /\ pc' = "item"
  <2>1. <<listenItem, connItem(fd, conn)>> \in Seq(PollItem)
    BY <1>4
  <2>2. QED
    BY <1>3, <2>1, MergeType DEF IInv
<1>7. TypeOK' /\ BufOK'
  BY <1>1, <1>5, <1>6 DEF IInv, TypeOK, BufOK, Accept, roundVars, appVars, c
<1>8. SyncOK'
  <2>1. pitem \in Seq(PollItem) /\ ptmp \in Seq(PollItem) /\ i \in 1 .. Len(pitem)
    BY IndexOK DEF IInv, TypeOK, Accept, AtAccept, AtListener
  <2>2. Sync(ptmp, pitem, i, Keys(httpConns)) /\ Keys(httpConns) \in SUBSET Fds /\ pitem[i].fd = Listener
    BY DEF IInv, SyncOK, Accept, AtAccept, AtListener, isListener, Item, Keys
  <2>3. Sync(ptmp \o <<listenItem, connItem(fd, conn)>>, pitem, i + 1, Keys(httpConns) \cup {fd})
    BY <1>4, <2>1, <2>2, MergeAccept
  <2>4. QED
    BY <1>3, <1>5, <2>3 DEF SyncOK, Merge, Accept, roundVars
<1>9. QED
  BY <1>5, <1>6, <1>7, <1>8 DEF IInv, PcOK

\* AcceptThrows drops the listener, which is not in the table of connections.
LEMMA AcceptThrowsStep == IInv /\ AcceptThrows => IInv'
<1> SUFFICES ASSUME IInv, AcceptThrows PROVE IInv'
  OBVIOUS
<1>1. Head(backlog) \in Clients /\ Tail(backlog) \in Seq(Clients)
  BY HeadTailProperties DEF IInv, TypeOK, AcceptThrows, CanAccept
<1>2. ptmp' \in Seq(PollItem) /\ i' \in Nat \ {0} /\ pc' = "item"
  BY EmptySeq, MergeType DEF IInv, AcceptThrows
<1>3. TypeOK'
  BY <1>1, <1>2, EmptySeq DEF IInv, TypeOK, AcceptThrows, roundVars, appVars
<1>4. ConnsOK' /\ BufOK'
  BY DEF IInv, AcceptThrows, ConnsOK, BufOK
<1>5. PcOK' /\ SyncOK'
  <2>1. Keys(httpConns') = Keys(httpConns) \ {Item.fd}
    BY ConstAssumption DEF AcceptThrows, AtAccept, AtListener, isListener, Keys
  <2>2. QED
    BY <2>1, IndexOK, DropItem DEF IInv, AcceptThrows, AtAccept, AtListener, roundVars
<1>6. QED
  BY <1>3, <1>4, <1>5 DEF IInv

\* onClose(), from the poll events, from read() or from the handler.
LEMMA OnCloseStep ==
    ASSUME IInv, pc # "crashed", i \in 1 .. Len(pitem), ~isListener(Item), NEW unread, OnClose(unread),
           UNCHANGED <<roundVars, hadData, mailbox, appq>>,
           req' \in Request \cup {Null}, dispatched' \in Seq(Request)
    PROVE  IInv'
<1>1. Item.fd \in Fds /\ CurrClient \in Clients
  BY CurrLemma DEF IInv
<1>2. /\ httpConns' \in [Fds -> Conn] /\ ConnsOK'
      /\ Keys(httpConns') = Keys(httpConns) \ {Item.fd}
  BY <1>1, ConnsUpdate DEF IInv, OnClose
<1>3. ptmp' \in Seq(PollItem) /\ i' \in Nat \ {0} /\ pc' = "item"
  BY EmptySeq, MergeType DEF IInv, OnClose
<1>4. /\ closed' \in SUBSET Clients /\ inq' \in [Clients -> Seq(Token)]
      /\ UNCHANGED peerVars
  BY <1>1, EmptySeq DEF IInv, TypeOK, OnClose, CloseSocket
<1>5. inflight' \in [Clients -> Seq(Unit)] /\ BufOK'
  <2>1. CASE inflight' = inflight
    BY <2>1 DEF IInv, TypeOK, BufOK
  <2>2. CASE inflight' = [inflight EXCEPT ![CurrClient] = <<>>]
    <3>1. <<>> \in Seq(Unit) /\ Len(<<>>) <= SndBuf
      BY EmptySeq, ConstAssumption
    <3>2. inflight' \in [Clients -> Seq(Unit)]
      BY <2>2, <3>1 DEF IInv, TypeOK
    <3>3. \A c \in Clients : inflight'[c] = inflight[c] \/ inflight'[c] = <<>>
      BY <2>2 DEF IInv, TypeOK
    <3>4. QED
      BY <3>1, <3>2, <3>3 DEF IInv, BufOK
  <2>3. QED
    BY <2>1, <2>2 DEF OnClose, CloseSocket
<1>6. TypeOK'
  BY <1>2, <1>3, <1>4, <1>5 DEF IInv, TypeOK, roundVars, peerVars
<1>7. PcOK' /\ SyncOK'
  BY <1>2, DropItem DEF IInv, OnClose, roundVars
<1>8. QED
  BY <1>2, <1>5, <1>6, <1>7 DEF IInv

\* CloseConn closes the connection at hand.
LEMMA CloseConnStep == IInv /\ CloseConn => IInv'
<1> SUFFICES ASSUME IInv, CloseConn PROVE IInv'
  OBVIOUS
<1>1. req' \in Request \cup {Null} /\ dispatched' \in Seq(Request)
  BY DEF IInv, TypeOK, CloseConn, appVars
<1>2. QED
  BY <1>1, IndexOK, OnCloseStep DEF IInv, CloseConn, AtConn, appVars

\* ReadEOF closes the connection at hand.
LEMMA ReadEOFStep == IInv /\ ReadEOF => IInv'
<1> SUFFICES ASSUME IInv, ReadEOF PROVE IInv'
  OBVIOUS
<1>1. req' \in Request \cup {Null} /\ dispatched' \in Seq(Request)
  BY DEF IInv, TypeOK, ReadEOF, appVars
<1>2. QED
  BY <1>1, IndexOK, OnCloseStep DEF IInv, ReadEOF, Readable, Served, AtConn, appVars

\* ReadException closes the connection at hand.
LEMMA ReadExceptionStep == IInv /\ ReadException => IInv'
<1> SUFFICES ASSUME IInv, ReadException PROVE IInv'
  OBVIOUS
<1>1. req' \in Request \cup {Null} /\ dispatched' \in Seq(Request)
  BY DEF IInv, TypeOK, ReadException, appVars
<1>2. QED
  BY <1>1, IndexOK, OnCloseStep DEF IInv, ReadException, HasInput, Readable, Served, AtConn, appVars

\* SkipRead only moves the loop to the write check.
LEMMA SkipReadStep == IInv /\ SkipRead => IInv'
<1> SUFFICES ASSUME IInv, SkipRead PROVE IInv'
  OBVIOUS
<1>1. TypeOK' /\ ConnsOK' /\ BufOK'
  BY DEF IInv, TypeOK, ConnsOK, BufOK, SkipRead, roundVars, appVars, netVars, peerVars
<1>2. PcOK'
  BY IndexOK DEF IInv, PcOK, SkipRead, Served, AtConn, roundVars, Item
<1>3. SyncOK'
  BY DEF IInv, SyncOK, SkipRead, Served, AtConn, roundVars
<1>4. QED
  BY <1>1, <1>2, <1>3 DEF IInv

\* What read() makes of the input of the connection at hand.
LEMMA ReadInputType ==
    ASSUME IInv, HasInput
    PROVE  /\ ReadInput \in ReadResults /\ i \in 1 .. Len(pitem) /\ ~isListener(Item)
           /\ Item.fd \in Fds /\ Item.fd \in Keys(httpConns) /\ CurrClient \in Clients
<1>1. pc = "item" /\ i \in 1 .. Len(pitem) /\ ~isListener(Item)
  BY IndexOK DEF IInv, HasInput, Readable, Served, AtConn
<1>2. Item.fd \in Fds /\ Item.fd \in Keys(httpConns) /\ CurrConn \in LiveConn /\ CurrClient \in Clients
  BY <1>1, CurrLemma DEF IInv
<1>3. inq[CurrClient] \in Seq(Token) /\ inq[CurrClient] # <<>>
  BY <1>2 DEF IInv, TypeOK, HasInput
<1>4. QED
  BY <1>1, <1>2, <1>3, ReadType DEF ReadInput

\* ReadError ends the server; nothing is claimed of its lists any more.
LEMMA ReadErrorStep == IInv /\ ReadError => IInv'
<1> SUFFICES ASSUME IInv, ReadError PROVE IInv'
  OBVIOUS
<1>1. CurrClient \in Clients
  BY ReadInputType DEF ReadError
<1>2. inq' \in [Clients -> Seq(Token)]
  BY <1>1, EmptySeq DEF IInv, TypeOK, ReadError, Consume
<1>3. TypeOK' /\ ConnsOK' /\ BufOK'
  BY <1>2 DEF IInv, TypeOK, ConnsOK, BufOK, ReadError, roundVars, appVars, peerVars
<1>4. PcOK' /\ SyncOK'
  BY DEF PcOK, SyncOK, ReadError
<1>5. QED
  BY <1>3, <1>4 DEF IInv

\* ReadData puts back the connection that read() leaves, and comes to the
\* dispatch only with a request.
LEMMA ReadDataStep == IInv /\ ReadData => IInv'
<1> SUFFICES ASSUME IInv, ReadData PROVE IInv'
  OBVIOUS
<1>1. /\ ReadInput \in ReadResults /\ i \in 1 .. Len(pitem) /\ ~isListener(Item)
      /\ Item.fd \in Fds /\ Item.fd \in Keys(httpConns) /\ CurrClient \in Clients
  BY ReadInputType DEF ReadData
<1>2. ReadInput.conn \in LiveConn /\ ReadInput.req \in Request \cup {Null}
  BY <1>1 DEF ReadResults
<1>3. /\ httpConns' = [httpConns EXCEPT ![Item.fd] = ReadInput.conn]
      /\ req' = ReadInput.req
      /\ pc' = IF ReadInput.req = Null THEN "write" ELSE "dispatch"
      /\ pc = "item"
  BY DEF ReadData, HasInput, Readable, Served, AtConn
<1>4. httpConns' \in [Fds -> Conn] /\ ConnsOK' /\ Keys(httpConns') = Keys(httpConns)
  <2>1. httpConns' \in [Fds -> Conn] /\ ConnsOK' /\ Keys(httpConns') = Keys(httpConns) \cup {Item.fd}
    BY <1>1, <1>2, <1>3, ConnsUpdate DEF IInv
  <2>2. QED
    BY <1>1, <2>1
<1>5. inq' \in [Clients -> Seq(Token)]
  BY <1>1, EmptySeq DEF IInv, TypeOK, ReadData, Consume
<1>6. TypeOK' /\ BufOK'
  BY <1>2, <1>3, <1>4, <1>5 DEF IInv, TypeOK, BufOK, ReadData, roundVars, appVars, peerVars
<1>7. PcOK'
  BY <1>1, <1>3 DEF PcOK, ReadData, roundVars, Item
<1>8. SyncOK'
  BY <1>3, <1>4 DEF IInv, SyncOK, ReadData, roundVars
<1>9. QED
  BY <1>4, <1>6, <1>7, <1>8 DEF IInv

\* The request to dispatch, and the connection at hand.
LEMMA AtDispatch ==
    ASSUME IInv, pc = "dispatch", Dispatched
    PROVE  /\ req \in Request /\ i \in 1 .. Len(pitem) /\ ~isListener(Item)
           /\ req' \in Request \cup {Null} /\ dispatched' \in Seq(Request)
<1>1. req \in Request
  BY DEF IInv, TypeOK, PcOK
<1>2. QED
  BY <1>1, AppendProperties DEF IInv, TypeOK, PcOK, Dispatched

\* The responses of a handler.
LEMMA ReplyType ==
    ASSUME NEW request \in Request, NEW outcome
    PROVE  Reply(request, outcome) \in Response /\ ErrorReply(request) \in Response
<1>1. <<>> \in Seq({"keep", "close"}) /\ <<"close">> \in Seq({"keep", "close"})
  BY EmptySeq
<1>2. Reply(request, outcome) \in Response
  BY <1>1, GetResponseType DEF Reply
<1>3. request.connection \in Idents /\ request.head \in Seq(Token) /\ request.head # <<>>
  BY DEF Request
<1>4. Len(request.head) \in Nat \ {0}
  BY <1>3, EmptySeq
<1>5. request.head[1] \in Token
  BY <1>3, <1>4, ElementOfSeq
<1>6. ErrorReply(request) \in Response
  BY <1>1, <1>3, <1>5 DEF ErrorReply, Response, Token
<1>7. QED
  BY <1>2, <1>6

\* A response given to a connection of the table.
LEMMA AddStep ==
    ASSUME IInv, NEW resp \in Response, NEW fd \in Keys(httpConns),
           httpConns' = [httpConns EXCEPT ![fd] = add(httpConns[fd], resp)]
    PROVE  httpConns' \in [Fds -> Conn] /\ ConnsOK' /\ Keys(httpConns') = Keys(httpConns)
<1>1. fd \in Fds /\ httpConns[fd] \in LiveConn
  BY DEF IInv, ConnsOK, Keys, AbsentConn
<1>2. add(httpConns[fd], resp) \in LiveConn
  BY <1>1, AddType
<1>3. httpConns' \in [Fds -> Conn] /\ ConnsOK' /\ Keys(httpConns') = Keys(httpConns) \cup {fd}
  BY <1>1, <1>2, ConnsUpdate DEF IInv
<1>4. QED
  BY <1>3

\* DispatchReply gives the response to a connection that is in the table.
LEMMA DispatchReplyStep == IInv /\ DispatchReply => IInv'
<1> SUFFICES ASSUME IInv, DispatchReply PROVE IInv'
  OBVIOUS
<1>1. /\ req \in Request /\ i \in 1 .. Len(pitem) /\ ~isListener(Item)
      /\ req' \in Request \cup {Null} /\ dispatched' \in Seq(Request)
  BY AtDispatch DEF DispatchReply
<1>2. httpConns' \in [Fds -> Conn] /\ ConnsOK' /\ Keys(httpConns') = Keys(httpConns)
  <2>1. PICK outcome \in Outcomes :
           \E fd \in Targets(httpConns, Reply(req, outcome)) :
              httpConns' = [httpConns EXCEPT ![fd] = add(httpConns[fd], Reply(req, outcome))]
    BY DEF DispatchReply
  <2>2. PICK fd \in Keys(httpConns) :
           httpConns' = [httpConns EXCEPT ![fd] = add(httpConns[fd], Reply(req, outcome))]
    BY <2>1 DEF Targets
  <2>3. Reply(req, outcome) \in Response
    BY <1>1, ReplyType
  <2>4. QED
    BY <2>2, <2>3, AddStep
<1>3. TypeOK' /\ BufOK'
  BY <1>1, <1>2 DEF IInv, TypeOK, BufOK, DispatchReply, roundVars, netVars, peerVars
<1>4. PcOK'
  BY <1>1 DEF PcOK, DispatchReply, roundVars, Item
<1>5. SyncOK'
  BY <1>2 DEF IInv, SyncOK, DispatchReply, roundVars
<1>6. QED
  BY <1>2, <1>3, <1>4, <1>5 DEF IInv

\* DispatchNull leaves the connections alone.
LEMMA DispatchNullStep == IInv /\ DispatchNull => IInv'
<1> SUFFICES ASSUME IInv, DispatchNull PROVE IInv'
  OBVIOUS
<1>1. /\ i \in 1 .. Len(pitem) /\ ~isListener(Item)
      /\ req' \in Request \cup {Null} /\ dispatched' \in Seq(Request)
  BY AtDispatch DEF DispatchNull
<1>2. TypeOK' /\ ConnsOK' /\ BufOK'
  BY <1>1 DEF IInv, TypeOK, ConnsOK, BufOK, DispatchNull, roundVars, netVars, peerVars
<1>3. PcOK'
  BY <1>1 DEF PcOK, DispatchNull, roundVars, Item
<1>4. SyncOK'
  BY DEF IInv, SyncOK, DispatchNull, roundVars
<1>5. QED
  BY <1>2, <1>3, <1>4 DEF IInv

\* DispatchHttpException gives the error response to the connection at hand
\* and keeps its item.
LEMMA DispatchHttpExceptionStep == IInv /\ DispatchHttpException => IInv'
<1> SUFFICES ASSUME IInv, DispatchHttpException PROVE IInv'
  OBVIOUS
<1> DEFINE conn == add(CurrConn, ErrorReply(req))
<1>1. /\ req \in Request /\ i \in 1 .. Len(pitem) /\ ~isListener(Item)
      /\ req' \in Request \cup {Null} /\ dispatched' \in Seq(Request)
  BY AtDispatch DEF DispatchHttpException
<1>2. Item.fd \in Fds /\ Item.fd \in Keys(httpConns) /\ CurrConn \in LiveConn
  BY <1>1, CurrLemma DEF IInv, DispatchHttpException
<1>3. ErrorReply(req) \in Response
  BY <1>1, ReplyType
<1>4. conn \in LiveConn
  BY <1>2, <1>3, AddType
<1>5. httpConns' = [httpConns EXCEPT ![Item.fd] = conn] /\ Merge(<<connItem(Item.fd, conn)>>)
  BY DEF DispatchHttpException
<1> HIDE DEF conn
<1>6. connItem(Item.fd, conn) \in PollItem /\ connItem(Item.fd, conn).fd = Item.fd
  BY <1>2, <1>4, ItemTypes
<1>7. httpConns' \in [Fds -> Conn] /\ ConnsOK' /\ Keys(httpConns') = Keys(httpConns)
  BY <1>2, <1>3, <1>5, AddStep DEF CurrConn, conn
<1>8. ptmp' \in Seq(PollItem) /\ i' \in Nat \ {0} /\ pc' = "item"
  <2>1. <<connItem(Item.fd, conn)>> \in Seq(PollItem)
    BY <1>6
  <2>2. QED
    BY <1>5, <2>1, MergeType DEF IInv
<1>9. TypeOK' /\ BufOK'
  BY <1>1, <1>7, <1>8 DEF IInv, TypeOK, BufOK, DispatchHttpException, roundVars, netVars, peerVars
<1>10. PcOK' /\ SyncOK'
  BY <1>1, <1>5, <1>6, <1>7, KeepItem DEF IInv, DispatchHttpException, roundVars
<1>11. QED
  BY <1>7, <1>9, <1>10 DEF IInv

\* DispatchException closes the connection at hand.
LEMMA DispatchExceptionStep == IInv /\ DispatchException => IInv'
<1> SUFFICES ASSUME IInv, DispatchException PROVE IInv'
  OBVIOUS
<1>1. /\ i \in 1 .. Len(pitem) /\ ~isListener(Item)
      /\ req' \in Request \cup {Null} /\ dispatched' \in Seq(Request)
  BY AtDispatch DEF DispatchException
<1>2. QED
  BY <1>1, OnCloseStep DEF DispatchException

\* DispatchSend gives the request to the application thread.
LEMMA DispatchSendStep == IInv /\ DispatchSend => IInv'
<1> SUFFICES ASSUME IInv, DispatchSend PROVE IInv'
  OBVIOUS
<1>1. /\ req \in Request /\ i \in 1 .. Len(pitem) /\ ~isListener(Item)
      /\ req' \in Request \cup {Null} /\ dispatched' \in Seq(Request)
  BY AtDispatch DEF DispatchSend
<1>2. appq' \in Seq(Request)
  BY <1>1, AppendProperties DEF IInv, TypeOK, DispatchSend
<1>3. TypeOK' /\ ConnsOK' /\ BufOK'
  BY <1>1, <1>2 DEF IInv, TypeOK, ConnsOK, BufOK, DispatchSend, roundVars, netVars, peerVars
<1>4. PcOK'
  BY <1>1 DEF PcOK, DispatchSend, roundVars, Item
<1>5. SyncOK'
  BY DEF IInv, SyncOK, DispatchSend, roundVars
<1>6. QED
  BY <1>3, <1>4, <1>5 DEF IInv

\* SkipWrite keeps the item of the connection at hand.
LEMMA SkipWriteStep == IInv /\ SkipWrite => IInv'
<1> SUFFICES ASSUME IInv, SkipWrite PROVE IInv'
  OBVIOUS
<1>1. i \in 1 .. Len(pitem) /\ ~isListener(Item)
  BY DEF IInv, PcOK, SkipWrite
<1>2. Item.fd \in Fds /\ CurrConn \in LiveConn
  BY <1>1, CurrLemma DEF IInv, SkipWrite
<1>3. connItem(Item.fd, CurrConn) \in PollItem /\ connItem(Item.fd, CurrConn).fd = Item.fd
  BY <1>2, ItemTypes
<1>4. ptmp' \in Seq(PollItem) /\ i' \in Nat \ {0} /\ pc' = "item"
  <2>1. <<connItem(Item.fd, CurrConn)>> \in Seq(PollItem)
    BY <1>3
  <2>2. QED
    BY <2>1, MergeType DEF IInv, SkipWrite
<1>5. TypeOK' /\ ConnsOK' /\ BufOK'
  BY <1>4 DEF IInv, TypeOK, ConnsOK, BufOK, SkipWrite, roundVars, appVars, netVars, peerVars
<1>6. PcOK' /\ SyncOK'
  BY <1>1, <1>3, KeepItem DEF IInv, SkipWrite, roundVars
<1>7. QED
  BY <1>5, <1>6 DEF IInv

\* Write never puts more into the send buffer than there is room for, and keeps
\* the item of the connection at hand.
LEMMA WriteStep == IInv /\ Write => IInv'
<1> SUFFICES ASSUME IInv, Write PROVE IInv'
  OBVIOUS
<1> DEFINE len  == Len(CurrConn.writeBuf)
           num  == IF len < Room(CurrClient) THEN len ELSE Room(CurrClient)
           conn == write(CurrConn, num)
           out  == SubSeq(CurrConn.writeBuf, 1, num)
<1>1. i \in 1 .. Len(pitem) /\ ~isListener(Item)
  BY DEF IInv, PcOK, Write
<1>2. Item.fd \in Fds /\ Item.fd \in Keys(httpConns) /\ CurrConn \in LiveConn /\ CurrClient \in Clients
  BY <1>1, CurrLemma DEF IInv, Write
<1>3. CurrConn.writeBuf \in Seq(Unit) /\ len \in Nat
  BY <1>2, LenProperties DEF LiveConn, Conn
<1>4. inflight[CurrClient] \in Seq(Unit) /\ Len(inflight[CurrClient]) \in Nat /\ Room(CurrClient) \in Nat
  <2>1. inflight[CurrClient] \in Seq(Unit) /\ Len(inflight[CurrClient]) <= SndBuf
    BY <1>2 DEF IInv, TypeOK, BufOK
  <2>2. QED
    BY <2>1, LenProperties, ConstAssumption DEF Room
<1>5. num \in 0 .. len /\ num <= Room(CurrClient)
  BY <1>3, <1>4
<1>6. conn \in LiveConn
  BY <1>2, <1>5, WriteType
<1>7. /\ httpConns' = [httpConns EXCEPT ![Item.fd] = conn]
      /\ Merge(<<connItem(Item.fd, conn)>>)
      /\ inflight' = [inflight EXCEPT ![CurrClient] = inflight[CurrClient] \o out]
  BY DEF Write
<1>8. out \in Seq(Unit) /\ Len(out) = num
  <2>1. \A n \in 1 .. num : CurrConn.writeBuf[n] \in Unit
    BY <1>3, <1>5, ElementOfSeq
  <2> HIDE DEF num
  <2>2. QED
    BY <1>3, <1>5, <2>1, SubSeqProperties
<1> HIDE DEF conn, num, len, out
<1>9. connItem(Item.fd, conn) \in PollItem /\ connItem(Item.fd, conn).fd = Item.fd
  BY <1>2, <1>6, ItemTypes
<1>10. httpConns' \in [Fds -> Conn] /\ ConnsOK' /\ Keys(httpConns') = Keys(httpConns)
  <2>1. httpConns' \in [Fds -> Conn] /\ ConnsOK' /\ Keys(httpConns') = Keys(httpConns) \cup {Item.fd}
    BY <1>2, <1>6, <1>7, ConnsUpdate DEF IInv
  <2>2. QED
    BY <1>2, <2>1
<1>11. ptmp' \in Seq(PollItem) /\ i' \in Nat \ {0} /\ pc' = "item"
  <2>1. <<connItem(Item.fd, conn)>> \in Seq(PollItem)
    BY <1>9
  <2>2. QED
    BY <1>7, <2>1, MergeType DEF IInv
<1>12. inflight' \in [Clients -> Seq(Unit)] /\ BufOK'
  <2>1. /\ inflight[CurrClient] \o out \in Seq(Unit)
        /\ Len(inflight[CurrClient] \o out) = Len(inflight[CurrClient]) + num
    BY <1>4, <1>8, ConcatProperties
  <2>2. Len(inflight[CurrClient]) + num <= SndBuf
    BY <1>3, <1>4, <1>5, ConstAssumption DEF Room
  <2>3. inflight' \in [Clients -> Seq(Unit)]
    BY <1>7, <2>1 DEF IInv, TypeOK
  <2>4. \A c \in Clients : inflight'[c] = inflight[c] \/ inflight'[c] = inflight[CurrClient] \o out
    BY <1>7 DEF IInv, TypeOK
  <2>5. QED
    BY <2>1, <2>2, <2>3, <2>4 DEF IInv, BufOK
<1>13. TypeOK'
  BY <1>10, <1>11, <1>12 DEF IInv, TypeOK, Write, roundVars, appVars, peerVars
<1>14. PcOK' /\ SyncOK'
  BY <1>1, <1>7, <1>9, <1>10, KeepItem DEF IInv, Write, roundVars
<1>15. QED
  BY <1>10, <1>12, <1>13, <1>14 DEF IInv

\* WriteError ends the server.
LEMMA WriteErrorStep == IInv /\ WriteError => IInv'
<1> SUFFICES ASSUME IInv, WriteError PROVE IInv'
  OBVIOUS
<1>1. TypeOK' /\ ConnsOK' /\ BufOK'
  BY DEF IInv, TypeOK, ConnsOK, BufOK, WriteError, roundVars, appVars, netVars, peerVars
<1>2. PcOK' /\ SyncOK'
  BY DEF PcOK, SyncOK, WriteError
<1>3. QED
  BY <1>1, <1>2 DEF IInv

\* EndRound makes the list that was built the one to be polled.
LEMMA EndRoundStep == IInv /\ EndRound => IInv'
<1> SUFFICES ASSUME IInv, EndRound PROVE IInv'
  OBVIOUS
<1>1. ptmp \in Seq(PollItem) /\ pitem \in Seq(PollItem) /\ i \in Nat /\ i > Len(pitem) /\ Len(ptmp) \in Nat
  BY LenProperties DEF IInv, TypeOK, EndRound
<1>2. TypeOK' /\ ConnsOK' /\ BufOK'
  BY <1>1, EmptySeq
  DEF IInv, TypeOK, ConnsOK, BufOK, EndRound, ConnCount, appVars, netVars, peerVars
<1>3. PcOK'
  BY DEF PcOK, EndRound
<1>4. Sync(ptmp, pitem, i, Keys(httpConns))
  BY DEF IInv, SyncOK, EndRound
<1>5. Sync(<<>>, ptmp, 1, Keys(httpConns))
  BY <1>1, <1>4, MergeDone
<1>6. SyncOK'
  BY <1>5 DEF SyncOK, EndRound
<1>7. QED
  BY <1>2, <1>3, <1>6 DEF IInv

\* IdleSync leaves lists and connections alone.
LEMMA IdleSyncStep == IInv /\ IdleSync => IInv'
<1> SUFFICES ASSUME IInv, IdleSync PROVE IInv'
  OBVIOUS
<1>1. pc' \in {"poll", "done"}
  BY DEF IdleSync, Loop
<1>2. TypeOK' /\ ConnsOK' /\ BufOK'
  BY <1>1 DEF IInv, TypeOK, ConnsOK, BufOK, IdleSync, appVars, netVars, peerVars
<1>3. PcOK' /\ SyncOK'
  BY <1>1 DEF IInv, PcOK, SyncOK, IdleSync
<1>4. QED
  BY <1>2, <1>3 DEF IInv

\* IdleEmpty leaves lists and connections alone.
LEMMA IdleEmptyStep == IInv /\ IdleEmpty => IInv'
<1> SUFFICES ASSUME IInv, IdleEmpty PROVE IInv'
  OBVIOUS
<1>1. pc' \in {"poll", "done"}
  BY DEF IdleEmpty, Loop
<1>2. TypeOK' /\ ConnsOK' /\ BufOK'
  BY <1>1 DEF IInv, TypeOK, ConnsOK, BufOK, IdleEmpty, appVars, netVars, peerVars
<1>3. PcOK' /\ SyncOK'
  BY <1>1 DEF IInv, PcOK, SyncOK, IdleEmpty
<1>4. QED
  BY <1>2, <1>3 DEF IInv

\* IdleShutdown takes the message and leaves lists and connections alone.
LEMMA IdleShutdownStep == IInv /\ IdleShutdown => IInv'
<1> SUFFICES ASSUME IInv, IdleShutdown PROVE IInv'
  OBVIOUS
<1>1. pc' \in {"poll", "done"} /\ running' \in BOOLEAN
  BY DEF IdleShutdown, Loop, StaysUp
<1>2. mailbox' \in Seq(Message)
  BY HeadTailProperties DEF IInv, TypeOK, IdleShutdown
<1>3. TypeOK' /\ ConnsOK' /\ BufOK'
  BY <1>1, <1>2 DEF IInv, TypeOK, ConnsOK, BufOK, IdleShutdown, netVars, peerVars
<1>4. PcOK' /\ SyncOK'
  BY <1>1 DEF IInv, PcOK, SyncOK, IdleShutdown
<1>5. QED
  BY <1>3, <1>4 DEF IInv

\* IdleResponse gives the response to a connection that is in the table, if any.
LEMMA IdleResponseStep == IInv /\ IdleResponse => IInv'
<1> SUFFICES ASSUME IInv, IdleResponse PROVE IInv'
  OBVIOUS
<1> DEFINE resp == Head(mailbox)
<1>1. pc' \in {"poll", "done"}
  BY DEF IdleResponse, Loop
<1>2. mailbox' \in Seq(Message) /\ resp \in Response
  BY HeadTailProperties DEF IInv, TypeOK, IdleResponse, Message
<1> HIDE DEF resp
<1>3. httpConns' \in [Fds -> Conn] /\ ConnsOK' /\ Keys(httpConns') = Keys(httpConns)
  <2>1. \/ \E fd \in Targets(httpConns, resp) :
              httpConns' = [httpConns EXCEPT ![fd] = add(httpConns[fd], resp)]
        \/ httpConns' = httpConns
    BY DEF IdleResponse, resp
  <2>2. CASE httpConns' = httpConns
    BY <2>2 DEF IInv, TypeOK, ConnsOK
  <2>3. CASE \E fd \in Targets(httpConns, resp) :
               httpConns' = [httpConns EXCEPT ![fd] = add(httpConns[fd], resp)]
    <3>1. PICK fd \in Keys(httpConns) :
            httpConns' = [httpConns EXCEPT ![fd] = add(httpConns[fd], resp)]
      BY <2>3 DEF Targets
    <3>2. QED
      BY <1>2, <3>1, AddStep
  <2>4. QED
    BY <2>1, <2>2, <2>3
<1>4. receivedData' \in BOOLEAN
  BY DEF IdleResponse, Found
<1>5. TypeOK' /\ BufOK'
  BY <1>1, <1>2, <1>3, <1>4 DEF IInv, TypeOK, BufOK, IdleResponse, netVars, peerVars
<1>6. PcOK' /\ SyncOK'
  BY <1>1, <1>3 DEF IInv, PcOK, SyncOK, IdleResponse
<1>7. QED
  BY <1>3, <1>5, <1>6 DEF IInv

\* IdleNull ends the server, or goes on where there is no connection.
LEMMA IdleNullStep == IInv /\ IdleNull => IInv'
<1> SUFFICES ASSUME IInv, IdleNull PROVE IInv'
  OBVIOUS
<1>1. /\ mailbox' \in Seq(Message) /\ running \in BOOLEAN
      /\ (pc' = "crashed" /\ receivedData' = receivedData) \/ (Loop(running) /\ receivedData' = FALSE)
      /\ UNCHANGED <<req, running, pitem, ptmp, i, httpConns, hadData, numConns, appq, dispatched, netVars>>
  <2>1. mailbox' \in Seq(Message) /\ running \in BOOLEAN
    <3>1. mailbox \in Seq(Message) /\ running \in BOOLEAN
      BY DEF IInv, TypeOK
    <3>2. mailbox # <<>> /\ mailbox' = Tail(mailbox)
      BY DEF IdleNull
    <3> QED
      BY <3>1, <3>2, HeadTailProperties
  <2>2. (pc' = "crashed" /\ receivedData' = receivedData) \/ (Loop(running) /\ receivedData' = FALSE)
    BY DEF IdleNull
  <2> QED
    BY <2>1, <2>2 DEF IdleNull
<1>2. pc' \in {"crashed", "poll", "done"} /\ receivedData' \in BOOLEAN
  BY <1>1 DEF Loop, IInv, TypeOK
<1>3. TypeOK' /\ ConnsOK' /\ BufOK'
  BY <1>1, <1>2 DEF IInv, TypeOK, ConnsOK, BufOK, netVars, peerVars
<1>4. PcOK' /\ SyncOK'
  BY <1>1 DEF IInv, PcOK, SyncOK, Loop, IdleNull
<1>5. QED
  BY <1>3, <1>4 DEF IInv

-----------------------------------------------------------------------------
(* The clients and the application. *)

\* A step that leaves the loop alone keeps the place of the loop and the
\* agreement of its lists.
LEMMA LoopUntouched ==
    ASSUME IInv, UNCHANGED loopVars
    PROVE  ConnsOK' /\ PcOK' /\ SyncOK'
  BY DEF IInv, ConnsOK, PcOK, SyncOK, Item, loopVars, stepVars, roundVars

\* Nothing in flight, or what was there before.
LEMMA InflightEmptied ==
    ASSUME IInv, NEW c \in Clients, inflight' = [inflight EXCEPT ![c] = <<>>]
    PROVE  inflight' \in [Clients -> Seq(Unit)] /\ BufOK'
<1>1. <<>> \in Seq(Unit) /\ Len(<<>>) <= SndBuf
  BY EmptySeq, ConstAssumption
<1>2. inflight' \in [Clients -> Seq(Unit)]
  BY <1>1 DEF IInv, TypeOK
<1>3. \A e \in Clients : inflight'[e] = inflight[e] \/ inflight'[e] = <<>>
  BY DEF IInv, TypeOK
<1>4. QED
  BY <1>1, <1>2, <1>3 DEF IInv, BufOK

\* Connect adds a client to the accept queue.
LEMMA ConnectStep == ASSUME NEW c \in Clients PROVE IInv /\ Connect(c) => IInv'
<1> SUFFICES ASSUME IInv, Connect(c) PROVE IInv'
  OBVIOUS
<1>1. backlog' \in Seq(Clients)
  BY AppendProperties DEF IInv, TypeOK, Connect
<1>2. TypeOK' /\ BufOK'
  BY <1>1 DEF IInv, TypeOK, BufOK, Connect, loopVars, stepVars, roundVars, appVars
<1>3. QED
  BY <1>2, LoopUntouched DEF IInv, Connect

\* A segment lies inside the stream.
LEMMA SegmentInStream ==
    ASSUME NEW c \in Clients, sent[c] \in Nat, sent[c] < Len(Stream[c]), NEW n \in SegmentEnds(c)
    PROVE  n \in Nat /\ n <= Len(Stream[c])
<1> DEFINE S == {m \in DOMAIN Stream[c] : Stream[c][m].q = NextReq(c)}
<1>1. Stream[c] \in Seq(Token) /\ Len(Stream[c]) \in Nat /\ DOMAIN Stream[c] = 1 .. Len(Stream[c])
  BY StreamAssumption, LenProperties
<1>2. S \in SUBSET Nat /\ \A m \in S : m <= Len(Stream[c])
  BY <1>1
<1>3. sent[c] + 1 \in S
  BY <1>1 DEF NextReq
<1>4. LastOf(S) \in S
  BY <1>1, <1>2, <1>3, LastOfLemma
<1>5. EndOf(c, NextReq(c)) \in 1 .. Len(Stream[c])
  BY <1>1, <1>4 DEF EndOf
<1>6. n \in sent[c] + 1 .. EndOf(c, NextReq(c)) \/ n = EndOf(c, NextReq(c))
  BY DEF SegmentEnds
<1>7. QED
  BY <1>1, <1>5, <1>6

\* Send moves a segment of the stream into the receive buffer, or is answered by a
\* reset.
LEMMA SendStep == ASSUME NEW c \in Clients PROVE IInv /\ Send(c) => IInv'
<1> SUFFICES ASSUME IInv, Send(c) PROVE IInv'
  OBVIOUS
<1>1. CASE c \notin closed
  <2>1. sent[c] \in Nat /\ inq[c] \in Seq(Token) /\ sent[c] < Len(Stream[c]) /\ Stream[c] \in Seq(Token)
    BY StreamAssumption DEF IInv, TypeOK, Send
  <2>2. PICK n \in SegmentEnds(c) :
          /\ inq' = [inq EXCEPT ![c] = inq[c] \o SubSeq(Stream[c], sent[c] + 1, n)]
          /\ sent' = [sent EXCEPT ![c] = n]
    BY <1>1 DEF Send
  <2>3. n \in Nat /\ n <= Len(Stream[c])
    BY <2>1, SegmentInStream
  <2>4. SubSeq(Stream[c], sent[c] + 1, n) \in Seq(Token)
    <3>1. \A m \in sent[c] + 1 .. n : m \in 1 .. Len(Stream[c])
      BY <2>1, <2>3, LenProperties
    <3>2. \A m \in sent[c] + 1 .. n : Stream[c][m] \in Token
      BY <2>1, <3>1, ElementOfSeq
    <3>3. QED
      BY <2>1, <2>3, <3>2, SubSeqProperties
  <2>5. inq[c] \o SubSeq(Stream[c], sent[c] + 1, n) \in Seq(Token)
    BY <2>1, <2>4, ConcatProperties
  <2>6. inq' \in [Clients -> Seq(Token)] /\ sent' \in [Clients -> Nat]
    BY <2>2, <2>3, <2>5 DEF IInv, TypeOK
  <2>7. TypeOK' /\ BufOK'
    BY <1>1, <2>6 DEF IInv, TypeOK, BufOK, Send, loopVars, stepVars, roundVars, appVars
  <2>8. QED
    BY <2>7, LoopUntouched DEF IInv, Send
<1>2. CASE c \in closed
  <2>1. inflight' \in [Clients -> Seq(Unit)] /\ BufOK'
    BY <1>2, InflightEmptied DEF Send
  <2>2. cli' \in [Clients -> {"new", "open", "fin", "rst"}] /\ UNCHANGED <<inq, sent>>
    BY <1>2 DEF IInv, TypeOK, Send
  <2>3. TypeOK'
    BY <2>1, <2>2 DEF IInv, TypeOK, Send, loopVars, stepVars, roundVars, appVars
  <2>4. QED
    BY <2>1, <2>3, LoopUntouched DEF IInv, Send
<1>3. QED
  BY <1>1, <1>2

\* Fin changes only the client's end.
LEMMA FinStep == ASSUME NEW c \in Clients PROVE IInv /\ Fin(c) => IInv'
<1> SUFFICES ASSUME IInv, Fin(c) PROVE IInv'
  OBVIOUS
<1>1. TypeOK' /\ BufOK'
  BY DEF IInv, TypeOK, BufOK, Fin, loopVars, stepVars, roundVars, appVars
<1>2. QED
  BY <1>1, LoopUntouched DEF IInv, Fin

\* Reset empties what was in flight.
LEMMA ResetStep == ASSUME NEW c \in Clients PROVE IInv /\ Reset(c) => IInv'
<1> SUFFICES ASSUME IInv, Reset(c) PROVE IInv'
  OBVIOUS
<1>1. inflight' \in [Clients -> Seq(Unit)] /\ BufOK'
  BY InflightEmptied DEF Reset
<1>2. TypeOK'
  BY <1>1 DEF IInv, TypeOK, Reset, loopVars, stepVars, roundVars, appVars
<1>3. QED
  BY <1>1, <1>2, LoopUntouched DEF IInv, Reset

\* Drain takes one unit out of the send buffer.
LEMMA DrainStep == ASSUME NEW c \in Clients PROVE IInv /\ Drain(c) => IInv'
<1> SUFFICES ASSUME IInv, Drain(c) PROVE IInv'
  OBVIOUS
<1>1. /\ inflight[c] \in Seq(Unit) /\ inflight[c] # <<>> /\ received[c] \in Seq(Unit)
      /\ Len(inflight[c]) <= SndBuf
  BY DEF IInv, TypeOK, BufOK, Drain
<1>2. /\ Head(inflight[c]) \in Unit /\ Tail(inflight[c]) \in Seq(Unit)
      /\ Len(Tail(inflight[c])) <= SndBuf
  BY <1>1, HeadTailProperties, LenProperties, ConstAssumption
<1>3. Append(received[c], Head(inflight[c])) \in Seq(Unit)
  BY <1>1, <1>2, AppendProperties
<1>4. inflight' \in [Clients -> Seq(Unit)] /\ received' \in [Clients -> Seq(Unit)]
  BY <1>2, <1>3 DEF IInv, TypeOK, Drain
<1>5. \A e \in Clients : inflight'[e] = inflight[e] \/ inflight'[e] = Tail(inflight[c])
  BY DEF IInv, TypeOK, Drain
<1>6. BufOK'
  BY <1>2, <1>5 DEF IInv, BufOK
<1>7. TypeOK'
  BY <1>4 DEF IInv, TypeOK, Drain, loopVars, stepVars, roundVars, appVars
<1>8. QED
  BY <1>6, <1>7, LoopUntouched DEF IInv, Drain

\* Handle turns a request into at most one message.
LEMMA HandleStep == IInv /\ Handle => IInv'
<1> SUFFICES ASSUME IInv, Handle PROVE IInv'
  OBVIOUS
<1>1. PICK n \in DOMAIN appq, outcome \in Outcomes :
        /\ appq' = RemoveAt(appq, n)
        /\ \/ mailbox' = Append(mailbox, Reply(appq[n], outcome))
           \/ mailbox' = Append(mailbox, Null)
           \/ mailbox' = mailbox
  BY DEF Handle
<1>2. appq \in Seq(Request) /\ Len(appq) \in Nat /\ n \in 1 .. Len(appq)
  BY LenProperties DEF IInv, TypeOK
<1>3. appq[n] \in Request
  BY <1>2, ElementOfSeq
<1>4. appq' \in Seq(Request)
  <2>1. /\ \A m \in 1 .. n - 1 : appq[m] \in Request
        /\ \A m \in n + 1 .. Len(appq) : appq[m] \in Request
    BY <1>2, ElementOfSeq
  <2>2. SubSeq(appq, 1, n - 1) \in Seq(Request) /\ SubSeq(appq, n + 1, Len(appq)) \in Seq(Request)
    BY <1>2, <2>1, SubSeqProperties
  <2>3. QED
    BY <1>1, <2>2, ConcatProperties DEF RemoveAt
<1>5. mailbox' \in Seq(Message)
  <2>1. Reply(appq[n], outcome) \in Message /\ Null \in Message
    BY <1>3, ReplyType DEF Message
  <2>2. mailbox \in Seq(Message)
    BY DEF IInv, TypeOK
  <2>3. /\ Append(mailbox, Reply(appq[n], outcome)) \in Seq(Message)
        /\ Append(mailbox, Null) \in Seq(Message)
    BY <2>1, <2>2, AppendProperties
  <2>4. QED
    BY <1>1, <2>2, <2>3
<1>6. TypeOK' /\ BufOK'
  BY <1>4, <1>5 DEF IInv, TypeOK, BufOK, Handle, loopVars, stepVars, roundVars, netVars, peerVars
<1>7. QED
  BY <1>6, LoopUntouched DEF IInv, Handle

\* SendShutdown adds the message 1.
LEMMA SendShutdownStep == IInv /\ SendShutdown => IInv'
<1> SUFFICES ASSUME IInv, SendShutdown PROVE IInv'
  OBVIOUS
<1>1. mailbox' \in Seq(Message)
  <2>1. Shutdown \in Message /\ mailbox \in Seq(Message)
    BY DEF IInv, TypeOK, Message
  <2>2. QED
    BY <2>1, AppendProperties DEF SendShutdown
<1>2. TypeOK' /\ BufOK'
  BY <1>1 DEF IInv, TypeOK, BufOK, SendShutdown, loopVars, stepVars, roundVars, netVars, peerVars
<1>3. QED
  BY <1>2, LoopUntouched DEF IInv, SendShutdown

-----------------------------------------------------------------------------
(* The theorems *)

\* The loop starts with the listener alone in the list and an empty table.
LEMMA InitStep == Init => IInv
<1> SUFFICES ASSUME Init PROVE IInv
  OBVIOUS
<1>1. <<listenItem>> \in Seq(PollItem) /\ Len(<<listenItem>>) = 1 /\ listenItem.fd \notin Fds
  BY ItemTypes, ConstAssumption DEF listenItem
<1>2. AbsentConn \in Conn
  <2>1. <<>> \in Seq(Token) /\ <<>> \in Seq(Unit)
    BY EmptySeq
  <2>2. QED
    BY <2>1 DEF AbsentConn, Conn
<1>3. TypeOK
  <2>1. /\ <<>> \in Seq(Token) /\ <<>> \in Seq(Unit) /\ <<>> \in Seq(PollItem)
        /\ <<>> \in Seq(Message) /\ <<>> \in Seq(Request) /\ <<>> \in Seq(Clients)
    BY EmptySeq
  <2>2. /\ pc = "poll" /\ running \in BOOLEAN /\ receivedData \in BOOLEAN /\ hadData \in BOOLEAN
        /\ pitem \in Seq(PollItem) /\ ptmp \in Seq(PollItem) /\ i \in Nat \ {0}
        /\ req = Null /\ httpConns \in [Fds -> Conn] /\ numConns \in Int
    <3>1. httpConns \in [Fds -> Conn]
      BY <1>2 DEF Init
    <3>2. running \in BOOLEAN /\ receivedData \in BOOLEAN /\ hadData \in BOOLEAN
      BY Zenon DEF Init
    <3>3. i \in Nat \ {0} /\ numConns \in Int
      BY DEF Init
    <3>4. QED
      BY <1>1, <2>1, <3>1, <3>2, <3>3 DEF Init
  <2>3. /\ mailbox \in Seq(Message) /\ appq \in Seq(Request) /\ dispatched \in Seq(Request)
        /\ backlog \in Seq(Clients) /\ closed \in SUBSET Clients
        /\ cli \in [Clients -> {"new", "open", "fin", "rst"}] /\ sent \in [Clients -> Nat]
        /\ inq \in [Clients -> Seq(Token)] /\ inflight \in [Clients -> Seq(Unit)]
        /\ received \in [Clients -> Seq(Unit)]
    BY <2>1 DEF Init
  <2>4. QED
    BY <2>2, <2>3 DEF TypeOK
<1>4. ConnsOK /\ PcOK
  BY DEF Init, ConnsOK, PcOK
<1>5. BufOK
  <2>1. Len(<<>>) <= SndBuf
    BY ConstAssumption
  <2>2. QED
    BY <2>1 DEF Init, BufOK
<1>6. SyncOK
  <2>1. Keys(httpConns) = {}
    BY DEF Init, Keys, AbsentConn
  <2>2. Len(<<>>) = 0 /\ <<listenItem>>[1] = listenItem /\ 1 .. 0 = {} /\ 1 .. 1 = {1}
    OBVIOUS
  <2>3. Sync(<<>>, <<listenItem>>, 1, {})
    BY <1>1, <2>2 DEF Sync
  <2>4. QED
    BY <2>1, <2>3 DEF Init, SyncOK
<1>7. QED
  BY <1>3, <1>4, <1>5, <1>6 DEF IInv

\* Every step of the system keeps the invariant.
LEMMA NextStep == IInv /\ [Next]_vars => IInv'
<1> SUFFICES ASSUME IInv, [Next]_vars PROVE IInv'
  OBVIOUS
<1>1. CASE Server
  BY <1>1, PollStep, ListenErrorStep, NoAcceptStep, AcceptStep, AcceptThrowsStep, CloseConnStep,
     SkipReadStep, ReadEOFStep, ReadErrorStep, ReadExceptionStep, ReadDataStep, DispatchReplyStep,
     DispatchNullStep, DispatchHttpExceptionStep, DispatchExceptionStep, DispatchSendStep,
     SkipWriteStep, WriteStep, WriteErrorStep, EndRoundStep, IdleSyncStep, IdleEmptyStep,
     IdleShutdownStep, IdleResponseStep, IdleNullStep
  DEF Server
<1>2. CASE Client
  BY <1>2, ConnectStep, SendStep, FinStep, ResetStep, DrainStep DEF Client
<1>3. CASE Handle
  BY <1>3, HandleStep
<1>4. CASE SendShutdown
  BY <1>4, SendShutdownStep
<1>5. CASE UNCHANGED vars
  <2>1. UNCHANGED <<loopVars, mailbox, appq, dispatched, backlog, cli, sent, received, closed, inq, inflight>>
    BY <1>5 DEF vars, appVars, netVars, peerVars
  <2>2. TypeOK' /\ BufOK'
    BY <2>1 DEF IInv, TypeOK, BufOK, loopVars, stepVars, roundVars
  <2>3. QED
    BY <2>1, <2>2, LoopUntouched DEF IInv
<1>6. QED
  BY <1>1, <1>2, <1>3, <1>4, <1>5 DEF Next

\* The inductive invariant holds of every behaviour of the serve loop.
THEOREM Invariance == Spec => []IInv
  BY InitStep, NextStep, PTL DEF Spec

\* Every variable of the loop, the application and the sockets keeps its type:
\* whatever the clients send, in whatever pieces, the table holds connections,
\* the queues requests and responses, and the index of the loop is an index.
THEOREM TypeCorrect == Spec => []TypeOK
<1>1. IInv => TypeOK
  BY DEF IInv
<1>2. QED
  BY <1>1, Invariance, PTL

\* The descriptors of a list and of the rest of another one.
LEMMA ListOfTwo ==
    ASSUME NEW p \in Seq(PollItem), NEW q \in Seq(PollItem), NEW j \in Nat \ {0}, NEW K \in SUBSET Fds,
           Sync(p, q, j, K)
    PROVE  LET r == p \o SubSeq(q, j, Len(q)) IN Distinct(r) /\ FdsOf(r) \ {Listener} = K
<1> DEFINE s == SubSeq(q, j, Len(q))
           r == p \o s
<1>1. Len(p) \in Nat /\ Len(q) \in Nat
  BY LenProperties
<1>2. \A n \in j .. Len(q) : q[n] \in PollItem
  BY <1>1, ElementOfSeq
<1>3. /\ s \in Seq(PollItem) /\ Len(s) = IF j <= Len(q) THEN Len(q) - j + 1 ELSE 0
      /\ \A n \in 1 .. Len(q) - j + 1 : s[n] = q[j + n - 1]
  BY <1>1, <1>2, SubSeqProperties
<1> HIDE DEF s
<1>4. /\ r \in Seq(PollItem) /\ Len(r) = Len(p) + Len(s)
      /\ \A n \in 1 .. Len(p) + Len(s) : r[n] = IF n <= Len(p) THEN p[n] ELSE s[n - Len(p)]
  BY <1>3, ConcatProperties
<1>5. DOMAIN r = 1 .. Len(r)
  BY <1>4, LenProperties
<1> HIDE DEF r
<1>6. /\ \A n \in 1 .. Len(p) : n \in DOMAIN r /\ r[n] = p[n]
      /\ \A n \in j .. Len(q) : Len(p) + n - j + 1 \in DOMAIN r /\ r[Len(p) + n - j + 1] = q[n]
  <2>1. \A n \in 1 .. Len(p) : n \in DOMAIN r /\ r[n] = p[n]
    BY <1>1, <1>3, <1>4, <1>5
  <2>2. ASSUME NEW n \in j .. Len(q)
        PROVE  Len(p) + n - j + 1 \in DOMAIN r /\ r[Len(p) + n - j + 1] = q[n]
    <3> DEFINE m == n - j + 1
    <3>1. m \in 1 .. Len(s) /\ m \in 1 .. Len(q) - j + 1 /\ j + m - 1 = n
      BY <1>1, <1>3
    <3>2. s[m] = q[n]
      BY <1>3, <3>1
    <3>3. Len(p) + m \in 1 .. Len(p) + Len(s) /\ ~(Len(p) + m <= Len(p)) /\ (Len(p) + m) - Len(p) = m
      BY <1>1, <1>3, <3>1
    <3>4. r[Len(p) + m] = s[m] /\ Len(p) + m \in DOMAIN r
      BY <1>4, <1>5, <3>3
    <3>5. Len(p) + m = Len(p) + n - j + 1
      BY <1>1
    <3>6. QED
      BY <3>2, <3>4, <3>5
  <2>3. QED
    BY <2>1, <2>2
<1>7. \A n \in DOMAIN r : \/ n \in 1 .. Len(p) /\ r[n] = p[n]
                          \/ /\ n - Len(p) + j - 1 \in j .. Len(q)
                             /\ n > Len(p) /\ r[n] = q[n - Len(p) + j - 1]
  <2> TAKE n \in DOMAIN r
  <2>1. n \in 1 .. Len(p) + Len(s)
    BY <1>4, <1>5
  <2>2. CASE n <= Len(p)
    BY <1>1, <1>4, <2>1, <2>2
  <2>3. CASE n > Len(p)
    <3> DEFINE m == n - Len(p)
    <3>1. m \in 1 .. Len(s) /\ m \in 1 .. Len(q) - j + 1
      BY <1>1, <1>3, <2>1, <2>3
    <3>2. s[m] = q[j + m - 1] /\ r[n] = s[m]
      <4>1. s[m] = q[j + m - 1]
        BY <1>3, <3>1
      <4>2. ~(n <= Len(p))
        BY <1>1, <2>1, <2>3
      <4>3. QED
        BY <1>4, <2>1, <4>1, <4>2
    <3>3. j + m - 1 = n - Len(p) + j - 1 /\ j + m - 1 \in j .. Len(q)
      BY <1>1, <2>1, <3>1
    <3>4. QED
      BY <2>3, <3>2, <3>3
  <2>4. QED
    BY <1>1, <2>1, <2>2, <2>3
<1>8. Distinct(r)
  <2> SUFFICES ASSUME NEW m \in DOMAIN r, NEW n \in DOMAIN r, r[m].fd = r[n].fd PROVE m = n
    BY DEF Distinct
  <2>1. m \in Nat /\ n \in Nat
    BY <1>5
  <2>2. CASE m \in 1 .. Len(p) /\ n \in 1 .. Len(p)
    BY <1>6, <2>2 DEF Sync
  <2>3. CASE m \notin 1 .. Len(p) /\ n \notin 1 .. Len(p)
    <3>1. m - Len(p) + j - 1 = n - Len(p) + j - 1
      BY <1>7, <2>3 DEF Sync
    <3>2. QED
      BY <1>1, <2>1, <3>1
  <2>4. CASE m \in 1 .. Len(p) /\ n \notin 1 .. Len(p)
    BY <1>6, <1>7, <2>4 DEF Sync
  <2>5. CASE m \notin 1 .. Len(p) /\ n \in 1 .. Len(p)
    BY <1>6, <1>7, <2>5 DEF Sync
  <2>6. QED
    BY <2>2, <2>3, <2>4, <2>5
<1>9. \A fd \in Fds : fd \in FdsOf(r) <=> fd \in K
  <2> TAKE fd \in Fds
  <2>1. fd \in FdsOf(r) <=> \/ \E m \in 1 .. Len(p) : p[m].fd = fd
                            \/ \E n \in j .. Len(q) : q[n].fd = fd
    BY <1>6, <1>7 DEF FdsOf
  <2>2. QED
    BY <2>1 DEF Sync
<1>10. FdsOf(r) \subseteq Fds \cup {Listener}
  <2>1. \A n \in DOMAIN r : r[n] \in PollItem
    BY <1>4, <1>5, ElementOfSeq
  <2>2. QED
    BY <2>1 DEF FdsOf, PollItem
<1>11. FdsOf(r) \ {Listener} = K
  BY <1>9, <1>10, ConstAssumption
<1>12. QED
  BY <1>8, <1>11 DEF r, s

\* The poll list and the table of connections name the same descriptors, each
\* once, at every point of a round, for any number of clients and descriptors
\* and whatever the clients, the handler and the application thread do.
THEOREM PollListCorrect == Spec => []PollListInSync
<1>1. IInv => PollListInSync
  <2> SUFFICES ASSUME IInv, pc # "crashed"
               PROVE  Distinct(LiveList) /\ FdsOf(LiveList) \ {Listener} = Keys(httpConns)
    BY DEF PollListInSync
  <2>1. /\ ptmp \in Seq(PollItem) /\ pitem \in Seq(PollItem) /\ i \in Nat \ {0}
        /\ Keys(httpConns) \in SUBSET Fds /\ Sync(ptmp, pitem, i, Keys(httpConns))
    BY DEF IInv, TypeOK, SyncOK, Keys
  <2>2. CASE pc \in {"item", "dispatch", "write"}
    <3>1. LiveList = ptmp \o SubSeq(pitem, i, Len(pitem))
      BY <2>2 DEF LiveList
    <3>2. QED
      BY <2>1, <3>1, ListOfTwo
  <2>3. CASE pc \in {"poll", "idle", "done"}
    <3>1. LiveList = pitem /\ ptmp = <<>> /\ i = 1
      BY <2>3 DEF IInv, PcOK, LiveList
    <3>2. ptmp \o SubSeq(pitem, i, Len(pitem)) = pitem
      <4>1. SubSeq(pitem, 1, Len(pitem)) = pitem
        BY <2>1, SubSeqFull
      <4>2. <<>> \o pitem = pitem
        BY <2>1, ConcatEmptySeq
      <4>3. QED
        BY <3>1, <4>1, <4>2
    <3>3. LET r == ptmp \o SubSeq(pitem, i, Len(pitem))
          IN  Distinct(r) /\ FdsOf(r) \ {Listener} = Keys(httpConns)
      BY <2>1, ListOfTwo
    <3>4. QED
      BY <3>1, <3>2, <3>3
  <2>4. QED
    BY <2>2, <2>3 DEF IInv, TypeOK
<1>2. QED
  BY <1>1, Invariance, PTL
=============================================================================
