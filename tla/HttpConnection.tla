--------------------------- MODULE HttpConnection ---------------------------
(***************************************************************************)
(* The class HttpConnection of http4d/src/protocol/http.d and the parser   *)
(* functions it calls, as operators on values: what one read() makes of    *)
(* the bytes the kernel returned, what add() and write() do to the output  *)
(* buffer.  There is no state here; HttpServer keeps one record per        *)
(* connection and applies these operators to it.                           *)
(*                                                                         *)
(* The byte stream is abstracted to tokens.  A token is one line of a      *)
(* request, CRLF included, or one piece of its body:                       *)
(*    "line"          OP SP URI SP PROTO CRLF                              *)
(*    "hdr"           an ordinary header line                              *)
(*    "keep" "close"  Connection: keep-alive / Connection: close           *)
(*    "clen"          Content-Length: len (a len above MaxRequestLen       *)
(*                    stands for a value that is not a number, too: both   *)
(*                    make the parser throw an Exception)                  *)
(*    "end"           the empty line that ends the headers                 *)
(*    "body"          a piece of body without spaces or line ends          *)
(* tagged with the client c that sent it and the number q of the request.  *)
(* A chunk boundary inside a line adds no case: the head of the second     *)
(* chunk is then a line with no space (as "end"), or with some (as "hdr"). *)
(***************************************************************************)
EXTENDS Integers, Sequences

CONSTANTS
    Clients,         \* the peers that may connect
    Idents,          \* the remote addresses, HttpConnection.ident
    Null,            \* D's null
    MaxRequestLen,   \* MAX_REQUEST_LEN, in body tokens
    DivertLen        \* DIVERT_REQUEST_LEN, in body tokens

ASSUME LenAssumption == MaxRequestLen \in Nat /\ DivertLen \in Nat

Kinds == {"line", "hdr", "keep", "close", "clen", "end", "body"}

Token == [c : Clients, q : Nat, k : Kinds, len : Nat]

\* HttpRequest: the lines parsed (the first one and the headers), the data
\* that followed them, and whether the body is diverted to a file.
Request == [connection : Idents, head : Seq(Token) \ {<<>>}, data : Seq(Token), path : BOOLEAN]

\* HttpResponse: its addressee, the values of its "Connection" header, and
\* whether it is a chunk; c and q name the request that it answers.
Response == [connection : Idents, c : Clients, q : Nat,
             conn : Seq({"keep", "close"}), chunked : BOOLEAN]

\* The bytes of a response, in two halves so that a send may be partial.
Unit == [c : Clients, q : Nat, part : {1, 2}]

\* An entry of httpConns.  state "Absent" stands for a key that is not there.
Conn == [sock : Clients \cup {Null}, ident : Idents \cup {Null},
         state : {"Absent", "Headers", "Body", "Closing"},
         readBuf : Seq(Token), writeBuf : Seq(Unit),
         currReq : Request \cup {Null}]

AbsentConn == [sock |-> Null, ident |-> Null, state |-> "Absent",
               readBuf |-> <<>>, writeBuf |-> <<>>, currReq |-> Null]

NewConn(c, ident) == [sock |-> c, ident |-> ident, state |-> "Headers",
                      readBuf |-> <<>>, writeBuf |-> <<>>, currReq |-> Null]

needsWrite(conn) == conn.writeBuf # <<>>
needsClose(conn) == conn.state = "Closing"

-----------------------------------------------------------------------------
(* The parser *)

\* An index of a set of naturals that is below the others.
FirstOf(S) == CHOOSE n \in S : \A m \in S : n <= m
LastOf(S)  == CHOOSE n \in S : \A m \in S : m <= n

\* CRLF CRLF ends at token n: an empty line whose predecessor is a line.
BlankAt(buf, n) == buf[n].k = "end" /\ n > 1 /\ buf[n - 1].k # "body"

\* findEndOfHeaders( buf ) > 0
HasEndOfHeaders(buf) == \E n \in DOMAIN buf : BlankAt(buf, n)

\* Index of the last token of the first line of buf; without a line end the
\* whole buffer is the first line.
FirstLine(buf) ==
    LET ends == {n \in DOMAIN buf : buf[n].k # "body"}
    IN  IF ends = {} THEN Len(buf) ELSE FirstOf(ends)

\* splitter( line, ' ' ) yields a second element only if the line has a space.
HasSpace(buf) == buf[FirstLine(buf)].k \notin {"end", "body"}

\* Mutant: the empty line does not end the headers.
EndOfLoop_all(buf) == Len(buf) + 1

\* Index of the line that ends the header loop: the first empty one, or the
\* empty remainder behind the last token.
EndOfLoop(buf) ==
    LET blank == {n \in FirstLine(buf) + 1 .. Len(buf) : BlankAt(buf, n)}
    IN  IF blank = {} THEN Len(buf) + 1 ELSE FirstOf(blank)

\* Content-Length lines among the headers of buf (the last one decides).
LengthLines(buf) ==
    {n \in FirstLine(buf) + 1 .. EndOfLoop(buf) - 1 : buf[n].k = "clen"}

ReqLen(buf) == IF LengthLines(buf) = {} THEN 0 ELSE buf[LastOf(LengthLines(buf))].len

\* A step of the parser either gives a request and the bytes it still needs,
\* or throws: an Exception the serve loop catches, or an Error it does not.
Parsed(req, rem) == [err |-> "none", req |-> req, rem |-> rem]
Thrown(kind)     == [err |-> kind, req |-> Null, rem |-> 0]

HasContentLength(req) == 
    \E n \in FirstLine(req.head) + 1 .. Len(req.head) : req.head[n].k = "clen"

\* The Content-Length header is cast from string[] to string before to!ulong
\* sees it, so the conversion reads the array's own words and always throws.
onHttpData(req, buf) ==
    IF req = Null \/ buf = <<>> THEN Parsed(req, 0)
    ELSE LET more == [req EXCEPT !.data = IF req.path THEN @ ELSE @ \o buf]
         IN  IF HasContentLength(req) THEN Thrown("exception")
             ELSE Parsed(more, Len(more.data))

\* Null is what the caller gets when the request line is followed by the
\* empty line at once: the header loop never ran, so foundEndHeader is false.
\* (ident is stored in the request by read(), when it returns it.)
parseHttpHeaders(buf, ident) ==
    LET e        == EndOfLoop(buf)
        rest     == SubSeq(buf, e + 1, Len(buf))
        len      == ReqLen(buf)
        diverted == len > DivertLen
        req      == [connection |-> ident, head |-> SubSeq(buf, 1, e - 1),
                     data |-> IF diverted THEN <<>> ELSE rest, path |-> diverted]
    IN  IF ~HasSpace(buf) THEN Thrown("error")
        ELSE IF e = FirstLine(buf) + 1 THEN Parsed(Null, 0)
        ELSE IF \/ len > MaxRequestLen
                \/ diverted /\ onHttpData(req, rest).err # "none"
        THEN Thrown("exception")
        ELSE Parsed(req, len)

-----------------------------------------------------------------------------
(* HttpConnection.read, add and write *)

\* read() returns req, Null if there is none yet, and may throw err; conn is
\* the connection it leaves behind.
ReadResult(conn, req, err) == [conn |-> conn, req |-> req, err |-> err]

\* rem <= 0 and there is a request
Complete(p) == p.rem = 0 /\ p.req # Null

\* The tail of read(): p is what the parser said of the request under way.
FinishRead(conn, p) ==
    IF p.err # "none" THEN ReadResult(conn, Null, p.err)
    ELSE IF Complete(p)
    THEN ReadResult([conn EXCEPT !.currReq = Null, !.readBuf = <<>>, !.state = "Headers"],
                    p.req, "none")
    ELSE ReadResult([conn EXCEPT !.currReq = p.req], Null, "none")

\* State.Headers: look for the end of the headers in what has been stored and
\* what has just arrived, but parse only what has just arrived.
ReadHeaders(conn, buf) ==
    LET all    == conn.readBuf \o buf
        found  == HasEndOfHeaders(all)
        stored == IF conn.readBuf = <<>> /\ found THEN <<>> ELSE all
    IN  IF found
        THEN FinishRead([conn EXCEPT !.readBuf = stored, !.state = "Body"],
                        parseHttpHeaders(buf, conn.ident))
        ELSE FinishRead([conn EXCEPT !.readBuf = stored], Parsed(conn.currReq, 0))

\* read() once the kernel has returned buf.
read(conn, buf) ==
    CASE conn.state = "Headers" -> ReadHeaders(conn, buf)
      [] conn.state = "Body"    -> FinishRead(conn, onHttpData(conn.currReq, buf))
      [] OTHER                  -> ReadResult(conn, Null, "none")

\* toBuffer( resp ): the bytes, and whether the first Connection header says
\* close.  A chunk has no headers and never closes.
Bytes(resp)     == << [c |-> resp.c, q |-> resp.q, part |-> 1],
                      [c |-> resp.c, q |-> resp.q, part |-> 2] >>
WantsClose(resp) == ~resp.chunked /\ resp.conn # <<>> /\ Head(resp.conn) = "close"

add(conn, resp) ==
    [conn EXCEPT !.writeBuf = @ \o Bytes(resp),
                 !.state    = IF WantsClose(resp) THEN "Closing" ELSE "Headers"]

\* Mutants: the buffer becomes null, is emptied whatever was taken, or is left.
write_null(conn, num)   == [conn EXCEPT !.writeBuf = Null]
write_all(conn, num)    == [conn EXCEPT !.writeBuf = <<>>]
write_resend(conn, num) == conn

\* write(): the kernel took the first num units.
write(conn, num) == [conn EXCEPT !.writeBuf = SubSeq(@, num + 1, Len(@))]

\* Request.getResponse(): addressed to the request's connection, echoing the
\* request's first Connection header; more are the values the handler adds.
ConnHeaders(req) ==
    {n \in FirstLine(req.head) + 1 .. Len(req.head) : req.head[n].k \in {"keep", "close"}}

getResponse(req, more, chunked) ==
    [connection |-> req.connection, c |-> req.head[1].c, q |-> req.head[1].q,
     conn |-> IF ConnHeaders(req) = {} THEN more
              ELSE << req.head[FirstOf(ConnHeaders(req))].k >> \o more,
     chunked |-> chunked]
=============================================================================
