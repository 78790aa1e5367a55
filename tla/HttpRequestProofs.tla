-------------------------- MODULE HttpRequestProofs --------------------------
(***************************************************************************)
(* What the processor is given: requests with the head that their client   *)
(* sent.  It rests on what the clients send, and on where their segments   *)
(* end.                                                                    *)
(***************************************************************************)
EXTENDS HttpResponseProofs

-----------------------------------------------------------------------------
(* What the clients send *)

\* Tokens lo..hi of c's stream are one request: a line, headers up to the empty
\* line at e, and a body, which the last Content-Length line announces.
RequestAt(c, lo, e, hi) ==
    LET s == Stream[c] IN
    /\ lo < e /\ e <= hi
    /\ s[lo].k = "line" /\ s[e].k = "end"
    /\ \A n \in lo + 1 .. e - 1 : s[n].k \in {"hdr", "keep", "close", "clen"}
    /\ \A n \in e + 1 .. hi : s[n].k = "body"
    /\ e < hi => \E n \in lo + 1 .. e - 1 : /\ s[n].k = "clen" /\ s[n].len > 0
                                            /\ \A m \in n + 1 .. e - 1 : s[m].k # "clen"
    /\ \A n \in lo .. hi : s[n].q = s[lo].q
    /\ \A n \in 1 .. lo - 1 : s[n].q < s[lo].q
    /\ \A n \in hi + 1 .. Len(s) : s[lo].q < s[n].q

\* Every client sends requests, one after the other.
WellFormed ==
    \A c \in Clients : \A n \in DOMAIN Stream[c] :
        \E lo, e, hi \in DOMAIN Stream[c] : n \in lo .. hi /\ RequestAt(c, lo, e, hi)

\* No segment ends inside the head of a request, or inside a request.
WholeHeads    == "split" \notin Env
WholeRequests == {"split", "splitBody"} \cap Env = {}

-----------------------------------------------------------------------------
(* The invariants *)

\* A segment may end at position b of c's stream.
Cut(c, b) ==
    \/ b \in {0, Len(Stream[c])}
    \/ Stream[c][b].q # Stream[c][b + 1].q
    \/ "splitBody" \in Env /\ Stream[c][b].k = "end"

\* The input buf ends where c has sent s tokens, and starts and ends with a segment.
Fits(c, s, buf) ==
    /\ s \in 0 .. Len(Stream[c]) /\ Cut(c, s)
    /\ s - Len(buf) \in 0 .. s /\ Cut(c, s - Len(buf))
    /\ buf = SubSeq(Stream[c], s - Len(buf) + 1, s)

\* What waits to be read from c is a part of its stream, between two segments.
StreamInv == \A c \in Clients : Fits(c, sent[c], inq[c])

\* A request has the head that its client sent.
AsSent(r) == r.head = SentHead(r.head[1].c, r.head[1].q)

HandledInv ==
    /\ \A fd \in Keys(httpConns) : httpConns[fd].currReq # Null => AsSent(httpConns[fd].currReq)
    /\ pc = "dispatch" => AsSent(req)
    /\ \A n \in DOMAIN dispatched : AsSent(dispatched[n])

-----------------------------------------------------------------------------
(* Segments *)

\* A part of a sequence.
LEMMA Part ==
    ASSUME NEW T, NEW s \in Seq(T), NEW b \in Nat, NEW n \in Nat, b <= n, n <= Len(s), NEW t, t = SubSeq(s, b + 1, n)
    PROVE  /\ t \in Seq(T) /\ Len(t) = n - b /\ DOMAIN t = 1 .. n - b
           /\ \A k \in 1 .. n - b : t[k] = s[b + k]
<1>1. \A k \in b + 1 .. n : s[k] \in T
  BY ElementOfSeq, LenProperties
<1>2. t \in Seq(T) /\ Len(t) = n - b /\ \A k \in 1 .. n - b : t[k] = s[b + k]
  BY <1>1, SubSeqProperties
<1>3. DOMAIN t = 1 .. n - b
  BY <1>2, LenProperties
<1> QED
  BY <1>2, <1>3

\* A part of a sequence, and what follows it.
LEMMA Parts ==
    ASSUME NEW T, NEW s \in Seq(T), NEW b \in Nat, NEW m \in Nat, NEW n \in Nat, b <= m, m <= n, n <= Len(s)
    PROVE  SubSeq(s, b + 1, n) = SubSeq(s, b + 1, m) \o SubSeq(s, m + 1, n)
<1>1. b + 1 \in 1 .. Len(s) + 1 /\ m \in (b + 1) - 1 .. Len(s) /\ n \in m .. Len(s)
  BY LenProperties
<1> QED
  BY <1>1, ConcatAdjacentSubSeq

\* A segment ends where a segment may end.
LEMMA SegmentCut ==
    ASSUME WholeHeads, NEW c \in Clients, sent[c] \in Nat, sent[c] < Len(Stream[c]), NEW n \in SegmentEnds(c)
    PROVE  n \in sent[c] + 1 .. Len(Stream[c]) /\ Cut(c, n)
<1> DEFINE S == {m \in DOMAIN Stream[c] : Stream[c][m].q = NextReq(c)}
           e == EndOf(c, NextReq(c))
<1>1. Stream[c] \in Seq(Token) /\ Len(Stream[c]) \in Nat /\ DOMAIN Stream[c] = 1 .. Len(Stream[c])
  BY StreamAssumption, LenProperties
<1>2. S \in SUBSET Nat /\ \A m \in S : m <= Len(Stream[c])
  BY <1>1
<1>3. sent[c] + 1 \in S
  BY <1>1 DEF NextReq
<1>4. e \in S /\ \A m \in S : m <= e
  BY <1>1, <1>2, <1>3, LastOfLemma DEF EndOf
<1>5. e \in sent[c] + 1 .. Len(Stream[c])
  BY <1>1, <1>3, <1>4
<1>6. Cut(c, e)
  <2>1. CASE e = Len(Stream[c])
    BY <2>1 DEF Cut
  <2>2. CASE e # Len(Stream[c])
    <3>1. e + 1 \in DOMAIN Stream[c] /\ e + 1 \notin S
      BY <1>1, <1>4, <1>5, <2>2
    <3>2. Stream[c][e + 1].q # Stream[c][e].q
      BY <1>4, <3>1
    <3> QED
      BY <3>2 DEF Cut
  <2> QED
    BY <2>1, <2>2
<1>7. n = e \/ (n \in sent[c] + 1 .. e /\ "splitBody" \in Env /\ Stream[c][n].k = "end")
  BY <1>5 DEF SegmentEnds, WholeHeads
<1> QED
  BY <1>1, <1>5, <1>6, <1>7 DEF Cut

\* Every step leaves of the input of a client what is still to be read, or adds
\* a segment.
LEMMA StreamStep ==
    ASSUME WholeHeads, IInv, StreamInv, [Next]_vars
    PROVE  StreamInv'
<1> SUFFICES \A c \in Clients : Fits(c, sent'[c], inq'[c])
  BY DEF StreamInv, Fits
<1>0. /\ inq \in [Clients -> Seq(Token)] /\ sent \in [Clients -> Nat]
      /\ \A c \in Clients : Stream[c] \in Seq(Token) /\ Len(Stream[c]) \in Nat
      /\ \A c \in Clients : Fits(c, sent[c], inq[c])
  BY StreamAssumption, LenProperties DEF IInv, TypeOK, StreamInv
<1>1. \A c \in Clients : Fits(c, sent[c], <<>>)
  <2> TAKE c \in Clients
  <2>1. sent[c] \in 0 .. Len(Stream[c]) /\ Cut(c, sent[c]) /\ Len(<<>>) = 0 /\ sent[c] - 0 = sent[c]
    BY <1>0 DEF Fits
  <2>2. SubSeq(Stream[c], sent[c] + 1, sent[c]) = <<>>
    BY <1>0, <2>1, Part, EmptySeq
  <2> QED
    BY <2>1, <2>2 DEF Fits
<1>2. CASE sent' = sent /\ \A c \in Clients : inq'[c] = inq[c] \/ inq'[c] = <<>>
  BY <1>0, <1>1, <1>2
<1>3. ASSUME NEW d, inq' = [inq EXCEPT ![d] = <<>>]
      PROVE  \A c \in Clients : inq'[c] = inq[c] \/ inq'[c] = <<>>
  BY <1>0, <1>3
<1>4. ASSUME NEW d \in Clients, Send(d), d \notin closed
      PROVE  \A c \in Clients : Fits(c, sent'[c], inq'[c])
  <2>1. PICK n \in SegmentEnds(d) :
           /\ inq' = [inq EXCEPT ![d] = inq[d] \o SubSeq(Stream[d], sent[d] + 1, n)]
           /\ sent' = [sent EXCEPT ![d] = n]
    BY <1>4 DEF Send
  <2>2. n \in sent[d] + 1 .. Len(Stream[d]) /\ Cut(d, n) /\ sent[d] \in Nat
    BY <1>0, <1>4, SegmentCut DEF Send
  <2> DEFINE b == sent[d] - Len(inq[d])
             u == SubSeq(Stream[d], sent[d] + 1, n)
  <2>3. b \in 0 .. sent[d] /\ Cut(d, b) /\ inq[d] = SubSeq(Stream[d], b + 1, sent[d])
    BY <1>0 DEF Fits
  <2> HIDE DEF b
  <2>4. inq[d] \o u = SubSeq(Stream[d], b + 1, n) /\ Len(inq[d] \o u) = n - b
    <3>1. b \in Nat /\ b <= n /\ n <= Len(Stream[d]) /\ n \in Nat /\ sent[d] \in b .. n
      BY <1>0, <2>2, <2>3
    <3> DEFINE t == SubSeq(Stream[d], b + 1, n)
    <3>2. Len(t) = n - b
      BY <1>0, <3>1, Part
    <3>3. t = inq[d] \o u
      <4>1. sent[d] \in Nat /\ b <= sent[d] /\ sent[d] <= n
        BY <2>2, <2>3
      <4>2. t = SubSeq(Stream[d], b + 1, sent[d]) \o SubSeq(Stream[d], sent[d] + 1, n)
        BY <1>0, <3>1, <4>1, Parts
      <4> QED
        BY <2>3, <4>2
    <3> HIDE DEF t, u
    <3>4. Len(inq[d] \o u) = n - b
      BY <3>2, <3>3
    <3> QED
      BY <3>3, <3>4 DEF t
  <2> HIDE DEF u
  <2>5. n - Len(inq[d] \o u) = b
    BY <2>2, <2>3, <2>4
  <2>6. Fits(d, n, inq[d] \o u)
    <3>1. n \in 0 .. Len(Stream[d]) /\ b \in 0 .. n
      BY <1>0, <2>2, <2>3
    <3> QED
      BY <2>2, <2>3, <2>4, <2>5, <3>1, Zenon DEF Fits
  <2>7. /\ sent'[d] = n /\ inq'[d] = inq[d] \o u
        /\ \A c \in Clients : c # d => sent'[c] = sent[c] /\ inq'[c] = inq[c]
    BY <1>0, <2>1 DEF u
  <2> QED
    BY <1>0, <2>6, <2>7
<1>5. CASE inq' = inq /\ sent' = sent
  BY <1>2, <1>5
<1> QED
  BY <1>2, <1>3, <1>4, <1>5 DEF Next, Server, Poll, ListenError, NoAccept, Accept, AcceptThrows, CloseConn, OnClose,
       SkipRead, ReadEOF, ReadError, ReadException, ReadData, Consume, DispatchReply, DispatchNull, DispatchHttpException,
       DispatchException, DispatchSend, SkipWrite, Write, WriteError, EndRound, IdleSync, IdleEmpty, CloseSocket,
       IdleShutdown, IdleResponse, IdleNull, Client, Connect, Send, Fin, Reset, Drain, Handle, SendShutdown,
       vars, netVars, peerVars

\* Nothing was sent yet.
LEMMA StreamInit == Init => StreamInv
<1> SUFFICES ASSUME Init, NEW c \in Clients PROVE Fits(c, sent[c], inq[c])
  BY DEF StreamInv
<1>1. sent[c] = 0 /\ inq[c] = <<>> /\ Stream[c] \in Seq(Token) /\ Len(Stream[c]) \in Nat /\ Len(<<>>) = 0
  BY StreamAssumption, LenProperties DEF Init
<1>2. SubSeq(Stream[c], 0 + 1, 0) = <<>>
  BY <1>1, Part, EmptySeq
<1>3. Fits(c, 0, <<>>)
  <2>1. 0 \in 0 .. Len(Stream[c]) /\ 0 \in 0 .. 0 /\ 0 - 0 = 0
    BY <1>1
  <2>2. 0 - Len(<<>>) = 0
    BY <1>1, <2>1, Zenon
  <2>3. Cut(c, 0)
    BY Zenon DEF Cut
  <2> QED
    BY <1>2, <2>1, <2>2, <2>3, Zenon DEF Fits
<1> QED
  BY <1>1, <1>3

-----------------------------------------------------------------------------
(* The head of a request, and the history *)

\* The head of a parsed request is parsed like the buffer it was cut from.
LEMMA HeadOf ==
    ASSUME NEW buf \in Seq(Token), buf # <<>>, NEW head, head = SubSeq(buf, 1, EndOfLoop(buf) - 1)
    PROVE  /\ head \in Seq(Token) /\ head # <<>> /\ Len(head) = EndOfLoop(buf) - 1
           /\ FirstLine(head) = FirstLine(buf) /\ EndOfLoop(head) = EndOfLoop(buf)
           /\ LengthLines(head) = LengthLines(buf) /\ ReqLen(head) = ReqLen(buf)
<1> DEFINE f == FirstLine(buf)
           e == EndOfLoop(buf)
           ends(s)  == {n \in DOMAIN s : s[n].k # "body"}
           blank(s) == {n \in f + 1 .. Len(s) : BlankAt(s, n)}
<1>1. f \in 1 .. Len(buf) /\ e \in f + 1 .. Len(buf) + 1 /\ Len(buf) \in Nat
  BY FirstLineLemma, EndOfLoopLemma, LenProperties
<1>2. /\ head \in Seq(Token) /\ Len(head) = e - 1 /\ head # <<>>
      /\ DOMAIN head = 1 .. e - 1 /\ DOMAIN buf = 1 .. Len(buf)
      /\ \A n \in 1 .. e - 1 : head[n] = buf[n]
  BY <1>1, SubSeqProperties, LenProperties
<1>3. FirstLine(head) = f
  <2>1. CASE ends(buf) = {}
    <3>1. f = Len(buf)
      BY <2>1 DEF FirstLine
    <3>2. e = Len(buf) + 1
      BY <1>1, <3>1
    <3>3. ends(head) = {}
      BY <1>1, <1>2, <2>1
    <3> QED
      BY <1>1, <1>2, <3>1, <3>2, <3>3 DEF FirstLine
  <2>2. CASE ends(buf) # {}
    <3>1. ends(buf) \in SUBSET Nat /\ f = FirstOf(ends(buf))
      BY <1>1, <1>2, <2>2 DEF FirstLine
    <3>2. f \in ends(buf) /\ \A n \in ends(buf) : f <= n
      BY <2>2, <3>1, FirstOfLemma
    <3>3. f \in ends(head) /\ ends(head) \subseteq ends(buf)
      BY <1>1, <1>2, <3>2
    <3>4. FirstOf(ends(head)) \in ends(head) /\ FirstOf(ends(head)) <= f
      <4>1. ends(head) \in SUBSET Nat /\ ends(head) # {}
        BY <3>1, <3>3
      <4> QED
        BY <3>3, <4>1, FirstOfLemma
    <3>5. FirstOf(ends(head)) = f
      <4> DEFINE g == FirstOf(ends(head))
      <4>1. g \in Nat /\ f \in Nat /\ g <= f /\ f <= g
        BY <3>1, <3>2, <3>3, <3>4
      <4> HIDE DEF g, f, ends
      <4>2. g = f
        BY <4>1
      <4> QED
        BY <4>2 DEF g
    <3> QED
      BY <3>3, <3>5 DEF FirstLine
  <2> QED
    BY <2>1, <2>2
<1>4. EndOfLoop(head) = e
  <2>1. \A n \in f + 1 .. e - 1 : BlankAt(head, n) => BlankAt(buf, n)
    BY <1>1, <1>2 DEF BlankAt
  <2>2. blank(head) = {}
    <3> SUFFICES ASSUME NEW n \in f + 1 .. e - 1, BlankAt(head, n) PROVE FALSE
      BY <1>2
    <3>1. n \in blank(buf)
      BY <1>1, <2>1
    <3>2. e = FirstOf(blank(buf))
      BY <3>1 DEF EndOfLoop
    <3>3. blank(buf) \in SUBSET Nat
      BY <1>1
    <3>4. e <= n
      BY <3>1, <3>2, <3>3, FirstOfLemma
    <3> QED
      BY <1>1, <3>4
  <2>3. EndOfLoop(head) = Len(head) + 1
    BY <1>3, <2>2 DEF EndOfLoop
  <2> QED
    BY <1>1, <1>2, <2>3
<1>5. LengthLines(head) = LengthLines(buf)
  BY <1>1, <1>2, <1>3, <1>4 DEF LengthLines
<1>6. ReqLen(head) = ReqLen(buf)
  <2>1. CASE LengthLines(buf) = {}
    BY <1>5, <2>1 DEF ReqLen
  <2>2. CASE LengthLines(buf) # {}
    <3>1. LengthLines(buf) \in SUBSET Nat /\ \A n \in LengthLines(buf) : n <= Len(buf) /\ n \in 1 .. e - 1
      BY <1>1 DEF LengthLines
    <3>2. LastOf(LengthLines(buf)) \in LengthLines(buf)
      BY <1>1, <2>2, <3>1, LastOfLemma
    <3>3. head[LastOf(LengthLines(buf))] = buf[LastOf(LengthLines(buf))]
      BY <1>2, <3>1, <3>2
    <3> QED
      BY <1>5, <2>2, <3>3 DEF ReqLen
  <2> QED
    BY <2>1, <2>2
<1> QED
  BY <1>2, <1>3, <1>4, <1>5, <1>6

\* The history grows by the request at hand.
LEMMA History ==
    ASSUME [Next]_vars
    PROVE  \/ dispatched' = dispatched
           \/ pc = "dispatch" /\ dispatched' = Append(dispatched, req)
  BY DEF Next, Server, Poll, ListenError, NoAccept, Accept, AcceptThrows, CloseConn,
       SkipRead, ReadEOF, ReadError, ReadException, ReadData, DispatchReply, DispatchNull, DispatchHttpException,
       DispatchException, DispatchSend, Dispatched, SkipWrite, Write, WriteError, EndRound, IdleSync, IdleEmpty,
       IdleShutdown, IdleResponse, IdleNull, Client, Connect, Send, Fin, Reset, Drain, Handle, SendShutdown,
       vars, appVars

\* What holds of the request that is dispatched holds of all in the history.
LEMMA HistoryOf ==
    ASSUME IInv, [Next]_vars, NEW S, pc = "dispatch" => req \in S, \A n \in DOMAIN dispatched : dispatched[n] \in S
    PROVE  \A n \in DOMAIN dispatched' : dispatched'[n] \in S
<1>1. dispatched \in Seq(Request)
  BY DEF IInv, TypeOK
<1>2. CASE dispatched' = dispatched
  BY <1>2
<1>3. CASE pc = "dispatch" /\ dispatched' = Append(dispatched, req)
  BY <1>1, <1>3
<1> QED
  BY <1>2, <1>3, History

-----------------------------------------------------------------------------
(* Requests in a stream *)

\* What is said of a request, with the types of its tokens.
LEMMA Layout ==
    ASSUME NEW c \in Clients, NEW lo \in DOMAIN Stream[c], NEW e \in DOMAIN Stream[c], NEW hi \in DOMAIN Stream[c],
           RequestAt(c, lo, e, hi)
    PROVE  /\ Len(Stream[c]) \in Nat /\ DOMAIN Stream[c] = 1 .. Len(Stream[c])
           /\ lo \in Nat \ {0} /\ e \in Nat /\ hi \in Nat /\ lo < e /\ e <= hi /\ hi <= Len(Stream[c])
           /\ \A n \in DOMAIN Stream[c] : Stream[c][n] \in Token /\ Stream[c][n].q \in Nat /\ Stream[c][n].c = c
           /\ \A n \in lo .. hi : n \in DOMAIN Stream[c] /\ Stream[c][n].q = Stream[c][lo].q
           /\ \A n \in lo .. hi : Stream[c][n].k = "end" <=> n = e
           /\ \A n \in lo .. e : Stream[c][n].k # "body"
           /\ \A n \in hi + 1 .. Len(Stream[c]) : Stream[c][lo].q < Stream[c][n].q
           /\ \A n \in 1 .. lo - 1 : Stream[c][n].q < Stream[c][lo].q
<1>1. Len(Stream[c]) \in Nat /\ DOMAIN Stream[c] = 1 .. Len(Stream[c]) /\ Stream[c] \in Seq(Token)
  BY StreamAssumption, LenProperties
<1>2. lo \in Nat \ {0} /\ e \in Nat /\ hi \in Nat /\ lo < e /\ e <= hi /\ hi <= Len(Stream[c])
  BY <1>1 DEF RequestAt
<1>3. \A n \in DOMAIN Stream[c] : Stream[c][n] \in Token /\ Stream[c][n].q \in Nat /\ Stream[c][n].c = c
  <2>1. \A n \in DOMAIN Stream[c] : Stream[c][n] \in Token
    BY <1>1, ElementOfSeq
  <2>2. \A n \in DOMAIN Stream[c] : Stream[c][n].c = c
    BY StreamAssumption
  <2> QED
    BY <2>1, <2>2 DEF Token
<1>4. \A n \in lo .. hi : n \in DOMAIN Stream[c] /\ Stream[c][n].q = Stream[c][lo].q
  BY <1>1, <1>2 DEF RequestAt
<1>5. /\ Stream[c][lo].k = "line" /\ Stream[c][e].k = "end"
      /\ \A n \in lo + 1 .. e - 1 : Stream[c][n].k \in {"hdr", "keep", "close", "clen"}
      /\ \A n \in e + 1 .. hi : Stream[c][n].k = "body"
  BY DEF RequestAt
<1>6. ASSUME NEW n \in lo .. hi
      PROVE  (Stream[c][n].k = "end" <=> n = e) /\ (n <= e => Stream[c][n].k # "body")
  <2>1. n = lo \/ n \in lo + 1 .. e - 1 \/ n = e \/ n \in e + 1 .. hi
    BY <1>2
  <2>2. n \in e + 1 .. hi => ~(n <= e) /\ n # e
    BY <1>2
  <2>3. lo # e /\ \A k \in lo + 1 .. e - 1 : k # e
    BY <1>2
  <2> QED
    BY <1>5, <2>1, <2>2, <2>3
<1>7. \A n \in lo .. e : n \in lo .. hi /\ n <= e
  BY <1>2
<1>8. /\ \A n \in hi + 1 .. Len(Stream[c]) : Stream[c][lo].q < Stream[c][n].q
      /\ \A n \in 1 .. lo - 1 : Stream[c][n].q < Stream[c][lo].q
  BY DEF RequestAt
<1> QED
  BY <1>1, <1>2, <1>3, <1>4, <1>6, <1>7, <1>8

\* A part that starts with a segment starts with a request, or in its body.
LEMMA StartOf ==
    ASSUME WellFormed, NEW c \in Clients, NEW b \in Nat, b < Len(Stream[c]), Cut(c, b)
    PROVE  \E lo, e, hi \in DOMAIN Stream[c] :
             /\ RequestAt(c, lo, e, hi) /\ b + 1 \in lo .. hi
             /\ b + 1 = lo \/ ("splitBody" \in Env /\ e <= b)
<1>1. Len(Stream[c]) \in Nat /\ DOMAIN Stream[c] = 1 .. Len(Stream[c])
  BY StreamAssumption, LenProperties
<1>2. PICK lo, e, hi \in DOMAIN Stream[c] : b + 1 \in lo .. hi /\ RequestAt(c, lo, e, hi)
  <2>1. b + 1 \in DOMAIN Stream[c]
    BY <1>1
  <2> QED
    BY <2>1, Zenon DEF WellFormed
<1>3. /\ lo \in Nat \ {0} /\ e \in Nat /\ hi \in Nat /\ lo < e /\ e <= hi /\ hi <= Len(Stream[c])
      /\ \A n \in lo .. hi : Stream[c][n].q = Stream[c][lo].q
      /\ \A n \in lo .. hi : Stream[c][n].k = "end" <=> n = e
  BY <1>2, Layout
<1>4. CASE b < lo
  <2>1. b + 1 = lo
    BY <1>2, <1>3, <1>4
  <2> QED
    BY <1>2, <2>1
<1>5. CASE lo <= b
  <2>1. b \in lo .. hi /\ b + 1 \in lo .. hi /\ b # 0 /\ b # Len(Stream[c])
    BY <1>1, <1>2, <1>3, <1>5
  <2>2. Stream[c][b].q = Stream[c][b + 1].q
    BY <1>3, <2>1
  <2>3. "splitBody" \in Env /\ Stream[c][b].k = "end"
    BY <2>1, <2>2 DEF Cut
  <2>4. b = e
    BY <1>3, <2>1, <2>3
  <2> QED
    BY <1>2, <1>3, <2>3, <2>4
<1> QED
  BY <1>3, <1>4, <1>5

\* A part that ends with a segment ends with a request, or with its head.
LEMMA EndAt ==
    ASSUME NEW c \in Clients, NEW lo \in DOMAIN Stream[c], NEW e \in DOMAIN Stream[c], NEW hi \in DOMAIN Stream[c],
           RequestAt(c, lo, e, hi), NEW m \in lo .. Len(Stream[c]), Cut(c, m)
    PROVE  hi <= m \/ (m = e /\ "splitBody" \in Env)
<1>1. /\ lo \in Nat \ {0} /\ e \in Nat /\ hi \in Nat /\ lo < e /\ e <= hi /\ hi <= Len(Stream[c])
      /\ Len(Stream[c]) \in Nat
      /\ \A n \in lo .. hi : Stream[c][n].q = Stream[c][lo].q
      /\ \A n \in lo .. hi : Stream[c][n].k = "end" <=> n = e
  BY Layout
<1>2. CASE m < hi
  <2>1. m \in lo .. hi /\ m + 1 \in lo .. hi /\ m # 0 /\ m # Len(Stream[c])
    BY <1>1, <1>2
  <2>2. Stream[c][m].q = Stream[c][m + 1].q
    BY <1>1, <2>1
  <2>3. "splitBody" \in Env /\ Stream[c][m].k = "end"
    BY <2>1, <2>2 DEF Cut
  <2> QED
    BY <1>1, <2>1, <2>3
<1> QED
  BY <1>1, <1>2

\* buf is what follows b in c's stream up to m, and starts with the request that
\* has its empty line at e and ends at hi.
StartsWith(buf, c, b, m, e, hi) ==
    /\ c \in Clients /\ b \in Nat /\ b + 1 \in DOMAIN Stream[c] /\ e \in DOMAIN Stream[c] /\ hi \in DOMAIN Stream[c]
    /\ RequestAt(c, b + 1, e, hi) /\ m \in e .. Len(Stream[c])
    /\ buf = SubSeq(Stream[c], b + 1, m)

\* What is parsed of a part that starts with a request and has its head.
LEMMA HeadIn ==
    ASSUME NEW buf, NEW c, NEW b, NEW m, NEW e, NEW hi, StartsWith(buf, c, b, m, e, hi)
    PROVE  /\ buf \in Seq(Token) /\ buf # <<>> /\ Len(buf) = m - b /\ \A k \in 1 .. m - b : buf[k] = Stream[c][b + k]
           /\ FirstLine(buf) = 1 /\ EndOfLoop(buf) = e - b /\ HasEndOfHeaders(buf)
<1> DEFINE lo == b + 1
<1>0. /\ c \in Clients /\ b \in Nat /\ lo \in DOMAIN Stream[c] /\ e \in DOMAIN Stream[c] /\ hi \in DOMAIN Stream[c]
      /\ RequestAt(c, lo, e, hi) /\ m \in e .. Len(Stream[c])
      /\ lo = b + 1 /\ buf = SubSeq(Stream[c], b + 1, m)
  BY DEF StartsWith
<1> HIDE DEF lo
<1>1. /\ lo \in Nat \ {0} /\ e \in Nat /\ hi \in Nat /\ lo < e /\ e <= hi /\ hi <= Len(Stream[c])
      /\ Len(Stream[c]) \in Nat /\ m \in Nat /\ Stream[c] \in Seq(Token)
      /\ \A n \in lo .. hi : Stream[c][n].k = "end" <=> n = e
      /\ \A n \in lo .. e : Stream[c][n].k # "body"
  BY <1>0, StreamAssumption, Layout
<1>2. /\ buf \in Seq(Token) /\ Len(buf) = m - b /\ DOMAIN buf = 1 .. m - b
      /\ \A k \in 1 .. m - b : buf[k] = Stream[c][b + k]
  <2>1. b <= m /\ m <= Len(Stream[c])
    BY <1>0, <1>1
  <2> QED
    BY <1>0, <1>1, <2>1, Part
<1>3. 1 \in 1 .. m - b /\ buf # <<>> /\ e - b \in 2 .. m - b
  <2>1. 1 \in 1 .. m - b /\ e - b \in 2 .. m - b
    BY <1>0, <1>1
  <2> QED
    BY <1>2, <2>1
<1>4. \A k \in 1 .. e - b : (buf[k].k = "end" <=> k = e - b) /\ buf[k].k # "body"
  <2> TAKE k \in 1 .. e - b
  <2>1. k \in 1 .. m - b /\ b + k \in lo .. hi /\ b + k \in lo .. e /\ (b + k = e <=> k = e - b)
    BY <1>0, <1>1
  <2> QED
    BY <1>0, <1>1, <1>2, <2>1
<1>5. FirstLine(buf) = 1
  <2> DEFINE ends == {n \in DOMAIN buf : buf[n].k # "body"}
  <2>1. 1 \in ends /\ ends \in SUBSET Nat
    <3>1. 1 \in 1 .. e - b /\ 1 \in DOMAIN buf
      BY <1>0, <1>1, <1>2, <1>3
    <3> QED
      BY <1>2, <1>4, <3>1
  <2>2. FirstOf(ends) \in ends /\ FirstOf(ends) <= 1
    BY <2>1, FirstOfLemma
  <2>3. FirstOf(ends) = 1
    <3>1. FirstOf(ends) \in 1 .. m - b /\ FirstOf(ends) <= 1
      BY <1>2, <2>2
    <3> HIDE DEF ends
    <3> QED
      BY <3>1
  <2> QED
    BY <2>1, <2>3 DEF FirstLine
<1>6. BlankAt(buf, e - b)
  <2>1. e - b \in 1 .. e - b /\ (e - b) - 1 \in 1 .. e - b /\ e - b > 1
    BY <1>3
  <2> QED
    BY <1>4, <2>1 DEF BlankAt
<1>7. EndOfLoop(buf) = e - b
  <2> DEFINE blank == {n \in 1 + 1 .. Len(buf) : BlankAt(buf, n)}
  <2>1. e - b \in blank /\ blank \in SUBSET Nat
    BY <1>2, <1>3, <1>6
  <2>2. FirstOf(blank) \in blank /\ FirstOf(blank) <= e - b
    BY <2>1, FirstOfLemma
  <2>3. FirstOf(blank) \in 1 .. e - b /\ buf[FirstOf(blank)].k = "end"
    <3>1. FirstOf(blank) \in 1 + 1 .. Len(buf) /\ FirstOf(blank) <= e - b /\ BlankAt(buf, FirstOf(blank))
      BY <2>2
    <3> HIDE DEF blank
    <3> QED
      BY <1>0, <1>1, <1>2, <3>1 DEF BlankAt
  <2>4. FirstOf(blank) = e - b
    BY <1>4, <2>3
  <2> QED
    BY <1>5, <2>1, <2>4 DEF EndOfLoop
<1>8. HasEndOfHeaders(buf)
  BY <1>2, <1>3, <1>6 DEF HasEndOfHeaders
<1> QED
  BY <1>2, <1>3, <1>5, <1>7, <1>8

\* The head that was sent is the part from the request line to the empty one.
LEMMA SentHeadOf ==
    ASSUME NEW c \in Clients, NEW lo \in DOMAIN Stream[c], NEW e \in DOMAIN Stream[c], NEW hi \in DOMAIN Stream[c],
           RequestAt(c, lo, e, hi)
    PROVE  SentHead(c, Stream[c][lo].q) = SubSeq(Stream[c], lo, e - 1)
<1> DEFINE mine == {n \in DOMAIN Stream[c] : Stream[c][n].q = Stream[c][lo].q}
<1>1. /\ Len(Stream[c]) \in Nat /\ DOMAIN Stream[c] = 1 .. Len(Stream[c])
      /\ lo \in Nat \ {0} /\ e \in Nat /\ hi \in Nat /\ lo < e /\ e <= hi /\ hi <= Len(Stream[c])
      /\ \A n \in DOMAIN Stream[c] : Stream[c][n].q \in Nat
      /\ \A n \in lo .. hi : n \in DOMAIN Stream[c] /\ Stream[c][n].q = Stream[c][lo].q
      /\ \A n \in lo .. hi : Stream[c][n].k = "end" <=> n = e
      /\ \A n \in hi + 1 .. Len(Stream[c]) : Stream[c][lo].q < Stream[c][n].q
      /\ \A n \in 1 .. lo - 1 : Stream[c][n].q < Stream[c][lo].q
  BY Layout
<1>2. mine = lo .. hi
  <2>1. \A n \in lo .. hi : n \in mine
    BY <1>1
  <2>2. ASSUME NEW n \in mine PROVE n \in lo .. hi
    <3>1. n \in 1 .. Len(Stream[c]) /\ Stream[c][n].q = Stream[c][lo].q /\ Stream[c][n].q \in Nat
      BY <1>1
    <3>2. n \notin hi + 1 .. Len(Stream[c]) /\ n \notin 1 .. lo - 1
      BY <1>1, <3>1
    <3> QED
      BY <1>1, <3>1, <3>2
  <2> QED
    BY <2>1, <2>2
<1>3. FirstOf(mine) = lo
  <2>1. FirstOf(mine) \in lo .. hi /\ \A n \in lo .. hi : FirstOf(mine) <= n
    <3>1. lo .. hi \in SUBSET Nat /\ lo \in lo .. hi
      BY <1>1
    <3> QED
      BY <1>2, <3>1, FirstOfLemma
  <2>2. FirstOf(mine) <= lo /\ FirstOf(mine) >= lo
    BY <1>1, <2>1
  <2> QED
    BY <1>1, <2>1, <2>2
<1>4. (CHOOSE n \in mine : Stream[c][n].k = "end") = e
  <2>1. e \in lo .. hi /\ Stream[c][e].k = "end"
    BY <1>1
  <2> QED
    BY <1>1, <1>2, <2>1
<1> QED
  BY <1>3, <1>4 DEF SentHead

\* t is what follows b in c's stream up to n.
IsPart(t, c, b, n) ==
    /\ Stream[c] \in Seq(Token) /\ b \in Nat /\ n \in Nat /\ b <= n /\ n <= Len(Stream[c])
    /\ t = SubSeq(Stream[c], b + 1, n)

LEMMA PartOf ==
    ASSUME NEW t, NEW c, NEW b, NEW n, IsPart(t, c, b, n)
    PROVE  t \in Seq(Token) /\ Len(t) = n - b /\ \A k \in 1 .. n - b : t[k] = Stream[c][b + k]
BY Part DEF IsPart

\* The request line and the headers that the parser finds in buf.
HeadPart(buf) == SubSeq(buf, 1, EndOfLoop(buf) - 1)

\* The head that is parsed of such a part is the one that was sent.
LEMMA ParseAt ==
    ASSUME NEW buf, NEW c, NEW b, NEW m, NEW e, NEW hi, StartsWith(buf, c, b, m, e, hi)
    PROVE  /\ HeadPart(buf) = SentHead(c, Stream[c][b + 1].q)
           /\ HeadPart(buf)[1] = Stream[c][b + 1]
<1>1. Len(Stream[c]) \in Nat /\ Stream[c] \in Seq(Token)
  BY StreamAssumption, LenProperties DEF StartsWith
<1>2. /\ b \in Nat /\ e \in Nat /\ hi \in Nat /\ b + 1 < e /\ e <= hi /\ hi <= Len(Stream[c])
      /\ m \in e .. Len(Stream[c])
  <2> DEFINE lo == b + 1
  <2>1. /\ c \in Clients /\ b \in Nat /\ lo \in DOMAIN Stream[c] /\ e \in DOMAIN Stream[c] /\ hi \in DOMAIN Stream[c]
        /\ RequestAt(c, lo, e, hi) /\ m \in e .. Len(Stream[c])
    BY DEF StartsWith
  <2> HIDE DEF lo
  <2>2. lo < e /\ e \in Nat /\ hi \in Nat /\ e <= hi /\ hi <= Len(Stream[c])
    BY <2>1, Layout
  <2> QED
    BY <2>1, <2>2 DEF lo
<1>3. /\ buf \in Seq(Token) /\ Len(buf) = m - b /\ \A k \in 1 .. m - b : buf[k] = Stream[c][b + k]
      /\ EndOfLoop(buf) = e - b
  BY HeadIn
<1> DEFINE n == e - 1
<1>4. /\ n \in Nat /\ b <= n /\ n <= Len(Stream[c]) /\ n = e - 1
      /\ 0 \in Nat /\ n - b \in Nat \ {0} /\ 0 <= n - b /\ n - b <= m - b /\ (e - b) - 1 = n - b
      /\ \A k \in 1 .. n - b : k \in 1 .. m - b
  BY <1>1, <1>2
<1> HIDE DEF n
<1> DEFINE t == SubSeq(Stream[c], b + 1, n)
<1>5. t \in Seq(Token) /\ Len(t) = n - b /\ \A k \in 1 .. n - b : t[k] = Stream[c][b + k]
  <2>1. IsPart(t, c, b, n)
    BY <1>1, <1>2, <1>4 DEF IsPart
  <2> HIDE DEF t
  <2> QED
    BY <2>1, PartOf
<1> DEFINE d == n - b
<1>6. d = n - b
  OBVIOUS
<1> HIDE DEF d
<1> DEFINE head == SubSeq(buf, 0 + 1, d)
<1>7. head \in Seq(Token) /\ Len(head) = d /\ \A k \in 1 .. d : head[k] = buf[k]
  <2>1. head \in Seq(Token) /\ Len(head) = d - 0 /\ \A k \in 1 .. d - 0 : head[k] = buf[0 + k]
    BY <1>3, <1>4, <1>6, Part
  <2>2. d - 0 = d /\ \A k \in 1 .. d : 0 + k = k
    BY <1>4, <1>6
  <2> QED
    BY <2>1, <2>2
<1> HIDE DEF head, t
<1>8. head = t
  <2>1. \A k \in 1 .. d : head[k] = t[k]
    BY <1>3, <1>4, <1>5, <1>6, <1>7
  <2>2. Len(head) = Len(t)
    BY <1>5, <1>6, <1>7
  <2> QED
    BY <1>5, <1>6, <1>7, <2>1, <2>2, SeqEqual
<1>9. head = HeadPart(buf)
  BY <1>3, <1>4, <1>6 DEF head, HeadPart
<1>10. t[1] = Stream[c][b + 1] /\ t = SentHead(c, Stream[c][b + 1].q)
  <2>1. 1 \in 1 .. n - b
    BY <1>4
  <2>2. SentHead(c, Stream[c][b + 1].q) = SubSeq(Stream[c], b + 1, e - 1)
    <3> DEFINE lo == b + 1
    <3>1. /\ c \in Clients /\ lo \in DOMAIN Stream[c] /\ e \in DOMAIN Stream[c] /\ hi \in DOMAIN Stream[c]
          /\ RequestAt(c, lo, e, hi)
      BY DEF StartsWith
    <3> HIDE DEF lo
    <3>2. SentHead(c, Stream[c][lo].q) = SubSeq(Stream[c], lo, e - 1)
      BY <3>1, SentHeadOf
    <3> QED
      BY <3>2 DEF lo
  <2>3. t = SubSeq(Stream[c], b + 1, e - 1)
    BY <1>4 DEF t
  <2> QED
    BY <1>5, <2>1, <2>2, <2>3
<1> QED
  BY <1>8, <1>9, <1>10

\* A request that is cut from whole requests has the head that was sent.
LEMMA ParseSent ==
    ASSUME WellFormed, WholeRequests, NEW c \in Clients, NEW ident \in Idents,
           NEW b \in Nat, NEW m \in Nat, b < m, m <= Len(Stream[c]), Cut(c, b), Cut(c, m),
           NEW buf, buf = SubSeq(Stream[c], b + 1, m)
    PROVE  LET r == parseHttpHeaders(buf, ident).req IN r # Null => AsSent(r)
<1>1. Len(Stream[c]) \in Nat
  BY StreamAssumption, LenProperties
<1>2. PICK lo, e, hi \in DOMAIN Stream[c] : lo = b + 1 /\ RequestAt(c, lo, e, hi)
  <2>1. b < Len(Stream[c])
    BY <1>1
  <2> QED
    BY <2>1, StartOf DEF WholeRequests
<1>3. /\ e \in Nat /\ hi \in Nat /\ lo < e /\ e <= hi /\ hi <= Len(Stream[c])
      /\ Stream[c][lo].c = c
  BY <1>2, Layout
<1>4. hi <= m
  <2>1. m \in lo .. Len(Stream[c])
    BY <1>1, <1>2, <1>3
  <2> QED
    BY <1>2, <2>1, EndAt DEF WholeRequests
<1>5. m \in e .. Len(Stream[c])
  BY <1>1, <1>3, <1>4
<1>6. /\ HeadPart(buf) = SentHead(c, Stream[c][b + 1].q)
      /\ HeadPart(buf)[1] = Stream[c][b + 1]
  <2>1. StartsWith(buf, c, b, m, e, hi)
    BY <1>2, <1>5 DEF StartsWith
  <2> QED
    BY <2>1, ParseAt
<1>7. ASSUME NEW r, r = parseHttpHeaders(buf, ident).req, r # Null PROVE AsSent(r)
  <2>1. r.head = HeadPart(buf)
    BY <1>7 DEF HeadPart, parseHttpHeaders, Parsed, Thrown
  <2> QED
    BY <1>2, <1>3, <1>6, <2>1 DEF AsSent
<1> QED
  BY <1>7

-----------------------------------------------------------------------------
(* The head of a request *)

\* read() keeps the head of the request under way, or takes the one it parses.
LEMMA ReadAsSent ==
    ASSUME NEW conn \in LiveConn, NEW buf \in Seq(Token), buf # <<>>, conn.state # "Closing",
           conn.currReq # Null => AsSent(conn.currReq),
           parseHttpHeaders(buf, conn.ident).req # Null => AsSent(parseHttpHeaders(buf, conn.ident).req)
    PROVE  LET r == read(conn, buf) IN
           /\ r.req # Null => AsSent(r.req)
           /\ r.conn.currReq # Null => AsSent(r.conn.currReq)
<1> DEFINE Good(r) == /\ r.req # Null => AsSent(r.req)
                      /\ r.conn.currReq # Null => AsSent(r.conn.currReq)
<1>1. ASSUME NEW k \in LiveConn, NEW p \in ParseResult, p.req # Null => AsSent(p.req),
             k.currReq # Null => AsSent(k.currReq)
      PROVE  Good(FinishRead(k, p))
  BY <1>1 DEF FinishRead, ReadResult, LiveConn, Conn
<1>2. /\ conn.readBuf \o buf \in Seq(Token) /\ conn.ident \in Idents
      /\ conn.state \in {"Headers", "Body"} /\ conn.currReq \in Request \cup {Null}
  BY ConcatProperties DEF LiveConn, Conn
<1>3. CASE conn.state = "Headers"
  <2> DEFINE all    == conn.readBuf \o buf
             found  == HasEndOfHeaders(all)
             stored == IF conn.readBuf = <<>> /\ found THEN <<>> ELSE all
             p      == parseHttpHeaders(buf, conn.ident)
             kb     == [conn EXCEPT !.readBuf = stored, !.state = "Body"]
             kh     == [conn EXCEPT !.readBuf = stored]
  <2>1. stored \in Seq(Token)
    BY <1>2, EmptySeq
  <2>2. kb \in LiveConn /\ kb.currReq = conn.currReq /\ kh \in LiveConn /\ kh.currReq = conn.currReq
    BY <2>1 DEF LiveConn, Conn
  <2>3. p \in ParseResult
    BY <1>2, ParseType
  <2>4. Good(FinishRead(kb, p))
    BY <1>1, <2>2, <2>3
  <2>5. Parsed(conn.currReq, 0) \in ParseResult /\ Parsed(conn.currReq, 0).req = conn.currReq
    BY <1>2 DEF Parsed, ParseResult
  <2>6. Good(FinishRead(kh, Parsed(conn.currReq, 0)))
    BY <1>1, <2>2, <2>5
  <2>7. Good(ReadHeaders(conn, buf))
    BY <2>4, <2>6 DEF ReadHeaders
  <2> QED
    BY <1>3, <2>7 DEF read
<1>4. CASE conn.state = "Body"
  <2> DEFINE p == onHttpData(conn.currReq, buf)
  <2>1. p \in ParseResult
    BY <1>2, OnHttpDataType
  <2>2. p.req # Null => conn.currReq # Null /\ p.req.head = conn.currReq.head
    BY <1>2 DEF onHttpData, Parsed, Thrown, Request
  <2>3. p.req # Null => AsSent(p.req)
    BY <2>2 DEF AsSent
  <2>4. Good(FinishRead(conn, p))
    BY <1>1, <2>1, <2>3
  <2> QED
    BY <1>4, <2>4 DEF read
<1> QED
  BY <1>2, <1>3, <1>4

\* What is parsed of the input of a client is a request that it sent.
LEMMA InputAsSent ==
    ASSUME WellFormed, WholeRequests, StreamInv, NEW c \in Clients, inq[c] \in Seq(Token), inq[c] # <<>>, NEW ident \in Idents
    PROVE  LET r == parseHttpHeaders(inq[c], ident).req IN r # Null => AsSent(r)
<1> DEFINE m == sent[c]
           b == m - Len(inq[c])
<1>1. /\ m \in 0 .. Len(Stream[c]) /\ Cut(c, m) /\ b \in 0 .. m /\ Cut(c, b) /\ inq[c] = SubSeq(Stream[c], b + 1, m)
  BY DEF StreamInv, Fits
<1>2. Len(inq[c]) \in Nat \ {0} /\ Len(Stream[c]) \in Nat
  BY StreamAssumption, LenProperties, EmptySeq
<1>3. b < m
  BY <1>1, <1>2
<1> HIDE DEF b, m
<1>4. b \in Nat /\ m \in Nat /\ m <= Len(Stream[c])
  BY <1>1, <1>2
<1> QED
  BY <1>1, <1>3, <1>4, ParseSent

\* Every step keeps the invariant.
LEMMA HandledStep ==
    ASSUME WellFormed, WholeRequests, IInv, StreamInv, HandledInv, [Next]_vars
    PROVE  HandledInv'
<1> DEFINE Good(conn) == conn.currReq # Null => AsSent(conn.currReq)
<1>0. \A fd \in Keys(httpConns) : Good(httpConns[fd])
  BY DEF HandledInv
<1>1. ASSUME ReadData
      PROVE  Good(ReadInput.conn) /\ (pc' = "dispatch" => AsSent(req'))
  <2>1. /\ CurrConn \in LiveConn /\ CurrClient \in Clients /\ CurrConn = httpConns[Item.fd] /\ Item.fd \in Keys(httpConns)
    BY <1>1, ReadDataReads, AtHand DEF ReadData, HasInput, Readable, Served
  <2>2. inq[CurrClient] \in Seq(Token) /\ inq[CurrClient] # <<>> /\ CurrConn.state # "Closing"
    BY <1>1, <2>1 DEF IInv, TypeOK, ReadData, HasInput, Readable, Served, needsClose
  <2>3. CurrConn.ident \in Idents
    BY <2>1 DEF LiveConn
  <2>4. LET r == parseHttpHeaders(inq[CurrClient], CurrConn.ident).req IN r # Null => AsSent(r)
    BY <2>1, <2>2, <2>3, InputAsSent
  <2>5. /\ ReadInput.req # Null => AsSent(ReadInput.req)
        /\ ReadInput.conn.currReq # Null => AsSent(ReadInput.conn.currReq)
    BY <1>0, <2>1, <2>2, <2>4, ReadAsSent DEF ReadInput
  <2>6. req' = ReadInput.req /\ (pc' = "dispatch" => ReadInput.req # Null)
    BY <1>1 DEF ReadData
  <2> QED
    BY <2>5, <2>6
<1>2. pc' = "dispatch" => AsSent(req')
  <2>1. CASE pc = "dispatch" /\ UNCHANGED <<req, httpConns, pitem, i>>
    BY <2>1 DEF HandledInv
  <2> QED
    BY <1>1, <2>1, ToDispatch
<1>3. \A fd \in Keys(httpConns') : Good(httpConns'[fd])
  <2> HIDE DEF Good
  <2>1. ASSUME NEW fd \in Fds, NEW conn \in LiveConn, httpConns' = [httpConns EXCEPT ![fd] = conn], Good(conn)
        PROVE  \A gd \in Keys(httpConns') : Good(httpConns'[gd])
    <3>1. httpConns'[fd] = conn /\ \A gd \in Fds : gd # fd => httpConns'[gd] = httpConns[gd]
      BY <1>0, <2>1, Table
    <3> QED
      BY <1>0, <2>1, <3>1 DEF Keys
  <2>2. CASE httpConns' = httpConns
    BY <1>0, <2>2
  <2>3. ASSUME NEW fd \in Fds, NEW conn \in LiveConn, Reads(fd, conn)
        PROVE  \A gd \in Keys(httpConns') : Good(httpConns'[gd])
    BY <1>1, <2>1, <2>3 DEF Reads
  <2>4. ASSUME NEW fd \in Fds, NEW resp \in Response, Adds(fd, resp)
        PROVE  \A gd \in Keys(httpConns') : Good(httpConns'[gd])
    <3>1. httpConns[fd] \in LiveConn /\ Good(httpConns[fd])
      BY <1>0, <2>4, Table DEF Adds
    <3>2. add(httpConns[fd], resp).currReq = httpConns[fd].currReq
      BY <3>1 DEF add, LiveConn, Conn
    <3>3. add(httpConns[fd], resp) \in LiveConn /\ Good(add(httpConns[fd], resp))
      BY <3>1, <3>2, AddType DEF Good
    <3> HIDE DEF add
    <3> QED
      BY <2>1, <2>4, <3>3 DEF Adds
  <2>5. ASSUME NEW fd \in Fds, NEW num \in Nat, Writes(fd, num)
        PROVE  \A gd \in Keys(httpConns') : Good(httpConns'[gd])
    <3>1. httpConns[fd] \in LiveConn /\ Good(httpConns[fd]) /\ num \in 0 .. Len(httpConns[fd].writeBuf)
      BY <1>0, <2>5, Table DEF Writes
    <3>2. write(httpConns[fd], num) \in LiveConn /\ Good(write(httpConns[fd], num))
      BY <3>1, WriteType DEF write, Good, LiveConn, Conn
    <3>3. httpConns' = [httpConns EXCEPT ![fd] = write(httpConns[fd], num)]
      BY <2>5 DEF Writes
    <3> HIDE DEF write
    <3> QED
      BY <2>1, <3>2, <3>3
  <2>6. ASSUME NEW fd \in Fds, NEW unread, Closes(fd, unread)
        PROVE  \A gd \in Keys(httpConns') : Good(httpConns'[gd])
    <3>1. /\ Keys(httpConns') = Keys(httpConns) \ {fd}
          /\ \A gd \in Fds : gd # fd => httpConns'[gd] = httpConns[gd]
      BY <1>0, <2>6, Table DEF Closes
    <3> QED
      BY <1>0, <3>1 DEF Keys
  <2>7. CASE Accept
    <3> DEFINE c == Head(backlog)
    <3>1. PICK fd \in Fds : httpConns' = [httpConns EXCEPT ![fd] = NewConn(c, IdentOf[c])]
      BY <2>7 DEF Accept
    <3>2. httpConns'[fd] = NewConn(c, IdentOf[c]) /\ \A gd \in Fds : gd # fd => httpConns'[gd] = httpConns[gd]
      BY <1>0, <3>1, Table
    <3>3. Good(NewConn(c, IdentOf[c]))
      BY DEF Good, NewConn
    <3> QED
      BY <1>0, <3>2, <3>3 DEF Keys
  <2>8. CASE AcceptThrows \/ Client
    BY <1>0, <2>8 DEF AcceptThrows, Client, Connect, Send, Fin, Reset, Drain, loopVars
  <2> QED
    BY <1>0, <2>2, <2>3, <2>4, <2>5, <2>6, <2>7, <2>8, Effects
<1>4. \A n \in DOMAIN dispatched' : AsSent(dispatched'[n])
  <2> DEFINE S == {r \in {req} \cup {dispatched[n] : n \in DOMAIN dispatched} : AsSent(r)}
  <2>1. pc = "dispatch" => req \in S
    BY DEF HandledInv
  <2>2. \A n \in DOMAIN dispatched : dispatched[n] \in S
    BY DEF HandledInv
  <2> HIDE DEF S
  <2>3. \A n \in DOMAIN dispatched' : dispatched'[n] \in S
    BY <2>1, <2>2, HistoryOf
  <2> QED
    BY <2>3 DEF S
<1> QED
  BY <1>2, <1>3, <1>4 DEF HandledInv

\* No connection is there yet.
LEMMA HandledInit == Init => HandledInv
<1> SUFFICES ASSUME Init PROVE HandledInv
  OBVIOUS
<1>1. Keys(httpConns) = {}
  BY DEF Init, Keys, AbsentConn
<1> QED
  BY <1>1 DEF Init, HandledInv

\* The processor is given the request line and the headers that the client sent,
\* although read() looks for the end of the headers in all it has stored and
\* parses only what has just arrived: for clients that send well-formed requests
\* whole, however many of them in one chunk.
THEOREM HandledCorrect ==
    ASSUME WellFormed, WholeRequests
    PROVE  Spec => []HandledAsSent
<1>1. WholeHeads
  BY DEF WholeRequests, WholeHeads
<1>2. Init => IInv /\ StreamInv /\ HandledInv
  BY InitStep, StreamInit, HandledInit
<1>3. IInv /\ StreamInv /\ HandledInv /\ [Next]_vars => (IInv /\ StreamInv /\ HandledInv)'
  BY <1>1, NextStep, StreamStep, HandledStep
<1>4. HandledInv => HandledAsSent
  BY DEF HandledInv, AsSent, HandledAsSent
<1> QED
  BY <1>2, <1>3, <1>4, PTL DEF Spec
=============================================================================
