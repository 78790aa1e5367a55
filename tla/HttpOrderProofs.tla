--------------------------- MODULE HttpOrderProofs ---------------------------
(***************************************************************************)
(* Requests are answered once, and in the order in which they were sent if *)
(* the handler runs inside the loop.  Both rest on clients that send their *)
(* requests one after the other, on heads that arrive whole, and on remote *)
(* addresses that tell the clients apart.                                  *)
(***************************************************************************)
EXTENDS HttpRequestProofs

-----------------------------------------------------------------------------
(* The invariants *)

\* s has an element of S, and not more than one.
Has(s, S)  == \E n \in DOMAIN s : s[n] \in S
Sole(s, S) == \A m, n \in DOMAIN s : s[m] \in S /\ s[n] \in S => m = n

\* Request q of client c, and the responses to it.
Number(r)       == r.head[1].q
Of(r, c, q)     == r.head[1].c = c /\ Number(r) = q
Requests(c, q)  == {r \in Request : Of(r, c, q)}
Responses(c, q) == {m \in Message \ {Null, Shutdown} : m.c = c /\ m.q = q}

\* Request q of c was dispatched; the application has it; its response comes back.
Done(c, q)    == Has(dispatched, Requests(c, q))
Asked(c, q)   == Has(appq, Requests(c, q))
Replied(c, q) == Has(mailbox, Responses(c, q))

\* Some of its response was sent to c, or waits to be.
Names(s, q)     == \E n \in DOMAIN s : s[n].q = q
Responded(c, q) ==
    \/ Names(received[c], q) \/ Names(inflight[c], q)
    \/ \E fd \in Keys(httpConns) : httpConns[fd].sock = c /\ Names(httpConns[fd].writeBuf, q)

\* How much of c's stream the loop has read, and what is still to come of it.
Taken(c)    == sent[c] - Len(inq[c])
Ahead(c, q) == \E n \in Taken(c) + 1 .. Len(Stream[c]) : Stream[c][n].q = q

\* Request n of c comes after all that were dispatched; what is still to come
\* is not in front of it, or is behind it.
Fresh(c, n)     == \A p \in Nat : Done(c, p) => p < n
Reached(c, n)   == \A q \in Nat : Ahead(c, q) => n <= q
Passed(c, n)    == \A q \in Nat : Ahead(c, q) => n < q

\* Requests are taken up in the order in which they were sent, and one that
\* waits for its body has announced it.
FreshInv ==
    /\ \A c \in Clients, p \in Nat : Done(c, p) => Passed(c, p)
    /\ \A fd \in Keys(httpConns) :
         LET conn == httpConns[fd] IN
         conn.currReq # Null => /\ HasContentLength(conn.currReq)
                                /\ Fresh(conn.sock, Number(conn.currReq)) /\ Reached(conn.sock, Number(conn.currReq))
    /\ pc = "dispatch" => /\ CurrConn.currReq = Null
                          /\ Fresh(CurrClient, Number(req)) /\ Passed(CurrClient, Number(req))

\* The application has a request once, or its response, and then nothing of that
\* response was sent.
OnceInv ==
    /\ Mode = "sync" => appq = <<>> /\ mailbox = <<>>
    /\ \A c \in Clients, q \in Nat :
         /\ Asked(c, q) \/ Replied(c, q) \/ Responded(c, q) => Done(c, q)
         /\ ~(Asked(c, q) /\ Replied(c, q))
         /\ ~(Asked(c, q) /\ Responded(c, q))
         /\ ~(Replied(c, q) /\ Responded(c, q))
         /\ Sole(appq, Requests(c, q)) /\ Sole(mailbox, Responses(c, q))

\* One half of a response differs from another, or comes before it.
Differ  == {p \in Unit \X Unit : p[1] # p[2]}
Precede == {p \in Unit \X Unit : p[1].q < p[2].q \/ (p[1].q = p[2].q /\ p[1].part < p[2].part)}
InTurn  == IF Mode = "sync" THEN Precede ELSE Differ

Sorted(s, R)    == \A m, n \in DOMAIN s : m < n => <<s[m], s[n]>> \in R
Before(s, t, R) == \A m \in DOMAIN s, n \in DOMAIN t : <<s[m], t[n]>> \in R

\* What was received (r), is under way (f) and waits to be written (w), in turn.
Chain(r, f, w, R) ==
    /\ Sorted(r, R) /\ Sorted(f, R) /\ Sorted(w, R)
    /\ Before(r, f, R) /\ Before(r, w, R) /\ Before(f, w, R)

TurnInv ==
    /\ \A c \in Clients : Chain(received[c], inflight[c], <<>>, InTurn)
    /\ \A fd \in Keys(httpConns) :
         LET c == httpConns[fd].sock IN Chain(received[c], inflight[c], httpConns[fd].writeBuf, InTurn)

-----------------------------------------------------------------------------
(* Sequences in turn *)

\* Sequences one behind the other are in turn if each is, and the first comes
\* before the second.
LEMMA SortedConcat ==
    ASSUME NEW T, NEW s \in Seq(T), NEW t \in Seq(T), NEW R
    PROVE  Sorted(s \o t, R) <=> Sorted(s, R) /\ Sorted(t, R) /\ Before(s, t, R)
<1> DEFINE k == Len(s)
           l == Len(t)
           u == s \o t
<1>1. /\ k \in Nat /\ l \in Nat /\ DOMAIN s = 1 .. k /\ DOMAIN t = 1 .. l /\ DOMAIN u = 1 .. k + l
      /\ \A n \in 1 .. k : u[n] = s[n]
      /\ \A n \in 1 .. l : u[k + n] = t[n]
  BY ConcatProperties, LenProperties
<1> HIDE DEF k, l, u
<1>2. ASSUME Sorted(u, R) PROVE Sorted(s, R) /\ Sorted(t, R) /\ Before(s, t, R)
  <2>1. Sorted(s, R)
    <3> SUFFICES ASSUME NEW m \in DOMAIN s, NEW n \in DOMAIN s, m < n PROVE <<s[m], s[n]>> \in R
      BY DEF Sorted
    <3>1. m \in DOMAIN u /\ n \in DOMAIN u /\ u[m] = s[m] /\ u[n] = s[n]
      BY <1>1
    <3> QED
      BY <1>2, <3>1 DEF Sorted
  <2>2. Sorted(t, R)
    <3> SUFFICES ASSUME NEW m \in DOMAIN t, NEW n \in DOMAIN t, m < n PROVE <<t[m], t[n]>> \in R
      BY DEF Sorted
    <3>1. k + m \in DOMAIN u /\ k + n \in DOMAIN u /\ u[k + m] = t[m] /\ u[k + n] = t[n] /\ k + m < k + n
      BY <1>1
    <3> QED
      BY <1>2, <3>1 DEF Sorted
  <2>3. Before(s, t, R)
    <3> SUFFICES ASSUME NEW m \in DOMAIN s, NEW n \in DOMAIN t PROVE <<s[m], t[n]>> \in R
      BY DEF Before
    <3>1. m \in DOMAIN u /\ k + n \in DOMAIN u /\ u[m] = s[m] /\ u[k + n] = t[n] /\ m < k + n
      BY <1>1
    <3> QED
      BY <1>2, <3>1 DEF Sorted
  <2> QED
    BY <2>1, <2>2, <2>3
<1>3. ASSUME Sorted(s, R), Sorted(t, R), Before(s, t, R) PROVE Sorted(u, R)
  <2> SUFFICES ASSUME NEW m \in DOMAIN u, NEW n \in DOMAIN u, m < n PROVE <<u[m], u[n]>> \in R
    BY DEF Sorted
  <2>1. CASE n <= k
    <3>1. m \in DOMAIN s /\ n \in DOMAIN s /\ u[m] = s[m] /\ u[n] = s[n]
      BY <1>1, <2>1
    <3> QED
      BY <1>3, <3>1 DEF Sorted
  <2>2. CASE m <= k /\ n > k
    <3> DEFINE b == n - k
    <3>1. m \in DOMAIN s /\ b \in DOMAIN t /\ u[m] = s[m] /\ n = k + b
      BY <1>1, <2>2
    <3> HIDE DEF b
    <3>2. u[n] = t[b]
      BY <1>1, <3>1
    <3> QED
      BY <1>3, <3>1, <3>2 DEF Before
  <2>3. CASE m > k
    <3> DEFINE a == m - k
               b == n - k
    <3>1. a \in DOMAIN t /\ b \in DOMAIN t /\ a < b /\ m = k + a /\ n = k + b
      BY <1>1, <2>3
    <3> HIDE DEF a, b
    <3>2. u[m] = t[a] /\ u[n] = t[b]
      BY <1>1, <3>1
    <3> QED
      BY <1>3, <3>1, <3>2 DEF Sorted
  <2> QED
    BY <1>1, <2>1, <2>2, <2>3
<1> QED
  BY <1>2, <1>3 DEF u

\* They come before another one, or behind it, if both do.
LEMMA BeforeConcat ==
    ASSUME NEW T, NEW s \in Seq(T), NEW t \in Seq(T), NEW v \in Seq(T), NEW R
    PROVE  /\ Before(s \o t, v, R) <=> Before(s, v, R) /\ Before(t, v, R)
           /\ Before(v, s \o t, R) <=> Before(v, s, R) /\ Before(v, t, R)
<1> DEFINE k == Len(s)
           l == Len(t)
           u == s \o t
<1>1. /\ k \in Nat /\ l \in Nat /\ DOMAIN s = 1 .. k /\ DOMAIN t = 1 .. l /\ DOMAIN u = 1 .. k + l
      /\ \A n \in 1 .. k : u[n] = s[n]
      /\ \A n \in 1 .. l : u[k + n] = t[n]
  BY ConcatProperties, LenProperties
<1> HIDE DEF k, l, u
<1>2. \A n \in DOMAIN u : (n \in DOMAIN s /\ u[n] = s[n]) \/ \E m \in DOMAIN t : u[n] = t[m]
  <2> TAKE n \in DOMAIN u
  <2>1. CASE n <= k
    BY <1>1, <2>1
  <2>2. CASE n > k
    <3> DEFINE b == n - k
    <3>1. b \in DOMAIN t /\ n = k + b
      BY <1>1, <2>2
    <3> HIDE DEF b
    <3> QED
      BY <1>1, <3>1
  <2> QED
    BY <1>1, <2>1, <2>2
<1>3. \A n \in DOMAIN s : n \in DOMAIN u /\ u[n] = s[n]
  BY <1>1
<1>4. \A n \in DOMAIN t : k + n \in DOMAIN u /\ u[k + n] = t[n]
  BY <1>1
<1>5. Before(u, v, R) <=> Before(s, v, R) /\ Before(t, v, R)
  BY <1>2, <1>3, <1>4, Zenon DEF Before
<1>6. Before(v, u, R) <=> Before(v, s, R) /\ Before(v, t, R)
  BY <1>2, <1>3, <1>4, Zenon DEF Before
<1> QED
  BY <1>5, <1>6 DEF u

\* The empty sequence is in turn.
LEMMA ChainEmpty ==
    ASSUME NEW R
    PROVE  /\ Sorted(<<>>, R) /\ Chain(<<>>, <<>>, <<>>, R)
           /\ \A s : Before(<<>>, s, R) /\ Before(s, <<>>, R)
<1>1. DOMAIN <<>> = {}
  OBVIOUS
<1> QED
  BY <1>1 DEF Sorted, Before, Chain

\* Losing what is under way, or what waits, leaves the rest in turn.
LEMMA ChainLost ==
    ASSUME NEW r, NEW f, NEW w, NEW R, Chain(r, f, w, R)
    PROVE  Chain(r, <<>>, w, R) /\ Chain(r, f, <<>>, R)
BY ChainEmpty DEF Chain

\* The client takes the next unit.
LEMMA ChainDrain ==
    ASSUME NEW r \in Seq(Unit), NEW f \in Seq(Unit), f # <<>>, NEW w \in Seq(Unit), NEW R, Chain(r, f, w, R)
    PROVE  Chain(Append(r, Head(f)), Tail(f), w, R)
<1> DEFINE h == <<Head(f)>>
           t == Tail(f)
<1>1. h \in Seq(Unit) /\ t \in Seq(Unit) /\ Append(r, Head(f)) = r \o h
  BY HeadTailProperties, AppendIsConcat
<1>2. f = h \o t
  OBVIOUS
<1> HIDE DEF h, t
<1>3. Sorted(h, R) /\ Sorted(t, R) /\ Before(h, t, R)
  BY <1>1, <1>2, SortedConcat DEF Chain
<1>4. Before(r, h, R) /\ Before(r, t, R) /\ Before(h, w, R) /\ Before(t, w, R)
  BY <1>1, <1>2, BeforeConcat DEF Chain
<1>5. Sorted(r \o h, R) /\ Before(r \o h, t, R) /\ Before(r \o h, w, R)
  BY <1>1, <1>3, <1>4, SortedConcat, BeforeConcat DEF Chain
<1>6. Chain(r \o h, t, w, R)
  BY <1>3, <1>4, <1>5 DEF Chain
<1> QED
  BY <1>1, <1>6 DEF t

\* What is taken off one sequence and put behind the one before it stays in turn.
LEMMA ChainMove ==
    ASSUME NEW r \in Seq(Unit), NEW f \in Seq(Unit), NEW s \in Seq(Unit), NEW t \in Seq(Unit), NEW R, Chain(r, f, s \o t, R)
    PROVE  Chain(r, f \o s, t, R)
<1>1. /\ Sorted(r, R) /\ Sorted(f, R) /\ Sorted(s \o t, R)
      /\ Before(r, f, R) /\ Before(r, s \o t, R) /\ Before(f, s \o t, R)
  BY DEF Chain
<1>2. Sorted(s, R) /\ Sorted(t, R) /\ Before(s, t, R)
  BY <1>1, SortedConcat
<1>3. Before(r, s, R) /\ Before(r, t, R)
  BY <1>1, BeforeConcat
<1>4. Before(f, s, R) /\ Before(f, t, R)
  BY <1>1, BeforeConcat
<1>5. Sorted(f \o s, R)
  BY <1>1, <1>2, <1>4, SortedConcat
<1>6. Before(r, f \o s, R)
  BY <1>1, <1>3, BeforeConcat
<1>7. Before(f \o s, t, R)
  BY <1>2, <1>4, BeforeConcat
<1> QED
  BY <1>1, <1>2, <1>3, <1>5, <1>6, <1>7 DEF Chain

\* The kernel takes n units of the output.
LEMMA ChainWrite ==
    ASSUME NEW r \in Seq(Unit), NEW f \in Seq(Unit), NEW w \in Seq(Unit), NEW n \in 0 .. Len(w), NEW R, Chain(r, f, w, R),
           NEW s, s = SubSeq(w, 1, n), NEW t, t = SubSeq(w, n + 1, Len(w))
    PROVE  Chain(r, f \o s, t, R)
<1>1. Len(w) \in Nat /\ \A k \in 1 .. Len(w) : w[k] \in Unit
  BY ElementOfSeq, LenProperties
<1>2. s \in Seq(Unit) /\ t \in Seq(Unit)
  BY <1>1, SubSeqProperties
<1>3. w = SubSeq(w, 1, Len(w))
  BY <1>1, SubSeqFull
<1>4. 1 \in 1 .. Len(w) + 1 /\ n \in 1 - 1 .. Len(w) /\ Len(w) \in n .. Len(w)
  BY <1>1
<1>5. s \o t = SubSeq(w, 1, Len(w))
  BY <1>4, ConcatAdjacentSubSeq
<1>6. Chain(r, f, s \o t, R)
  BY <1>3, <1>5
<1> QED
  BY <1>2, <1>6, ChainMove

\* A response comes behind all that was sent.
LEMMA ChainAdd ==
    ASSUME NEW r \in Seq(Unit), NEW f \in Seq(Unit), NEW w \in Seq(Unit), NEW b \in Seq(Unit), NEW R, Chain(r, f, w, R),
           Sorted(b, R), Before(r, b, R), Before(f, b, R), Before(w, b, R)
    PROVE  Chain(r, f, w \o b, R)
BY SortedConcat, BeforeConcat DEF Chain

\* All of it is in turn.
LEMMA ChainSorted ==
    ASSUME NEW r \in Seq(Unit), NEW f \in Seq(Unit), NEW w \in Seq(Unit), NEW R, Chain(r, f, w, R)
    PROVE  Sorted((r \o f) \o w, R)
<1>1. r \o f \in Seq(Unit) /\ Sorted(r \o f, R) /\ Before(r \o f, w, R)
  BY SortedConcat, BeforeConcat, ConcatProperties DEF Chain
<1> QED
  BY <1>1, SortedConcat DEF Chain

-----------------------------------------------------------------------------
(* What is sent is in turn *)

\* What the invariant says of one client, and of one connection.
LEMMA TurnOfClient ==
    ASSUME IInv, TurnInv, NEW c \in Clients
    PROVE  /\ received[c] \in Seq(Unit) /\ inflight[c] \in Seq(Unit)
           /\ Chain(received[c], inflight[c], <<>>, InTurn) /\ Chain(received[c], <<>>, <<>>, InTurn)
  BY ChainLost DEF IInv, TypeOK, TurnInv

\* The same of a connection and its client.
LEMMA TurnOfConn ==
    ASSUME IInv, TurnInv, NEW fd \in Keys(httpConns), NEW c, c = httpConns[fd].sock
    PROVE  /\ c \in Clients /\ httpConns[fd] \in LiveConn /\ httpConns[fd].writeBuf \in Seq(Unit)
           /\ received[c] \in Seq(Unit) /\ inflight[c] \in Seq(Unit)
           /\ Chain(received[c], inflight[c], <<>>, InTurn)
           /\ Chain(received[c], inflight[c], httpConns[fd].writeBuf, InTurn)
<1>1. c \in Clients /\ httpConns[fd] \in LiveConn /\ httpConns[fd].writeBuf \in Seq(Unit)
  BY Table DEF LiveConn, Conn
<1>2. Chain(received[c], inflight[c], httpConns[fd].writeBuf, InTurn)
  BY DEF TurnInv
<1> QED
  BY <1>1, <1>2, TurnOfClient

\* One connection changes, and what is under way to its client.
LEMMA TurnConn ==
    ASSUME IInv, NetInv, TurnInv, NEW fd \in Keys(httpConns), NEW conn \in LiveConn,
           httpConns' = [httpConns EXCEPT ![fd] = conn], conn.sock = httpConns[fd].sock,
           UNCHANGED received,
           \A c \in Clients : c # conn.sock => inflight'[c] = inflight[c],
           Chain(received[conn.sock], inflight'[conn.sock], conn.writeBuf, InTurn)
    PROVE  TurnInv'
<1>1. /\ Keys(httpConns') = Keys(httpConns) /\ httpConns'[fd] = conn
      /\ \A gd \in Fds : gd # fd => httpConns'[gd] = httpConns[gd]
      /\ Keys(httpConns) \subseteq Fds
  BY Table
<1>2. \A gd \in Keys(httpConns) : gd # fd => httpConns[gd].sock # conn.sock /\ httpConns[gd].sock \in Clients
  BY Table DEF NetInv
<1>3. ASSUME NEW c \in Clients PROVE Chain(received'[c], inflight'[c], <<>>, InTurn)
  <2>1. CASE c = conn.sock
    BY <2>1, ChainLost
  <2>2. CASE c # conn.sock
    BY <2>2, TurnOfClient
  <2> QED
    BY <2>1, <2>2
<1>4. ASSUME NEW gd \in Keys(httpConns')
      PROVE  LET c == httpConns'[gd].sock IN Chain(received'[c], inflight'[c], httpConns'[gd].writeBuf, InTurn)
  <2>1. CASE gd = fd
    BY <1>1, <2>1
  <2>2. CASE gd # fd
    <3>1. gd \in Keys(httpConns) /\ httpConns'[gd] = httpConns[gd] /\ inflight'[httpConns[gd].sock] = inflight[httpConns[gd].sock]
      BY <1>1, <1>2, <1>4, <2>2
    <3> QED
      BY <3>1, TurnOfConn
  <2> QED
    BY <2>1, <2>2
<1> QED
  BY <1>3, <1>4 DEF TurnInv, InTurn

\* Connections go, or come, or what is under way is lost.
LEMMA TurnOthers ==
    ASSUME IInv, TurnInv, UNCHANGED received,
           \A c \in Clients : inflight'[c] = inflight[c] \/ inflight'[c] = <<>>,
           \A fd \in Keys(httpConns') :
             /\ httpConns'[fd].sock \in Clients
             /\ \/ fd \in Keys(httpConns) /\ httpConns'[fd] = httpConns[fd]
                \/ httpConns'[fd].writeBuf = <<>>
    PROVE  TurnInv'
<1>1. ASSUME NEW c \in Clients PROVE Chain(received'[c], inflight'[c], <<>>, InTurn)
  BY TurnOfClient
<1>2. ASSUME NEW fd \in Keys(httpConns'), NEW c, c = httpConns'[fd].sock
      PROVE  Chain(received'[c], inflight'[c], httpConns'[fd].writeBuf, InTurn)
  <2>1. c \in Clients /\ (inflight'[c] = inflight[c] \/ inflight'[c] = <<>>)
    BY <1>2
  <2>2. CASE fd \in Keys(httpConns) /\ httpConns'[fd] = httpConns[fd]
    BY <1>2, <2>1, <2>2, TurnOfConn, ChainLost
  <2>3. CASE httpConns'[fd].writeBuf = <<>>
    BY <1>1, <2>1, <2>3
  <2> QED
    BY <1>2, <2>2, <2>3
<1> QED
  BY <1>1, <1>2 DEF TurnInv, InTurn

\* A response is in turn with all that was sent, if that answers other requests,
\* and earlier ones if the order matters.
LEMMA TurnAdd ==
    ASSUME NEW s \in Seq(Unit), NEW resp \in Response, ~Names(s, resp.q),
           Mode = "sync" => \A q \in Nat : Names(s, q) => q < resp.q
    PROVE  Before(s, Bytes(resp), InTurn)
<1>1. \A n \in DOMAIN s : s[n] \in Unit /\ s[n].q # resp.q /\ (Mode = "sync" => s[n].q < resp.q)
  <2> TAKE n \in DOMAIN s
  <2>1. s[n] \in Unit
    BY ElementOfSeq, LenProperties
  <2>2. s[n].q \in Nat
    BY <2>1 DEF Unit
  <2> QED
    BY <2>1, <2>2 DEF Names
<1>2. \A n \in DOMAIN Bytes(resp) : Bytes(resp)[n] \in Unit /\ Bytes(resp)[n].q = resp.q
  <2> DEFINE u == [c |-> resp.c, q |-> resp.q, part |-> 1]
             v == [c |-> resp.c, q |-> resp.q, part |-> 2]
  <2>1. u \in Unit /\ v \in Unit /\ u.q = resp.q /\ v.q = resp.q
    BY DEF Unit, Response
  <2>2. Bytes(resp) = <<u, v>>
    BY DEF Bytes
  <2> HIDE DEF u, v
  <2> QED
    BY <2>1, <2>2
<1> HIDE DEF Bytes
<1> SUFFICES ASSUME NEW m \in DOMAIN s, NEW n \in DOMAIN Bytes(resp) PROVE <<s[m], Bytes(resp)[n]>> \in InTurn
  BY DEF Before
<1>3. s[m] # Bytes(resp)[n]
  BY <1>1, <1>2
<1> QED
  BY <1>1, <1>2, <1>3 DEF InTurn, Differ, Precede

\* The two halves of a response are in turn.
LEMMA TurnBytes ==
    ASSUME NEW resp \in Response
    PROVE  Bytes(resp) \in Seq(Unit) /\ Sorted(Bytes(resp), InTurn)
<1> DEFINE u == [c |-> resp.c, q |-> resp.q, part |-> 1]
           v == [c |-> resp.c, q |-> resp.q, part |-> 2]
<1>1. u \in Unit /\ v \in Unit /\ u.q = v.q /\ u.part = 1 /\ v.part = 2 /\ u.q \in Nat
  BY DEF Unit, Response
<1>2. <<u, v>> \in InTurn
  <2>1. u # v
    BY <1>1
  <2> HIDE DEF u, v
  <2>2. <<u, v>> \in Differ /\ <<u, v>> \in Precede
    BY <1>1, <2>1 DEF Differ, Precede
  <2> QED
    BY <2>2 DEF InTurn
<1>3. Bytes(resp) = <<u, v>>
  BY DEF Bytes
<1> HIDE DEF u, v
<1> QED
  BY <1>1, <1>2, <1>3 DEF Sorted

\* The request that is answered was not answered before, and in synchronous mode
\* no later one was.
LEMMA TurnFree ==
    ASSUME SInv, OwnAddress, FreshInv, OnceInv, NEW fd, NEW resp \in Response, Adds(fd, resp)
    PROVE  /\ ~Responded(resp.c, resp.q)
           /\ Mode = "sync" => \A q \in Nat : Responded(resp.c, q) => q < resp.q
<1>1. resp.c \in Clients /\ resp.q \in Nat
  BY DEF Response
<1>2. CASE DispatchReply \/ DispatchHttpException
  <2>1. pc = "dispatch" /\ Mode = "sync"
    BY <1>2 DEF DispatchReply, DispatchHttpException
  <2>2. fd = Item.fd /\ resp.c = httpConns[fd].sock
    BY <1>2, GivenToOwner
  <2>3. resp.c = CurrClient
    BY <2>2 DEF CurrClient, CurrConn
  <2>4. resp.q = Number(req)
    <3>1. ~IdleResponse
      BY <2>1 DEF IdleResponse
    <3> QED
      BY <3>1 DEF Adds, Gives, Reply, getResponse, ErrorReply, Number
  <2>5. Fresh(resp.c, resp.q)
    BY <2>1, <2>3, <2>4 DEF FreshInv
  <2>6. \A q \in Nat : Responded(resp.c, q) => q < resp.q
    BY <1>1, <2>5 DEF Fresh, OnceInv
  <2>7. ~(resp.q < resp.q)
    BY <1>1
  <2> QED
    BY <1>1, <2>6, <2>7
<1>3. CASE IdleResponse
  <2>1. /\ Mode = "async" /\ mailbox \in Seq(Message) /\ mailbox # <<>> /\ Head(mailbox) \notin {Shutdown, Null}
        /\ ~DispatchReply /\ ~DispatchHttpException
    BY <1>3 DEF IdleResponse, SInv, IInv, TypeOK, DispatchReply, DispatchHttpException
  <2>2. 1 \in DOMAIN mailbox /\ mailbox[1] = Head(mailbox)
    BY <2>1
  <2>3. resp = Head(mailbox)
    BY <2>1 DEF Adds, Gives
  <2>4. Replied(resp.c, resp.q)
    <3>1. mailbox[1] \in Message \ {Null, Shutdown}
      BY <2>1, <2>2, ElementOfSeq
    <3> QED
      BY <2>2, <2>3, <3>1 DEF Replied, Has, Responses
  <2> QED
    BY <1>1, <2>1, <2>4 DEF OnceInv
<1> QED
  BY <1>2, <1>3 DEF Adds, Gives

\* Every step keeps what is sent to a client in turn.
LEMMA TurnStep ==
    ASSUME OwnAddress, SInv, FreshInv, OnceInv, TurnInv, [Next]_vars
    PROVE  TurnInv'
<1>0. IInv /\ NetInv /\ inflight \in [Clients -> Seq(Unit)] /\ received \in [Clients -> Seq(Unit)]
  BY DEF SInv, IInv, TypeOK
<1>1. CASE httpConns' = httpConns /\ Kept
  BY <1>1 DEF TurnInv, Kept, peerVars, InTurn
<1>2. ASSUME NEW fd \in Fds, NEW conn \in LiveConn, Reads(fd, conn) PROVE TurnInv'
  <2> DEFINE c == conn.sock
  <2>1. /\ fd \in Keys(httpConns) /\ c = httpConns[fd].sock /\ conn.writeBuf = httpConns[fd].writeBuf
        /\ httpConns' = [httpConns EXCEPT ![fd] = conn] /\ UNCHANGED <<received, inflight>>
    BY <1>2 DEF Reads, Kept, peerVars
  <2>2. Chain(received[c], inflight[c], conn.writeBuf, InTurn)
    BY <1>0, <2>1, TurnOfConn
  <2> QED
    BY <1>0, <2>1, <2>2, TurnConn
<1>3. ASSUME NEW fd \in Fds, NEW resp \in Response, Adds(fd, resp) PROVE TurnInv'
  <2> DEFINE conn == add(httpConns[fd], resp)
             c    == resp.c
             buf  == httpConns[fd].writeBuf
  <2>1. /\ fd \in Keys(httpConns) /\ c = httpConns[fd].sock
        /\ httpConns' = [httpConns EXCEPT ![fd] = conn] /\ UNCHANGED <<received, inflight>>
    <3>1. fd \in Keys(httpConns) /\ c = httpConns[fd].sock
      BY <1>3, GivenToOwner
    <3>2. httpConns' = [httpConns EXCEPT ![fd] = conn] /\ UNCHANGED <<received, inflight>>
      BY <1>3 DEF Adds, Kept, peerVars
    <3> QED
      BY <3>1, <3>2
  <2>2. /\ c \in Clients /\ buf \in Seq(Unit) /\ httpConns[fd] \in LiveConn
        /\ received[c] \in Seq(Unit) /\ inflight[c] \in Seq(Unit)
        /\ Chain(received[c], inflight[c], buf, InTurn)
    BY <1>0, <2>1, TurnOfConn
  <2>3. conn \in LiveConn /\ conn.sock = c /\ conn.writeBuf = buf \o Bytes(resp)
    BY <2>1, <2>2, AddType DEF add, LiveConn, Conn
  <2>4. \A q : Names(received[c], q) \/ Names(inflight[c], q) \/ Names(buf, q) => Responded(c, q)
    BY <2>1 DEF Responded
  <2> HIDE DEF conn, buf, c
  <2>5. /\ ~Responded(c, resp.q)
        /\ Mode = "sync" => \A q \in Nat : Responded(c, q) => q < resp.q
    BY <1>3, TurnFree DEF c
  <2>6. /\ Before(received[c], Bytes(resp), InTurn) /\ Before(inflight[c], Bytes(resp), InTurn)
        /\ Before(buf, Bytes(resp), InTurn)
    BY <2>2, <2>4, <2>5, TurnAdd
  <2>7. Chain(received[c], inflight[c], buf \o Bytes(resp), InTurn)
    BY <2>2, <2>6, TurnBytes, ChainAdd
  <2> QED
    BY <1>0, <2>1, <2>2, <2>3, <2>7, TurnConn
<1>4. ASSUME NEW fd \in Fds, NEW num \in Nat, Writes(fd, num) PROVE TurnInv'
  <2> DEFINE conn == write(httpConns[fd], num)
             c    == httpConns[fd].sock
             buf  == httpConns[fd].writeBuf
             s    == SubSeq(buf, 1, num)
             t    == SubSeq(buf, num + 1, Len(buf))
  <2>1. /\ fd \in Keys(httpConns) /\ httpConns[fd] \in LiveConn /\ c \in Clients /\ num \in 0 .. Len(buf)
        /\ httpConns' = [httpConns EXCEPT ![fd] = conn] /\ UNCHANGED received
        /\ inflight' = [inflight EXCEPT ![c] = inflight[c] \o s]
    BY <1>0, <1>4, Table DEF Writes, peerVars
  <2>2. conn \in LiveConn /\ conn.sock = c /\ conn.writeBuf = t /\ buf \in Seq(Unit)
    BY <2>1, WriteType DEF write, LiveConn, Conn
  <2>3. /\ inflight[c] \in Seq(Unit) /\ received[c] \in Seq(Unit)
        /\ Chain(received[c], inflight[c], buf, InTurn)
    BY <1>0, <2>1, TurnOfConn
  <2> HIDE DEF conn, buf
  <2>4. Chain(received[c], inflight[c] \o s, t, InTurn)
    BY <2>1, <2>2, <2>3, ChainWrite
  <2> HIDE DEF s, t
  <2>5. inflight'[conn.sock] = inflight[c] \o s /\ \A d \in Clients : d # conn.sock => inflight'[d] = inflight[d]
    BY <1>0, <2>1, <2>2
  <2>6. Chain(received[conn.sock], inflight'[conn.sock], conn.writeBuf, InTurn)
    BY <2>2, <2>4, <2>5
  <2>7. conn.sock = httpConns[fd].sock /\ received' = received
    BY <2>1, <2>2
  <2> QED
    BY <1>0, <2>1, <2>2, <2>5, <2>6, <2>7, TurnConn
<1>5. ASSUME NEW fd \in Fds, NEW unread, Closes(fd, unread) PROVE TurnInv'
  <2> DEFINE e == httpConns[fd].sock
  <2>1. /\ Keys(httpConns') = Keys(httpConns) \ {fd} /\ e \in Clients
        /\ \A gd \in Fds : gd # fd => httpConns'[gd] = httpConns[gd]
        /\ Keys(httpConns) \subseteq Fds /\ \A gd \in Keys(httpConns) : httpConns[gd].sock \in Clients
    BY <1>0, <1>5, Table DEF Closes
  <2>2. received' = received /\ (inflight' = inflight \/ inflight' = [inflight EXCEPT ![e] = <<>>])
    BY <1>5 DEF Closes, CloseSocket, peerVars
  <2> HIDE DEF e
  <2>3. \A c \in Clients : inflight'[c] = inflight[c] \/ inflight'[c] = <<>>
    BY <1>0, <2>2
  <2>4. \A gd \in Keys(httpConns') : gd \in Keys(httpConns) /\ httpConns'[gd] = httpConns[gd] /\ httpConns'[gd].sock \in Clients
    BY <2>1
  <2> QED
    BY <1>0, <2>2, <2>3, <2>4, TurnOthers
<1>6. CASE Accept
  <2> DEFINE c == Head(backlog)
  <2>1. PICK fd \in Fds \ Keys(httpConns) : httpConns' = [httpConns EXCEPT ![fd] = NewConn(c, IdentOf[c])]
    BY <1>6 DEF Accept
  <2>2. UNCHANGED <<received, inflight>> /\ c \in Clients
    BY <1>0, <1>6, NetHead DEF Accept, CanAccept
  <2>3. httpConns'[fd] = NewConn(c, IdentOf[c]) /\ \A gd \in Fds : gd # fd => httpConns'[gd] = httpConns[gd]
    BY <1>0, <2>1, Table
  <2>4. httpConns'[fd].sock = c /\ httpConns'[fd].writeBuf = <<>>
    BY <2>3 DEF NewConn
  <2> HIDE DEF c
  <2>5. \A gd \in Keys(httpConns') : gd # fd => gd \in Keys(httpConns) /\ httpConns'[gd] = httpConns[gd]
    BY <2>3 DEF Keys
  <2>6. \A gd \in Keys(httpConns) : httpConns[gd].sock \in Clients
    BY <1>0, Table
  <2> QED
    BY <1>0, <2>2, <2>4, <2>5, <2>6, TurnOthers
<1>7. CASE AcceptThrows
  BY <1>7 DEF AcceptThrows, TurnInv, InTurn
<1>8. ASSUME NEW c \in Clients, Connect(c) \/ Send(c) \/ Fin(c) \/ Reset(c) PROVE TurnInv'
  <2>1. httpConns' = httpConns /\ received' = received
    BY <1>8 DEF Connect, Send, Fin, Reset, loopVars
  <2>2. \A d \in Clients : inflight'[d] = inflight[d] \/ inflight'[d] = <<>>
    BY <1>0, <1>8 DEF Connect, Send, Fin, Reset
  <2>3. \A fd \in Keys(httpConns) : httpConns[fd].sock \in Clients
    BY <1>0, Table
  <2> QED
    BY <1>0, <2>1, <2>2, <2>3, TurnOthers
<1>9. ASSUME NEW c \in Clients, Drain(c) PROVE TurnInv'
  <2>1. /\ httpConns' = httpConns /\ inflight[c] # <<>>
        /\ received' = [received EXCEPT ![c] = Append(received[c], Head(inflight[c]))]
        /\ inflight' = [inflight EXCEPT ![c] = Tail(inflight[c])]
    BY <1>9 DEF Drain, loopVars
  <2>2. /\ received'[c] = Append(received[c], Head(inflight[c])) /\ inflight'[c] = Tail(inflight[c])
        /\ \A d \in Clients : d # c => received'[d] = received[d] /\ inflight'[d] = inflight[d]
        /\ received[c] \in Seq(Unit) /\ inflight[c] \in Seq(Unit)
    BY <1>0, <2>1
  <2>3. \A w \in Seq(Unit) : Chain(received[c], inflight[c], w, InTurn) => Chain(received'[c], inflight'[c], w, InTurn)
    BY <2>1, <2>2, ChainDrain
  <2>4. ASSUME NEW d \in Clients PROVE Chain(received'[d], inflight'[d], <<>>, InTurn)
    <3>1. <<>> \in Seq(Unit)
      OBVIOUS
    <3>2. CASE d = c
      BY <1>0, <2>3, <3>1, <3>2, TurnOfClient
    <3>3. CASE d # c
      BY <1>0, <2>2, <3>3, TurnOfClient
    <3> QED
      BY <3>2, <3>3
  <2>5. ASSUME NEW fd \in Keys(httpConns), NEW d, d = httpConns[fd].sock
        PROVE  Chain(received'[d], inflight'[d], httpConns[fd].writeBuf, InTurn)
    <3>1. d \in Clients /\ httpConns[fd].writeBuf \in Seq(Unit) /\ Chain(received[d], inflight[d], httpConns[fd].writeBuf, InTurn)
      BY <1>0, <2>5, TurnOfConn
    <3>2. CASE d = c
      BY <2>3, <3>1, <3>2
    <3>3. CASE d # c
      BY <2>2, <3>1, <3>3
    <3> QED
      BY <3>2, <3>3
  <2> QED
    BY <2>1, <2>4, <2>5 DEF TurnInv, InTurn
<1> QED
  BY <1>0, <1>1, <1>2, <1>3, <1>4, <1>5, <1>6, <1>7, <1>8, <1>9, Effects DEF Client

-----------------------------------------------------------------------------
(* A request is in one place *)

\* Nothing names no request.
LEMMA NamesEmpty == \A q : ~Names(<<>>, q)
<1>1. DOMAIN <<>> = {}
  OBVIOUS
<1> QED
  BY <1>1 DEF Names

\* Two sequences name what one of them names.
LEMMA NamesParts ==
    ASSUME NEW s \in Seq(Unit), NEW t \in Seq(Unit), NEW q
    PROVE  Names(s \o t, q) <=> Names(s, q) \/ Names(t, q)
<1> DEFINE k == Len(s)
           l == Len(t)
           u == s \o t
<1>1. /\ k \in Nat /\ l \in Nat /\ DOMAIN s = 1 .. k /\ DOMAIN t = 1 .. l /\ DOMAIN u = 1 .. k + l
      /\ \A n \in 1 .. k : u[n] = s[n]
      /\ \A n \in 1 .. l : u[k + n] = t[n]
  BY ConcatProperties, LenProperties
<1> HIDE DEF k, l, u
<1>2. \A n \in DOMAIN u : (n \in DOMAIN s /\ u[n] = s[n]) \/ \E m \in DOMAIN t : u[n] = t[m]
  <2> TAKE n \in DOMAIN u
  <2>1. CASE n <= k
    BY <1>1, <2>1
  <2>2. CASE n > k
    <3> DEFINE b == n - k
    <3>1. b \in DOMAIN t /\ n = k + b
      BY <1>1, <2>2
    <3> HIDE DEF b
    <3> QED
      BY <1>1, <3>1
  <2> QED
    BY <1>1, <2>1, <2>2
<1>3. \A n \in DOMAIN s : n \in DOMAIN u /\ u[n] = s[n]
  BY <1>1
<1>4. \A n \in DOMAIN t : k + n \in DOMAIN u /\ u[k + n] = t[n]
  BY <1>1
<1>5. Names(u, q) <=> Names(s, q) \/ Names(t, q)
  BY <1>2, <1>3, <1>4, Zenon DEF Names
<1> QED
  BY <1>5 DEF u

\* A response names the request that it answers.
LEMMA NamesBytes ==
    ASSUME NEW resp \in Response, NEW q, Names(Bytes(resp), q)
    PROVE  q = resp.q
BY DEF Names, Bytes

\* What is under way to a client, and what waits for it, was there before, or is
\* the response that the step gives to its connection.
LEMMA RespondedStep ==
    ASSUME OwnAddress, SInv, [Next]_vars, NEW c \in Clients, NEW q \in Nat, Responded(c, q)'
    PROVE  \/ Responded(c, q)
           \/ \E fd \in Fds, resp \in Response : Adds(fd, resp) /\ resp.c = c /\ resp.q = q
<1>0. /\ IInv /\ NetInv /\ inflight \in [Clients -> Seq(Unit)] /\ received \in [Clients -> Seq(Unit)]
      /\ Keys(httpConns) \subseteq Fds
      /\ \A fd \in Keys(httpConns) : httpConns[fd] \in LiveConn /\ httpConns[fd].writeBuf \in Seq(Unit)
  BY Table DEF SInv, IInv, TypeOK, LiveConn, Conn
<1>1. ASSUME NEW fd \in Keys(httpConns), NEW conn \in LiveConn, conn.sock = httpConns[fd].sock,
             httpConns' = [httpConns EXCEPT ![fd] = conn], received' = received,
             Names(inflight'[c], q) => Responded(c, q),
             conn.sock = c /\ Names(conn.writeBuf, q) => Responded(c, q)
      PROVE  Responded(c, q)
  <2>1. /\ Keys(httpConns') = Keys(httpConns) /\ httpConns'[fd] = conn
        /\ \A gd \in Fds : gd # fd => httpConns'[gd] = httpConns[gd]
    BY <1>0, <1>1, Table
  <2>2. \A gd \in Keys(httpConns') : httpConns'[gd].sock = c /\ Names(httpConns'[gd].writeBuf, q) => Responded(c, q)
    <3> TAKE gd \in Keys(httpConns')
    <3>1. CASE gd = fd
      BY <1>1, <2>1, <3>1
    <3>2. CASE gd # fd
      <4>1. gd \in Keys(httpConns) /\ httpConns'[gd] = httpConns[gd]
        BY <1>0, <2>1, <3>2
      <4> QED
        BY <4>1 DEF Responded
    <3> QED
      BY <3>1, <3>2
  <2> QED
    BY <1>1, <2>2 DEF Responded
<1>2. ASSUME received' = received, inflight'[c] = inflight[c] \/ inflight'[c] = <<>>,
             \A fd \in Keys(httpConns') :
               \/ fd \in Keys(httpConns) /\ httpConns'[fd] = httpConns[fd]
               \/ httpConns'[fd].writeBuf = <<>>
      PROVE  Responded(c, q)
  <2>1. ~Names(<<>>, q)
    BY NamesEmpty
  <2> QED
    BY <1>2, <2>1 DEF Responded
<1>3. CASE httpConns' = httpConns /\ Kept
  BY <1>2, <1>3 DEF Kept, peerVars
<1>4. ASSUME NEW fd \in Fds, NEW conn \in LiveConn, Reads(fd, conn) PROVE Responded(c, q)
  <2>1. /\ fd \in Keys(httpConns) /\ conn.sock = httpConns[fd].sock /\ conn.writeBuf = httpConns[fd].writeBuf
        /\ httpConns' = [httpConns EXCEPT ![fd] = conn] /\ UNCHANGED <<received, inflight>>
    BY <1>4 DEF Reads, Kept, peerVars
  <2> QED
    BY <1>1, <2>1 DEF Responded
<1>5. ASSUME NEW fd \in Fds, NEW resp \in Response, Adds(fd, resp)
      PROVE  Responded(c, q) \/ (resp.c = c /\ resp.q = q)
  <2> SUFFICES ASSUME ~(resp.c = c /\ resp.q = q) PROVE Responded(c, q)
    OBVIOUS
  <2> DEFINE conn == add(httpConns[fd], resp)
             buf  == httpConns[fd].writeBuf
  <2>1. /\ fd \in Keys(httpConns) /\ resp.c = httpConns[fd].sock
        /\ httpConns' = [httpConns EXCEPT ![fd] = conn] /\ UNCHANGED <<received, inflight>>
    BY <1>5, GivenToOwner DEF Adds, Kept, peerVars
  <2>7. httpConns[fd] \in LiveConn /\ buf \in Seq(Unit)
    BY <1>0, <2>1
  <2>2. /\ conn \in LiveConn /\ conn.sock = resp.c /\ conn.writeBuf = buf \o Bytes(resp) /\ buf \in Seq(Unit)
        /\ conn.sock = httpConns[fd].sock
    BY <2>1, <2>7, AddType DEF add, LiveConn, Conn
  <2>3. Names(buf, q) /\ resp.c = c => Responded(c, q)
    BY <2>1 DEF Responded
  <2> HIDE DEF conn, buf
  <2>4. Names(conn.writeBuf, q) => Names(buf, q) \/ q = resp.q
    BY <2>2, NamesParts, NamesBytes, TurnBytes
  <2>5. conn.sock = c /\ Names(conn.writeBuf, q) => Responded(c, q)
    BY <2>2, <2>3, <2>4
  <2>6. Names(inflight'[c], q) => Responded(c, q)
    BY <2>1 DEF Responded
  <2> QED
    BY <1>1, <2>1, <2>2, <2>5, <2>6
<1>6. ASSUME NEW fd \in Fds, NEW num \in Nat, Writes(fd, num) PROVE Responded(c, q)
  <2> DEFINE conn == write(httpConns[fd], num)
             d    == httpConns[fd].sock
             buf  == httpConns[fd].writeBuf
             s    == SubSeq(buf, 1, num)
             t    == SubSeq(buf, num + 1, Len(buf))
  <2>1. /\ fd \in Keys(httpConns) /\ httpConns[fd] \in LiveConn /\ d \in Clients /\ num \in 0 .. Len(buf)
        /\ httpConns' = [httpConns EXCEPT ![fd] = conn] /\ UNCHANGED received
        /\ inflight' = [inflight EXCEPT ![d] = inflight[d] \o s]
    BY <1>0, <1>6, Table DEF Writes, peerVars
  <2>2. conn \in LiveConn /\ conn.sock = d /\ conn.writeBuf = t /\ buf \in Seq(Unit)
    BY <2>1, WriteType DEF write, LiveConn, Conn
  <2>3. Names(buf, q) /\ d = c => Responded(c, q)
    BY <2>1 DEF Responded
  <2>7. conn.sock = httpConns[fd].sock
    BY <2>2
  <2> HIDE DEF conn, buf, d
  <2>4. s \in Seq(Unit) /\ t \in Seq(Unit) /\ (Names(s, q) \/ Names(t, q) => Names(buf, q))
    <3>1. Len(buf) \in Nat /\ \A k \in 1 .. Len(buf) : buf[k] \in Unit
      BY <2>2, ElementOfSeq, LenProperties
    <3>2. s \in Seq(Unit) /\ t \in Seq(Unit)
      BY <2>1, <3>1, SubSeqProperties
    <3>3. buf = SubSeq(buf, 1, Len(buf))
      BY <2>2, SubSeqFull
    <3>4. 1 \in 1 .. Len(buf) + 1 /\ num \in 1 - 1 .. Len(buf) /\ Len(buf) \in num .. Len(buf)
      BY <2>1, <3>1
    <3>5. s \o t = SubSeq(buf, 1, Len(buf))
      BY <2>2, <3>4, ConcatAdjacentSubSeq
    <3>6. buf = s \o t
      BY <3>3, <3>5
    <3> HIDE DEF s, t
    <3> QED
      BY <3>2, <3>6, NamesParts
  <2> HIDE DEF s, t
  <2>5. Names(inflight'[c], q) => Responded(c, q)
    <3>1. CASE d = c
      <4>1. inflight'[c] = inflight[c] \o s /\ inflight[c] \in Seq(Unit)
        BY <1>0, <2>1, <3>1
      <4>2. Names(inflight'[c], q) => Names(inflight[c], q) \/ Names(s, q)
        BY <2>4, <4>1, NamesParts
      <4> QED
        BY <2>3, <2>4, <3>1, <4>2 DEF Responded
    <3>2. CASE d # c
      BY <1>0, <2>1, <3>2 DEF Responded
    <3> QED
      BY <3>1, <3>2
  <2>6. conn.sock = c /\ Names(conn.writeBuf, q) => Responded(c, q)
    BY <2>2, <2>3, <2>4
  <2> QED
    BY <1>1, <2>1, <2>2, <2>5, <2>6, <2>7
<1>7. ASSUME NEW fd \in Fds, NEW unread, Closes(fd, unread) PROVE Responded(c, q)
  <2> DEFINE e == httpConns[fd].sock
  <2>1. /\ Keys(httpConns') = Keys(httpConns) \ {fd}
        /\ \A gd \in Fds : gd # fd => httpConns'[gd] = httpConns[gd]
    BY <1>0, <1>7, Table DEF Closes
  <2>2. received' = received /\ (inflight' = inflight \/ inflight' = [inflight EXCEPT ![e] = <<>>])
    BY <1>7 DEF Closes, CloseSocket, peerVars
  <2> HIDE DEF e
  <2>3. inflight'[c] = inflight[c] \/ inflight'[c] = <<>>
    BY <1>0, <2>2
  <2> QED
    BY <1>0, <1>2, <2>1, <2>2, <2>3
<1>8. CASE Accept
  <2> DEFINE d == Head(backlog)
  <2>1. PICK fd \in Fds \ Keys(httpConns) : httpConns' = [httpConns EXCEPT ![fd] = NewConn(d, IdentOf[d])]
    BY <1>8 DEF Accept
  <2>2. UNCHANGED <<received, inflight>>
    BY <1>8 DEF Accept
  <2>3. httpConns'[fd] = NewConn(d, IdentOf[d]) /\ \A gd \in Fds : gd # fd => httpConns'[gd] = httpConns[gd]
    BY <1>0, <2>1, Table
  <2>4. httpConns'[fd].writeBuf = <<>>
    BY <2>3 DEF NewConn
  <2>5. \A gd \in Keys(httpConns') : gd # fd => gd \in Keys(httpConns) /\ httpConns'[gd] = httpConns[gd]
    BY <2>3 DEF Keys
  <2> QED
    BY <1>2, <2>2, <2>4, <2>5
<1>9. CASE AcceptThrows
  BY <1>2, <1>9 DEF AcceptThrows
<1>10. ASSUME NEW d \in Clients, Connect(d) \/ Send(d) \/ Fin(d) \/ Reset(d) PROVE Responded(c, q)
  <2>1. httpConns' = httpConns /\ received' = received
    BY <1>10 DEF Connect, Send, Fin, Reset, loopVars
  <2>2. inflight'[c] = inflight[c] \/ inflight'[c] = <<>>
    BY <1>0, <1>10 DEF Connect, Send, Fin, Reset
  <2> QED
    BY <1>2, <2>1, <2>2
<1>11. ASSUME NEW d \in Clients, Drain(d) PROVE Responded(c, q)
  <2> DEFINE h == <<Head(inflight[d])>>
             t == Tail(inflight[d])
  <2>1. /\ httpConns' = httpConns /\ inflight[d] # <<>> /\ inflight[d] \in Seq(Unit) /\ received[d] \in Seq(Unit)
        /\ received' = [received EXCEPT ![d] = Append(received[d], Head(inflight[d]))]
        /\ inflight' = [inflight EXCEPT ![d] = t]
    BY <1>0, <1>11 DEF Drain, loopVars
  <2>2. /\ h \in Seq(Unit) /\ t \in Seq(Unit) /\ inflight[d] = h \o t
        /\ Append(received[d], Head(inflight[d])) = received[d] \o h
    BY <2>1, HeadTailProperties, AppendIsConcat
  <2> HIDE DEF h, t
  <2>3. CASE d = c
    <3>1. received'[c] = received[c] \o h /\ inflight'[c] = t
      BY <1>0, <2>1, <2>2, <2>3
    <3>4. received[c] \in Seq(Unit) /\ inflight[c] = h \o t
      BY <2>1, <2>2, <2>3
    <3>5. Names(received[c] \o h, q) => Names(received[c], q) \/ Names(h, q)
      BY <2>2, <3>4, NamesParts
    <3>6. Names(h, q) \/ Names(t, q) => Names(h \o t, q)
      BY <2>2, NamesParts
    <3>2. Names(received'[c], q) => Names(received[c], q) \/ Names(inflight[c], q)
      BY <3>1, <3>4, <3>5, <3>6
    <3>3. Names(inflight'[c], q) => Names(inflight[c], q)
      BY <3>1, <3>4, <3>6
    <3> QED
      BY <2>1, <3>2, <3>3 DEF Responded
  <2>4. CASE d # c
    BY <1>0, <2>1, <2>4 DEF Responded
  <2> QED
    BY <2>3, <2>4
<1> QED
  BY <1>0, <1>3, <1>4, <1>5, <1>6, <1>7, <1>8, <1>9, <1>10, <1>11, Effects DEF Client

\* u is s without its element n; u is s and x.
Without(u, s, n) ==
    \E f \in [DOMAIN u -> DOMAIN s \ {n}] :
        /\ \A k \in DOMAIN u : u[k] = s[f[k]]
        /\ \A k, l \in DOMAIN u : f[k] = f[l] => k = l
With(u, s, x) ==
    \E l : /\ l \notin DOMAIN s /\ DOMAIN u = DOMAIN s \cup {l}
           /\ u[l] = x /\ \A k \in DOMAIN s : u[k] = s[k]

\* RemoveAt() takes one element out.
LEMMA RemovedOne ==
    ASSUME NEW T, NEW s \in Seq(T), NEW n \in DOMAIN s
    PROVE  Without(RemoveAt(s, n), s, n)
<1> DEFINE p == SubSeq(s, 1, n - 1)
           q == SubSeq(s, n + 1, Len(s))
           l == Len(s)
           u == p \o q
<1>1. l \in Nat /\ n \in 1 .. l /\ DOMAIN s = 1 .. l /\ \A m \in 1 .. l : s[m] \in T
  BY ElementOfSeq, LenProperties
<1>2. p \in Seq(T) /\ Len(p) = n - 1 /\ \A m \in 1 .. n - 1 : p[m] = s[m]
  BY <1>1, SubSeqProperties
<1>3. q \in Seq(T) /\ Len(q) = l - n /\ \A m \in 1 .. l - n : q[m] = s[n + m]
  BY <1>1, SubSeqProperties
<1>4. RemoveAt(s, n) = u
  BY DEF RemoveAt
<1> HIDE DEF p, q
<1>5. /\ Len(u) = Len(p) + Len(q) /\ u \in Seq(T)
      /\ \A m \in 1 .. Len(p) + Len(q) : u[m] = IF m <= Len(p) THEN p[m] ELSE q[m - Len(p)]
  BY <1>2, <1>3, ConcatProperties
<1> HIDE DEF u, l
<1>6. DOMAIN u = 1 .. l - 1
  <2>1. Len(p) + Len(q) = l - 1
    BY <1>1, <1>2, <1>3
  <2> QED
    BY <1>5, <2>1, LenProperties
<1>7. ASSUME NEW m \in 1 .. l - 1
      PROVE  IF m < n THEN u[m] = s[m] ELSE u[m] = s[m + 1]
  <2>1. m \in 1 .. Len(p) + Len(q)
    BY <1>1, <1>2, <1>3
  <2>2. CASE m < n
    <3>1. m \in 1 .. n - 1 /\ m <= Len(p)
      BY <1>1, <1>2, <2>2
    <3> QED
      BY <1>2, <1>5, <2>1, <2>2, <3>1
  <2>3. CASE ~(m < n)
    <3>1. m - (n - 1) \in 1 .. l - n /\ n + (m - (n - 1)) = m + 1 /\ ~(m <= Len(p))
      BY <1>1, <1>2, <2>3
    <3>2. u[m] = q[m - (n - 1)]
      BY <1>2, <1>5, <2>1, <3>1
    <3>3. q[m - (n - 1)] = s[n + (m - (n - 1))]
      BY <1>3, <3>1
    <3> QED
      BY <2>3, <3>1, <3>2, <3>3
  <2> QED
    BY <2>2, <2>3
<1> DEFINE f == [k \in 1 .. l - 1 |-> IF k < n THEN k ELSE k + 1]
<1>8. /\ f \in [1 .. l - 1 -> 1 .. l]
      /\ \A k \in 1 .. l - 1 : f[k] # n /\ (k < n => f[k] = k) /\ (~(k < n) => f[k] = k + 1)
  BY <1>1
<1> HIDE DEF f
<1>9. f \in [1 .. l - 1 -> 1 .. l \ {n}]
  BY <1>8
<1>10. \A k \in 1 .. l - 1 : u[k] = s[f[k]]
  BY <1>7, <1>8
<1>11. \A k, m \in 1 .. l - 1 : f[k] = f[m] => k = m
  BY <1>1, <1>8
<1> QED
  BY <1>1, <1>4, <1>6, <1>9, <1>10, <1>11 DEF Without

\* Tail() takes out the first one.
LEMMA TailOne ==
    ASSUME NEW T, NEW s \in Seq(T), s # <<>>
    PROVE  Without(Tail(s), s, 1) /\ 1 \in DOMAIN s /\ s[1] = Head(s)
<1> DEFINE f == [k \in DOMAIN Tail(s) |-> k + 1]
<1>1. /\ 1 \in DOMAIN s /\ s[1] = Head(s)
      /\ \A k \in DOMAIN Tail(s) : k \in Nat \ {0} /\ k + 1 \in DOMAIN s /\ Tail(s)[k] = s[k + 1]
  OBVIOUS
<1>2. /\ f \in [DOMAIN Tail(s) -> DOMAIN s \ {1}]
      /\ \A k \in DOMAIN Tail(s) : Tail(s)[k] = s[f[k]]
      /\ \A k, l \in DOMAIN Tail(s) : f[k] = f[l] => k = l
  BY <1>1
<1> HIDE DEF f
<1> QED
  BY <1>1, <1>2 DEF Without

\* Append() puts one element in.
LEMMA AppendOne ==
    ASSUME NEW T, NEW s \in Seq(T), NEW x \in T
    PROVE  With(Append(s, x), s, x)
<1> DEFINE l == Len(s) + 1
<1>1. /\ l \notin DOMAIN s /\ DOMAIN Append(s, x) = DOMAIN s \cup {l}
      /\ Append(s, x)[l] = x /\ \A k \in DOMAIN s : Append(s, x)[k] = s[k]
  <2>1. Len(s) \in Nat /\ DOMAIN s = 1 .. Len(s)
    BY LenProperties
  <2>2. /\ DOMAIN Append(s, x) = 1 .. Len(s) + 1 /\ Append(s, x)[Len(s) + 1] = x
        /\ \A k \in 1 .. Len(s) : Append(s, x)[k] = s[k]
    BY <2>1, AppendProperties
  <2> QED
    BY <2>1, <2>2
<1> HIDE DEF l
<1> QED
  BY <1>1 DEF With

\* What is left holds no more of S than there was, and none if that was taken out.
LEMMA TakenOut ==
    ASSUME NEW u, NEW s, NEW n \in DOMAIN s, NEW S, Without(u, s, n), Sole(s, S)
    PROVE  /\ Sole(u, S) /\ (Has(u, S) => Has(s, S))
           /\ s[n] \in S => Has(s, S) /\ ~Has(u, S)
<1>1. PICK f \in [DOMAIN u -> DOMAIN s \ {n}] :
        /\ \A k \in DOMAIN u : u[k] = s[f[k]]
        /\ \A k, l \in DOMAIN u : f[k] = f[l] => k = l
  BY DEF Without
<1>2. \A k \in DOMAIN u : f[k] \in DOMAIN s /\ f[k] # n /\ u[k] = s[f[k]]
  BY <1>1
<1> QED
  BY <1>1, <1>2 DEF Has, Sole

\* What is put in is the only one of S if there was none.
LEMMA PutIn ==
    ASSUME NEW u, NEW s, NEW x, NEW S, With(u, s, x), Sole(s, S), x \in S => ~Has(s, S)
    PROVE  Sole(u, S) /\ (Has(u, S) <=> Has(s, S) \/ x \in S)
<1>1. PICK l : /\ l \notin DOMAIN s /\ DOMAIN u = DOMAIN s \cup {l}
               /\ u[l] = x /\ \A k \in DOMAIN s : u[k] = s[k]
  BY DEF With
<1> QED
  BY <1>1, Zenon DEF Has, Sole

\* onIdle() takes a message; a request was handled, with what the handler made of it.
Takes == Mode = "async" /\ mailbox # <<>> /\ mailbox' = Tail(mailbox) /\ UNCHANGED <<appq, dispatched>>
Handled(n, m) ==
    /\ appq' = RemoveAt(appq, n) /\ UNCHANGED dispatched
    /\ mailbox' = mailbox \/ mailbox' = Append(mailbox, m)
    /\ m = Null \/ \E outcome : m = Reply(appq[n], outcome)

\* What a step does to the requests and the responses that are under way.
LEMMA AppSteps ==
    ASSUME [Next]_vars
    PROVE  \/ UNCHANGED appVars
           \/ Mode = "sync" /\ UNCHANGED <<appq, mailbox>>
           \/ Mode = "async" /\ pc = "dispatch" /\ Dispatched /\ appq' = Append(appq, req) /\ UNCHANGED mailbox
           \/ Mode = "async" /\ UNCHANGED <<appq, dispatched>> /\ mailbox' = Append(mailbox, Shutdown)
           \/ Takes
           \/ \E n \in DOMAIN appq : \E m : Handled(n, m)
<1>1. CASE Handle
  <2>1. PICK n \in DOMAIN appq, outcome \in Outcomes :
          /\ appq' = RemoveAt(appq, n)
          /\ \/ mailbox' = Append(mailbox, Reply(appq[n], outcome))
             \/ mailbox' = Append(mailbox, Null)
             \/ mailbox' = mailbox
    BY <1>1 DEF Handle
  <2>2. dispatched' = dispatched
    BY <1>1 DEF Handle
  <2>3. Handled(n, Reply(appq[n], outcome)) \/ Handled(n, Null)
    BY <2>1, <2>2 DEF Handled
  <2> QED
    BY <2>3
<1>2. CASE IdleShutdown \/ IdleResponse \/ IdleNull
  BY <1>2 DEF IdleShutdown, IdleResponse, IdleNull, Takes
<1>3. CASE DispatchReply \/ DispatchNull \/ DispatchHttpException \/ DispatchException
  BY <1>3 DEF DispatchReply, DispatchNull, DispatchHttpException, DispatchException
<1>4. CASE DispatchSend
  BY <1>4 DEF DispatchSend
<1>5. CASE SendShutdown
  BY <1>5 DEF SendShutdown
<1>6. CASE ~(Handle \/ SendShutdown \/ DispatchSend \/ DispatchReply \/ DispatchNull \/ DispatchHttpException
              \/ DispatchException \/ IdleShutdown \/ IdleResponse \/ IdleNull)
  BY <1>6 DEF Next, Server, Poll, ListenError, NoAccept, Accept, AcceptThrows, CloseConn, SkipRead, ReadEOF,
     ReadError, ReadException, ReadData, SkipWrite, Write, WriteError, EndRound, IdleSync, IdleEmpty,
     Client, Connect, Send, Fin, Reset, Drain, vars, appVars
<1> QED
  BY <1>1, <1>2, <1>3, <1>4, <1>5, <1>6

\* A request stays dispatched, and the one at hand becomes so.
LEMMA DoneStep ==
    ASSUME IInv, [Next]_vars, NEW c, NEW q
    PROVE  /\ Done(c, q) => Done(c, q)'
           /\ pc = "dispatch" /\ Dispatched => (Done(c, q)' <=> Done(c, q) \/ Of(req, c, q))
           /\ ~(pc = "dispatch" /\ dispatched' = Append(dispatched, req)) => (Done(c, q)' <=> Done(c, q))
<1>1. dispatched \in Seq(Request) /\ (pc = "dispatch" => req \in Request)
  BY DEF IInv, TypeOK, PcOK
<1>2. CASE pc = "dispatch" /\ dispatched' = Append(dispatched, req)
  <2>1. With(dispatched', dispatched, req)
    BY <1>1, <1>2, AppendOne
  <2>2. req \in Requests(c, q) <=> Of(req, c, q)
    BY <1>1, <1>2 DEF Requests
  <2>3. Has(dispatched', Requests(c, q)) <=> Has(dispatched, Requests(c, q)) \/ req \in Requests(c, q)
    BY <2>1, Zenon DEF With, Has
  <2> QED
    BY <1>2, <2>2, <2>3 DEF Done
<1>3. CASE ~(pc = "dispatch" /\ dispatched' = Append(dispatched, req))
  <2>1. dispatched' = dispatched
    BY <1>3, History
  <2> QED
    BY <1>3, <2>1 DEF Done, Dispatched
<1> QED
  BY <1>2, <1>3

\* The response that a connection is given is for the request at hand, or it is
\* the message that is taken.
LEMMA GivenIs ==
    ASSUME IInv, NEW fd, NEW resp \in Response, Adds(fd, resp)
    PROVE  \/ Mode = "sync" /\ pc = "dispatch" /\ Dispatched /\ Of(req, resp.c, resp.q)
           \/ Takes /\ mailbox[1] \in Responses(resp.c, resp.q)
<1>1. CASE DispatchReply /\ \E outcome : resp = Reply(req, outcome)
  BY <1>1 DEF DispatchReply, Reply, getResponse, Of, Number
<1>2. CASE DispatchHttpException /\ resp = ErrorReply(req)
  BY <1>2 DEF DispatchHttpException, ErrorReply, Of, Number
<1>3. CASE IdleResponse /\ resp = Head(mailbox)
  <2>1. mailbox \in Seq(Message) /\ mailbox # <<>> /\ Head(mailbox) \notin {Shutdown, Null} /\ Takes
    BY <1>3 DEF IdleResponse, IInv, TypeOK, Takes
  <2>2. mailbox[1] = resp /\ mailbox[1] \in Message \ {Null, Shutdown}
    BY <1>3, <2>1, TailOne, ElementOfSeq
  <2> QED
    BY <2>1, <2>2 DEF Responses
<1> QED
  BY <1>1, <1>2, <1>3 DEF Adds, Gives

\* What is sent in a step answers the request at hand, or is the message taken.
LEMMA RespondedFrom ==
    ASSUME OwnAddress, SInv, [Next]_vars, NEW c \in Clients, NEW q \in Nat, Responded(c, q)'
    PROVE  \/ Responded(c, q)
           \/ Mode = "sync" /\ pc = "dispatch" /\ Dispatched /\ Of(req, c, q)
           \/ Takes /\ mailbox[1] \in Responses(c, q)
BY RespondedStep, GivenIs DEF SInv

\* Every step keeps a request in one place.
LEMMA OnceStep ==
    ASSUME OwnAddress, SInv, FreshInv, OnceInv, [Next]_vars
    PROVE  OnceInv'
<1>0. IInv /\ appq \in Seq(Request) /\ mailbox \in Seq(Message)
  BY DEF SInv, IInv, TypeOK
<1>1. Mode = "sync" => appq' = <<>> /\ mailbox' = <<>>
  <2> SUFFICES ASSUME Mode = "sync" PROVE appq' = <<>> /\ mailbox' = <<>>
    OBVIOUS
  <2>1. appq = <<>> /\ mailbox = <<>> /\ DOMAIN appq = {}
    BY DEF OnceInv
  <2> QED
    BY <2>1, AppSteps DEF appVars, Takes
<1>2. ASSUME NEW c \in Clients, NEW q \in Nat
      PROVE  /\ (Asked(c, q) \/ Replied(c, q) \/ Responded(c, q) => Done(c, q))'
             /\ ~(Asked(c, q) /\ Replied(c, q))'
             /\ ~(Asked(c, q) /\ Responded(c, q))'
             /\ ~(Replied(c, q) /\ Responded(c, q))'
             /\ Sole(appq', Requests(c, q)) /\ Sole(mailbox', Responses(c, q))
  <2> DEFINE R == Requests(c, q)
             M == Responses(c, q)
  <2>1. /\ Asked(c, q) \/ Replied(c, q) \/ Responded(c, q) => Done(c, q)
        /\ ~(Asked(c, q) /\ Replied(c, q)) /\ ~(Asked(c, q) /\ Responded(c, q)) /\ ~(Replied(c, q) /\ Responded(c, q))
        /\ Sole(appq, R) /\ Sole(mailbox, M)
    BY DEF OnceInv
  <2>2. (Asked(c, q) <=> Has(appq, R)) /\ (Replied(c, q) <=> Has(mailbox, M))
    BY DEF Asked, Replied
  <2>3. (Asked(c, q)' <=> Has(appq', R)) /\ (Replied(c, q)' <=> Has(mailbox', M))
    BY DEF Asked, Replied, Has, Requests, Responses
  <2>4. Done(c, q) => Done(c, q)'
    BY <1>0, DoneStep
  <2>5. \/ ~Responded(c, q)' \/ Responded(c, q)
        \/ Mode = "sync" /\ pc = "dispatch" /\ Dispatched /\ Of(req, c, q)
        \/ Takes /\ mailbox[1] \in M
    BY RespondedFrom
  <2> HIDE DEF R, M
  <2>6. CASE Mode = "sync"
    <3>1. Responded(c, q)' => Done(c, q)'
      BY <1>0, <2>1, <2>4, <2>5, <2>6, DoneStep DEF Takes
    <3>2. DOMAIN appq' = {} /\ DOMAIN mailbox' = {}
      BY <1>1, <2>6
    <3> QED
      BY <2>3, <3>1, <3>2 DEF R, M, Has, Sole
  <2>7. CASE Takes
    <3>1. Without(mailbox', mailbox, 1) /\ 1 \in DOMAIN mailbox /\ appq' = appq
      BY <1>0, <2>7, TailOne DEF Takes
    <3>2. /\ Sole(mailbox', M) /\ (Has(mailbox', M) => Has(mailbox, M))
          /\ mailbox[1] \in M => Has(mailbox, M) /\ ~Has(mailbox', M)
      BY <2>1, <3>1, TakenOut
    <3>3. Mode # "sync"
      BY <2>7 DEF Takes
    <3> QED
      BY <2>1, <2>2, <2>3, <2>4, <2>5, <3>1, <3>2, <3>3 DEF R, M
  <2>8. CASE ~Takes /\ Mode # "sync"
    <3>1. Responded(c, q)' => Responded(c, q)
      BY <2>5, <2>8
    <3>2. CASE UNCHANGED appVars
      <4>1. appq' = appq /\ mailbox' = mailbox
        BY <3>2 DEF appVars
      <4> QED
        BY <2>1, <2>2, <2>3, <2>4, <3>1, <4>1 DEF R, M
    <3>3. CASE pc = "dispatch" /\ Dispatched /\ appq' = Append(appq, req) /\ UNCHANGED mailbox
      <4>1. req \in Request
        BY <1>0, <3>3 DEF IInv, TypeOK, PcOK
      <4>2. req \in R => ~Done(c, q)
        <5> SUFFICES ASSUME Of(req, c, q), Done(c, q) PROVE FALSE
          BY DEF R, Requests
        <5>1. c = CurrClient /\ q = Number(req)
          BY <3>3 DEF Of, SInv, AddressInv, ReqOf
        <5>2. q < q
          BY <3>3, <5>1 DEF FreshInv, Fresh
        <5> QED
          BY <5>2
      <4>3. Sole(appq', R) /\ (Has(appq', R) <=> Has(appq, R) \/ req \in R)
        <5>1. With(appq', appq, req)
          BY <1>0, <3>3, <4>1, AppendOne
        <5>2. req \in R => ~Has(appq, R)
          BY <2>1, <2>2, <4>2
        <5> QED
          BY <2>1, <5>1, <5>2, PutIn
      <4>4. req \in R => Done(c, q)'
        BY <1>0, <3>3, DoneStep DEF R, Requests
      <4> QED
        BY <2>1, <2>2, <2>3, <2>4, <3>1, <3>3, <4>2, <4>3, <4>4 DEF R, M
    <3>4. CASE UNCHANGED <<appq, dispatched>> /\ mailbox' = Append(mailbox, Shutdown)
      <4>1. Sole(mailbox', M) /\ (Has(mailbox', M) <=> Has(mailbox, M))
        <5>1. Shutdown \in Message /\ Shutdown \notin M
          BY DEF Message, M, Responses
        <5>2. With(mailbox', mailbox, Shutdown)
          BY <1>0, <3>4, <5>1, AppendOne
        <5> QED
          BY <2>1, <5>1, <5>2, PutIn
      <4> QED
        BY <2>1, <2>2, <2>3, <2>4, <3>1, <3>4, <4>1 DEF R, M
    <3>5. ASSUME NEW n \in DOMAIN appq, NEW m, Handled(n, m)
          PROVE  /\ (Asked(c, q) \/ Replied(c, q) \/ Responded(c, q) => Done(c, q))'
                 /\ ~(Asked(c, q) /\ Replied(c, q))'
                 /\ ~(Asked(c, q) /\ Responded(c, q))'
                 /\ ~(Replied(c, q) /\ Responded(c, q))'
                 /\ Sole(appq', Requests(c, q)) /\ Sole(mailbox', Responses(c, q))
      <4>1. Without(appq', appq, n)
        BY <1>0, <3>5, RemovedOne DEF Handled
      <4>2. /\ Sole(appq', R) /\ (Has(appq', R) => Has(appq, R))
            /\ appq[n] \in R => Has(appq, R) /\ ~Has(appq', R)
        BY <2>1, <4>1, TakenOut
      <4>3. m \in Message /\ (m \in M => appq[n] \in R)
        <5>1. appq[n] \in Request
          BY <1>0, ElementOfSeq
        <5>2. CASE m = Null
          BY <5>2 DEF Message, M, Responses
        <5>3. ASSUME NEW outcome, m = Reply(appq[n], outcome)
              PROVE  m \in Message /\ (m \in M => appq[n] \in R)
          <6>1. m \in Message
            BY <5>1, <5>3, ReplyType DEF Message
          <6>2. m.c = appq[n].head[1].c /\ m.q = appq[n].head[1].q
            BY <5>3 DEF Reply, getResponse
          <6> QED
            BY <5>1, <6>1, <6>2 DEF M, R, Responses, Requests, Of, Number
        <5> QED
          BY <3>5, <5>2, <5>3 DEF Handled
      <4>4. Sole(mailbox', M) /\ (Has(mailbox', M) => Has(mailbox, M) \/ m \in M)
        <5>1. CASE mailbox' = mailbox
          BY <2>1, <5>1
        <5>2. CASE mailbox' = Append(mailbox, m)
          <6>1. With(mailbox', mailbox, m)
            BY <1>0, <4>3, <5>2, AppendOne
          <6>2. m \in M => ~Has(mailbox, M)
            BY <2>1, <2>2, <4>2, <4>3
          <6> QED
            BY <2>1, <6>1, <6>2, PutIn
        <5> QED
          BY <3>5, <5>1, <5>2 DEF Handled
      <4> QED
        BY <2>1, <2>2, <2>3, <2>4, <3>1, <4>2, <4>3, <4>4 DEF R, M
    <3> QED
      BY <2>8, <3>2, <3>3, <3>4, <3>5, AppSteps
  <2> QED
    BY <2>6, <2>7, <2>8
<1>3. \A c, q : Requests(c, q)' = Requests(c, q) /\ Responses(c, q)' = Responses(c, q)
  BY DEF Requests, Responses
<1> QED
  BY <1>1, <1>2 DEF OnceInv, Requests, Responses, Of, Number

-----------------------------------------------------------------------------
(* Requests are taken up in turn *)

\* What the parser says of a request that it finds in buf.
LEMMA ParseFresh ==
    ASSUME NEW buf \in Seq(Token), buf # <<>>, NEW ident \in Idents, NEW p, p = parseHttpHeaders(buf, ident), p.req # Null
    PROVE  /\ p.req.head[1] = buf[1] /\ p.rem = ReqLen(buf)
           /\ ReqLen(buf) # 0 => HasContentLength(p.req)
<1> DEFINE e    == EndOfLoop(buf)
           head == SubSeq(buf, 1, e - 1)
<1>1. p.req.head = head /\ p.rem = ReqLen(buf)
  BY DEF parseHttpHeaders, Parsed, Thrown
<1>2. /\ FirstLine(buf) \in 1 .. Len(buf) /\ e \in FirstLine(buf) + 1 .. Len(buf) + 1
      /\ Len(buf) \in Nat /\ \A n \in 1 .. Len(buf) : buf[n] \in Token
  BY FirstLineLemma, EndOfLoopLemma, LenProperties, ElementOfSeq
<1>3. head[1] = buf[1]
  BY <1>2, SubSeqProperties
<1>4. /\ head \in Seq(Token) /\ head # <<>> /\ Len(head) = e - 1
      /\ FirstLine(head) = FirstLine(buf) /\ EndOfLoop(head) = e
      /\ LengthLines(head) = LengthLines(buf)
  BY HeadOf
<1> HIDE DEF head
<1>5. ReqLen(buf) # 0 => HasContentLength(p.req)
  <2> SUFFICES ASSUME ReqLen(buf) # 0 PROVE HasContentLength(p.req)
    OBVIOUS
  <2>1. LengthLines(head) # {}
    BY <1>4 DEF ReqLen
  <2>2. Len(head) = EndOfLoop(head) - 1
    BY <1>4
  <2>3. PICK n \in FirstLine(head) + 1 .. Len(head) : head[n].k = "clen"
    BY <2>1, <2>2 DEF LengthLines
  <2> QED
    BY <1>1, <2>3 DEF HasContentLength
<1> QED
  BY <1>1, <1>3, <1>5

\* A connection that waits for a body has announced it, and the request that
\* read() returns is the first of the input, or was under way before.
LEMMA ReadFresh ==
    ASSUME NEW conn \in LiveConn, NEW buf \in Seq(Token), buf # <<>>, conn.state # "Closing",
           conn.currReq # Null => HasContentLength(conn.currReq), read(conn, buf).err = "none"
    PROVE  LET r == read(conn, buf) IN
           /\ r.conn.currReq # Null => /\ HasContentLength(r.conn.currReq)
                                       /\ r.conn.currReq.head[1] = buf[1]
           /\ r.req # Null => /\ r.conn.currReq = Null
                              /\ \/ r.req.head[1] = buf[1] /\ ReqLen(buf) = 0
                                 \/ conn.currReq # Null /\ r.req = conn.currReq /\ ~HasEndOfHeaders(buf)
<1> DEFINE Good(r) ==
             r.err = "none" =>
               /\ r.conn.currReq # Null => HasContentLength(r.conn.currReq) /\ r.conn.currReq.head[1] = buf[1]
               /\ r.req # Null => /\ r.conn.currReq = Null
                                  /\ \/ r.req.head[1] = buf[1] /\ ReqLen(buf) = 0
                                     \/ conn.currReq # Null /\ r.req = conn.currReq /\ ~HasEndOfHeaders(buf)
<1>1. ASSUME NEW k \in LiveConn, NEW p \in ParseResult,
             ~Complete(p) /\ p.req # Null => p.err # "none" \/ (HasContentLength(p.req) /\ p.req.head[1] = buf[1]),
             Complete(p) => \/ p.err # "none"
                            \/ p.req.head[1] = buf[1] /\ ReqLen(buf) = 0
                            \/ conn.currReq # Null /\ p.req = conn.currReq /\ ~HasEndOfHeaders(buf)
      PROVE  Good(FinishRead(k, p))
  <2> DEFINE done == [k EXCEPT !.currReq = Null, !.readBuf = <<>>, !.state = "Headers"]
             more == [k EXCEPT !.currReq = p.req]
  <2>1. done.currReq = Null /\ more.currReq = p.req
    BY DEF LiveConn, Conn
  <2> HIDE DEF done, more
  <2>2. Good(ReadResult(done, p.req, "none")) \/ ~Complete(p) \/ p.err # "none"
    BY <1>1, <2>1 DEF ReadResult
  <2>3. Good(ReadResult(more, Null, "none")) \/ Complete(p) \/ p.err # "none"
    BY <1>1, <2>1 DEF ReadResult
  <2>4. Good(ReadResult(k, Null, p.err)) \/ p.err = "none"
    BY DEF ReadResult
  <2> HIDE DEF Good
  <2> QED
    BY <2>2, <2>3, <2>4 DEF FinishRead, done, more
<1>2. /\ conn.readBuf \in Seq(Token) /\ conn.readBuf \o buf \in Seq(Token) /\ conn.ident \in Idents
      /\ conn.state \in {"Headers", "Body"} /\ conn.currReq \in Request \cup {Null}
  BY ConcatProperties DEF LiveConn, Conn
<1> HIDE DEF Good
<1>3. CASE conn.state = "Headers"
  <2> DEFINE all    == conn.readBuf \o buf
             found  == HasEndOfHeaders(all)
             stored == IF conn.readBuf = <<>> /\ found THEN <<>> ELSE all
             p      == parseHttpHeaders(buf, conn.ident)
             o      == Parsed(conn.currReq, 0)
             kb     == [conn EXCEPT !.readBuf = stored, !.state = "Body"]
             kh     == [conn EXCEPT !.readBuf = stored]
  <2>1. stored \in Seq(Token)
    BY <1>2, EmptySeq
  <2>2. kb \in LiveConn /\ kh \in LiveConn
    BY <2>1 DEF LiveConn, Conn
  <2>3. p \in ParseResult
    BY <1>2, ParseType
  <2>4. Good(FinishRead(kb, p))
    <3>1. p.req # Null => /\ p.req.head[1] = buf[1] /\ p.rem = ReqLen(buf)
                          /\ ReqLen(buf) # 0 => HasContentLength(p.req)
      BY <1>2, ParseFresh
    <3> HIDE DEF p, kb
    <3> QED
      BY <1>1, <2>2, <2>3, <3>1 DEF Complete
  <2>5. o \in ParseResult /\ o.req = conn.currReq /\ (Complete(o) <=> conn.currReq # Null)
    BY <1>2 DEF Parsed, ParseResult, Complete
  <2>6. ~found => ~HasEndOfHeaders(buf)
    <3> SUFFICES ASSUME NEW n \in DOMAIN buf, BlankAt(buf, n) PROVE HasEndOfHeaders(all)
      BY DEF HasEndOfHeaders
    <3> DEFINE l == Len(conn.readBuf)
    <3>1. /\ l \in Nat /\ Len(buf) \in Nat /\ DOMAIN buf = 1 .. Len(buf) /\ DOMAIN all = 1 .. l + Len(buf)
          /\ \A k \in 1 .. Len(buf) : all[l + k] = buf[k]
      BY <1>2, ConcatProperties, LenProperties
    <3> HIDE DEF l, all
    <3> DEFINE m == n - 1
    <3>2. n \in 1 .. Len(buf) /\ buf[n].k = "end" /\ n > 1 /\ buf[m].k # "body"
      BY <3>1 DEF BlankAt
    <3>3. m \in 1 .. Len(buf) /\ l + n \in DOMAIN all /\ l + n > 1 /\ (l + n) - 1 = l + m
      BY <3>1, <3>2
    <3>4. all[l + n] = buf[n] /\ all[l + m] = buf[m]
      BY <3>1, <3>2, <3>3
    <3>5. BlankAt(all, l + n)
      BY <3>2, <3>3, <3>4 DEF BlankAt
    <3> QED
      BY <3>3, <3>5 DEF HasEndOfHeaders
  <2>7. found \/ Good(FinishRead(kh, o))
    <3> HIDE DEF o, kh, found
    <3> QED
      BY <1>1, <2>2, <2>5, <2>6
  <2>8. Good(ReadHeaders(conn, buf))
    BY <2>4, <2>7 DEF ReadHeaders
  <2> QED
    BY <1>3, <2>8 DEF read, Good
<1>4. CASE conn.state = "Body"
  <2> DEFINE p == onHttpData(conn.currReq, buf)
  <2>1. p \in ParseResult
    BY <1>2, OnHttpDataType
  <2>2. p.req # Null => p.err # "none"
    BY DEF onHttpData, Parsed, Thrown
  <2> HIDE DEF p
  <2>3. Complete(p) => p.req # Null
    BY DEF Complete
  <2>4. Good(FinishRead(conn, p))
    BY <1>1, <2>1, <2>2, <2>3
  <2> QED
    BY <1>4, <2>4 DEF read, Good, p
<1> QED
  BY <1>2, <1>3, <1>4

\* The numbers of a stream do not decrease.
LEMMA Ordered ==
    ASSUME WellFormed, NEW c \in Clients, NEW m \in DOMAIN Stream[c], NEW n \in DOMAIN Stream[c], m <= n
    PROVE  Stream[c][m].q \in Nat /\ Stream[c][n].q \in Nat /\ Stream[c][m].q <= Stream[c][n].q
<1>1. PICK lo, e, hi \in DOMAIN Stream[c] : m \in lo .. hi /\ RequestAt(c, lo, e, hi)
  BY Zenon DEF WellFormed
<1>2. /\ Len(Stream[c]) \in Nat /\ DOMAIN Stream[c] = 1 .. Len(Stream[c])
      /\ lo \in Nat \ {0} /\ hi \in Nat /\ hi <= Len(Stream[c])
      /\ Stream[c][m].q \in Nat /\ Stream[c][n].q \in Nat
      /\ \A k \in lo .. hi : Stream[c][k].q = Stream[c][lo].q
      /\ \A k \in hi + 1 .. Len(Stream[c]) : Stream[c][lo].q < Stream[c][k].q
  BY <1>1, Layout
<1>3. n \in lo .. hi \/ n \in hi + 1 .. Len(Stream[c])
  BY <1>1, <1>2
<1> QED
  BY <1>1, <1>2, <1>3

\* The length of the body of the first request is announced if there is a body.
LEMMA BodyAnnounced ==
    ASSUME NEW buf, NEW c, NEW b, NEW m, NEW e, NEW hi, StartsWith(buf, c, b, m, e, hi), e < hi
    PROVE  ReqLen(buf) > 0
<1>1. /\ c \in Clients /\ b \in Nat /\ b + 1 \in DOMAIN Stream[c] /\ e \in DOMAIN Stream[c] /\ hi \in DOMAIN Stream[c]
      /\ RequestAt(c, b + 1, e, hi) /\ m \in e .. Len(Stream[c])
  BY DEF StartsWith
<1>2. e \in Nat /\ hi \in Nat /\ Len(Stream[c]) \in Nat
  <2>1. Len(Stream[c]) \in Nat /\ DOMAIN Stream[c] = 1 .. Len(Stream[c])
    BY <1>1, StreamAssumption, LenProperties
  <2> QED
    BY <1>1, <2>1
<1>3. PICK n \in b + 1 + 1 .. e - 1 : /\ Stream[c][n].k = "clen" /\ Stream[c][n].len > 0
                                      /\ \A k \in n + 1 .. e - 1 : Stream[c][k].k # "clen"
  BY <1>1 DEF RequestAt
<1>4. /\ buf \in Seq(Token) /\ Len(buf) = m - b /\ \A k \in 1 .. m - b : buf[k] = Stream[c][b + k]
      /\ FirstLine(buf) = 1 /\ EndOfLoop(buf) = e - b
  BY HeadIn
<1> DEFINE L == LengthLines(buf)
           j == n - b
<1>5. L = {k \in 2 .. e - b - 1 : buf[k].k = "clen"}
  <2>1. 1 + 1 = 2
    OBVIOUS
  <2> QED
    BY <1>4, <2>1 DEF LengthLines
<1>6. \A k \in 2 .. e - b - 1 : k \in Nat /\ buf[k] = Stream[c][b + k]
  BY <1>1, <1>2, <1>4
<1>7. j \in 2 .. e - b - 1 /\ b + j = n
  BY <1>1, <1>2, <1>3
<1> HIDE DEF j, L
<1>8. j \in L
  BY <1>3, <1>5, <1>6, <1>7
<1>9. LastOf(L) \in L /\ j <= LastOf(L)
  <2>1. L \in SUBSET Nat /\ e - b \in Nat /\ \A k \in L : k <= e - b
    BY <1>1, <1>2, <1>5, <1>7
  <2> QED
    BY <1>8, <2>1, LastOfLemma
<1>10. LastOf(L) = j
  <2> DEFINE z == LastOf(L)
  <2>1. z \in 2 .. e - b - 1 /\ buf[z].k = "clen" /\ j <= z
    BY <1>5, <1>9
  <2> HIDE DEF z
  <2>2. b + z \notin n + 1 .. e - 1
    BY <1>3, <1>6, <2>1
  <2>3. z = j
    BY <1>1, <1>2, <1>7, <2>1, <2>2
  <2> QED
    BY <2>3 DEF z
<1>11. ReqLen(buf) = buf[j].len
  BY <1>8, <1>10 DEF ReqLen, L
<1> QED
  BY <1>3, <1>6, <1>7, <1>11

\* A token belongs to one request.
LEMMA SameRequest ==
    ASSUME NEW c \in Clients,
           NEW lo \in DOMAIN Stream[c], NEW e \in DOMAIN Stream[c], NEW hi \in DOMAIN Stream[c], RequestAt(c, lo, e, hi),
           NEW lp \in DOMAIN Stream[c], NEW ep \in DOMAIN Stream[c], NEW hp \in DOMAIN Stream[c], RequestAt(c, lp, ep, hp),
           NEW n \in lo .. hi, n \in lp .. hp
    PROVE  lo = lp /\ e = ep
<1> DEFINE q == Stream[c][n].q
           L == Len(Stream[c])
<1>1. /\ lo \in Nat \ {0} /\ e \in Nat /\ hi \in Nat /\ lo < e /\ e <= hi /\ hi <= L
      /\ Stream[c][n].q = Stream[c][lo].q
      /\ \A k \in lo .. hi : Stream[c][k].k = "end" <=> k = e
      /\ \A k \in hi + 1 .. L : Stream[c][lo].q < Stream[c][k].q
      /\ \A k \in 1 .. lo - 1 : Stream[c][k].q < Stream[c][lo].q
  BY Layout
<1>2. /\ lp \in Nat \ {0} /\ ep \in Nat /\ hp \in Nat /\ lp < ep /\ ep <= hp /\ hp <= L
      /\ Stream[c][n].q = Stream[c][lp].q /\ Stream[c][ep].q = Stream[c][lp].q
      /\ \A k \in lp .. hp : Stream[c][k].k = "end" <=> k = ep
      /\ \A k \in 1 .. lp - 1 : Stream[c][k].q < Stream[c][lp].q
  <2>1. /\ lp \in Nat \ {0} /\ ep \in Nat /\ hp \in Nat /\ lp < ep /\ ep <= hp /\ hp <= L
        /\ \A k \in lp .. hp : Stream[c][k].q = Stream[c][lp].q
        /\ \A k \in lp .. hp : Stream[c][k].k = "end" <=> k = ep
        /\ \A k \in 1 .. lp - 1 : Stream[c][k].q < Stream[c][lp].q
    BY Layout
  <2>2. ep \in lp .. hp
    BY <2>1
  <2> QED
    BY <2>1, <2>2
<1>3. L \in Nat /\ DOMAIN Stream[c] = 1 .. L /\ Stream[c][lo].q \in Nat /\ n \in DOMAIN Stream[c]
  BY Layout
<1> HIDE DEF L
<1>4. Stream[c][lo].q = q /\ Stream[c][lp].q = q /\ Stream[c][ep].q = q /\ q \in Nat
  BY <1>1, <1>2, <1>3
<1> HIDE DEF q
<1>5. lo \notin 1 .. lp - 1
  BY <1>2, <1>4
<1>6. lp \notin 1 .. lo - 1
  BY <1>1, <1>4
<1>7. lo = lp
  BY <1>1, <1>2, <1>5, <1>6
<1>8. ep \notin hi + 1 .. L
  BY <1>1, <1>4
<1>9. ep \in lo .. hi
  BY <1>1, <1>2, <1>3, <1>7, <1>8
<1>10. ep \in lp .. hp
  BY <1>2
<1> QED
  BY <1>1, <1>2, <1>7, <1>9, <1>10

\* Behind a segment, the next request comes, or the body of one whose head is in
\* the segment: the first request there, which then announces the body, or a
\* later one.
LEMMA CutAt ==
    ASSUME WellFormed, NEW c \in Clients, NEW b, NEW s, b < s, Cut(c, b), Cut(c, s), NEW buf, IsPart(buf, c, b, s)
    PROVE  \/ \A n \in s + 1 .. Len(Stream[c]) : Stream[c][s].q < Stream[c][n].q
           \/ HasEndOfHeaders(buf) /\ (Stream[c][b + 1].q < Stream[c][s].q \/ ReqLen(buf) > 0)
<1> DEFINE L == Len(Stream[c])
           a == b + 1
<1>1. L \in Nat /\ DOMAIN Stream[c] = 1 .. L
  BY StreamAssumption, LenProperties
<1>2. b \in Nat /\ s \in Nat /\ s <= L
  BY DEF IsPart
<1>3. Len(buf) = s - b /\ buf \in Seq(Token) /\ \A k \in 1 .. s - b : buf[k] = Stream[c][b + k]
  BY PartOf
<1> HIDE DEF L
<1>4. s \in DOMAIN Stream[c] /\ a \in DOMAIN Stream[c] /\ b < L
  BY <1>1, <1>2
<1>5. PICK lo, e, hi \in DOMAIN Stream[c] : s \in lo .. hi /\ RequestAt(c, lo, e, hi)
  BY <1>4, Zenon DEF WellFormed
<1>6. lo \in Nat \ {0} /\ e \in Nat /\ hi \in Nat /\ lo < e /\ e <= hi /\ hi <= L
  BY <1>5, Layout DEF L
<1>7. /\ Stream[c][s].q = Stream[c][lo].q /\ Stream[c][e].k = "end"
      /\ \A n \in lo .. e : Stream[c][n].k # "body"
      /\ \A n \in hi + 1 .. L : Stream[c][lo].q < Stream[c][n].q
      /\ \A n \in 1 .. lo - 1 : Stream[c][n].q < Stream[c][lo].q
  <2>1. e \in lo .. hi
    BY <1>6
  <2> QED
    BY <1>5, <2>1, Layout DEF L
<1>8. CASE hi <= s
  <2>1. s = hi
    BY <1>2, <1>5, <1>6, <1>8
  <2>2. \A n \in s + 1 .. L : Stream[c][s].q < Stream[c][n].q
    BY <1>7, <2>1
  <2> QED
    BY <2>2 DEF L
<1>9. CASE s < hi
  <2>1. s = e
    <3>1. s \in lo .. L
      BY <1>2, <1>5, <1>6
    <3>2. ~(hi <= s)
      BY <1>2, <1>6, <1>9
    <3> QED
      BY <1>5, <3>1, <3>2, EndAt DEF L
  <2>2. a <= lo
    <3>1. PICK lp, ep, hp \in DOMAIN Stream[c] : RequestAt(c, lp, ep, hp) /\ a \in lp .. hp /\ (a = lp \/ ep <= b)
      BY <1>2, <1>4, StartOf DEF L
    <3>2. CASE a \in lo .. hi
      <4>1. lo = lp /\ e = ep
        BY <1>5, <3>1, <3>2, SameRequest
      <4>2. b < e
        BY <2>1
      <4>3. lo <= a
        BY <1>2, <1>6, <3>2
      <4> QED
        BY <1>2, <1>6, <3>1, <4>1, <4>2, <4>3
    <3>3. a <= hi
      BY <1>2, <1>6, <1>9
    <3> QED
      BY <1>2, <1>6, <3>2, <3>3
  <2>3. HasEndOfHeaders(buf)
    <3> DEFINE k == s - b
               l == k - 1
    <3>1. k \in 1 .. s - b /\ l \in 1 .. s - b /\ k > 1 /\ b + k = e /\ b + l = e - 1 /\ e - 1 \in lo .. e
      BY <1>2, <1>6, <2>1, <2>2
    <3>2. buf[k] = Stream[c][b + k] /\ buf[l] = Stream[c][b + l]
      BY <1>3, <3>1
    <3>3. buf[k].k = "end" /\ buf[l].k # "body"
      BY <1>7, <3>1, <3>2
    <3>4. k \in DOMAIN buf
      BY <1>3, <3>1, LenProperties
    <3> HIDE DEF k
    <3> QED
      BY <3>1, <3>3, <3>4 DEF HasEndOfHeaders, BlankAt
  <2>4. CASE a = lo
    <3>1. StartsWith(buf, c, b, s, e, hi)
      <4>1. s \in e .. Len(Stream[c])
        BY <1>1, <1>2, <1>6, <2>1 DEF L
      <4>2. a \in DOMAIN Stream[c] /\ RequestAt(c, a, e, hi)
        BY <1>5, <2>4
      <4>3. buf = SubSeq(Stream[c], b + 1, s)
        BY DEF IsPart
      <4> QED
        BY <1>2, <1>5, <4>1, <4>2, <4>3, Zenon DEF StartsWith, a
    <3>2. e < hi
      BY <1>9, <2>1
    <3>3. ReqLen(buf) > 0
      BY <3>1, <3>2, BodyAnnounced
    <3> QED
      BY <2>3, <3>3
  <2>5. CASE a < lo
    <3>1. a \in 1 .. lo - 1
      BY <1>2, <1>6, <2>5
    <3>2. Stream[c][a].q < Stream[c][s].q
      BY <1>7, <3>1
    <3> QED
      BY <2>3, <3>2
  <2> QED
    BY <1>2, <1>6, <2>2, <2>4, <2>5
<1> QED
  BY <1>2, <1>6, <1>8, <1>9

\* So it is with what waits to be read.
LEMMA CutLemma ==
    ASSUME WellFormed, NEW c \in Clients, NEW s, NEW buf \in Seq(Token), buf # <<>>, Fits(c, s, buf)
    PROVE  \E b \in Nat : 
             /\ b = s - Len(buf) /\ s \in Nat /\ b < s /\ s <= Len(Stream[c]) /\ buf[1] = Stream[c][b + 1]
             /\ \/ \A n \in s + 1 .. Len(Stream[c]) : Stream[c][s].q < Stream[c][n].q
                \/ HasEndOfHeaders(buf) /\ (Stream[c][b + 1].q < Stream[c][s].q \/ ReqLen(buf) > 0)
<1> DEFINE b == s - Len(buf)
<1>1. Len(buf) \in Nat \ {0} /\ Len(Stream[c]) \in Nat /\ Stream[c] \in Seq(Token)
  BY StreamAssumption, LenProperties, EmptySeq
<1>2. s \in 0 .. Len(Stream[c]) /\ b \in 0 .. s
  BY DEF Fits
<1>3. Cut(c, s) /\ Cut(c, b) /\ buf = SubSeq(Stream[c], b + 1, s)
  BY DEF Fits
<1>4. b < s /\ b \in Nat /\ s \in Nat /\ s <= Len(Stream[c])
  BY <1>1, <1>2
<1>5. b = s - Len(buf)
  OBVIOUS
<1> HIDE DEF b
<1>6. IsPart(buf, c, b, s)
  BY <1>1, <1>3, <1>4 DEF IsPart
<1>7. buf[1] = Stream[c][b + 1]
  <2>1. 1 \in 1 .. s - b
    BY <1>4
  <2> QED
    BY <1>6, <2>1, PartOf
<1>8. \/ \A n \in s + 1 .. Len(Stream[c]) : Stream[c][s].q < Stream[c][n].q
      \/ HasEndOfHeaders(buf) /\ (Stream[c][b + 1].q < Stream[c][s].q \/ ReqLen(buf) > 0)
  BY <1>3, <1>4, <1>6, CutAt
<1> QED
  BY <1>4, <1>5, <1>7, <1>8

\* The loop never gives back what it has read of a client's stream.
LEMMA TakenStep ==
    ASSUME WholeHeads, IInv, StreamInv, [Next]_vars, NEW c \in Clients
    PROVE  Taken(c) \in Nat /\ Taken(c)' \in Nat /\ Taken(c) <= Taken(c)'
<1>1. /\ inq \in [Clients -> Seq(Token)] /\ sent \in [Clients -> Nat]
      /\ Stream[c] \in Seq(Token) /\ Len(Stream[c]) \in Nat
      /\ Len(inq[c]) \in Nat /\ Len(<<>>) = 0
  BY StreamAssumption, LenProperties DEF IInv, TypeOK
<1>2. Taken(c) \in Nat
  BY <1>1 DEF StreamInv, Fits, Taken
<1>3. CASE sent' = sent /\ (inq'[c] = inq[c] \/ inq'[c] = <<>>)
  BY <1>1, <1>2, <1>3 DEF Taken
<1>4. ASSUME NEW d \in Clients, Send(d), d \notin closed
      PROVE  Taken(c)' = Taken(c)
  <2>1. PICK n \in SegmentEnds(d) :
           /\ inq' = [inq EXCEPT ![d] = inq[d] \o SubSeq(Stream[d], sent[d] + 1, n)]
           /\ sent' = [sent EXCEPT ![d] = n]
    BY <1>4 DEF Send
  <2>2. CASE c # d
    BY <1>1, <2>1, <2>2 DEF Taken
  <2>3. CASE c = d
    <3> DEFINE u == SubSeq(Stream[c], sent[c] + 1, n)
    <3>1. n \in sent[c] + 1 .. Len(Stream[c]) /\ sent[c] \in Nat
      BY <1>1, <1>4, <2>3, SegmentCut DEF Send
    <3>2. n \in Nat /\ sent[c] <= n /\ n <= Len(Stream[c])
      BY <1>1, <3>1
    <3>3. u \in Seq(Token) /\ Len(u) = n - sent[c]
      BY <1>1, <3>1, <3>2, Part
    <3>4. inq'[c] = inq[c] \o u /\ sent'[c] = n
      BY <1>1, <2>1, <2>3
    <3> HIDE DEF u
    <3>5. Len(inq'[c]) = Len(inq[c]) + Len(u)
      <4>1. inq[c] \in Seq(Token)
        BY <1>1
      <4>2. Len(inq[c] \o u) = Len(inq[c]) + Len(u)
        BY <3>3, <4>1, ConcatProperties
      <4> QED
        BY <3>4, <4>2
    <3> QED
      BY <1>1, <3>1, <3>2, <3>3, <3>4, <3>5 DEF Taken
  <2> QED
    BY <2>2, <2>3
<1>5. ASSUME NEW d, inq' = [inq EXCEPT ![d] = <<>>]
      PROVE  inq'[c] = inq[c] \/ inq'[c] = <<>>
  BY <1>1, <1>5
<1>6. \/ sent' = sent /\ (inq'[c] = inq[c] \/ inq'[c] = <<>>)
      \/ \E d \in Clients : Send(d) /\ d \notin closed
  BY <1>5 DEF Next, Server, Poll, ListenError, NoAccept, Accept, AcceptThrows, CloseConn, OnClose,
       SkipRead, ReadEOF, ReadError, ReadException, ReadData, Consume, DispatchReply, DispatchNull, DispatchHttpException,
       DispatchException, DispatchSend, SkipWrite, Write, WriteError, EndRound, IdleSync, IdleEmpty, CloseSocket,
       IdleShutdown, IdleResponse, IdleNull, Client, Connect, Send, Fin, Reset, Drain, Handle, SendShutdown,
       vars, netVars, peerVars
<1> QED
  BY <1>2, <1>3, <1>4, <1>6

\* So nothing comes again, and what is still to come stays behind what was passed.
LEMMA AheadStep ==
    ASSUME WholeHeads, IInv, StreamInv, [Next]_vars, NEW c \in Clients
    PROVE  /\ \A q : Ahead(c, q)' => Ahead(c, q)
           /\ \A n : Reached(c, n) => Reached(c, n)'
           /\ \A n : Passed(c, n) => Passed(c, n)'
<1>1. \A q : Ahead(c, q)' => Ahead(c, q)
  <2> SUFFICES ASSUME NEW q, NEW n \in Taken(c)' + 1 .. Len(Stream[c]), Stream[c][n].q = q PROVE Ahead(c, q)
    BY DEF Ahead
  <2>1. Taken(c) \in Nat /\ Taken(c)' \in Nat /\ Taken(c) <= Taken(c)'
    BY TakenStep
  <2>2. Len(Stream[c]) \in Nat
    BY StreamAssumption, LenProperties
  <2>3. n \in Taken(c) + 1 .. Len(Stream[c])
    BY <2>1, <2>2
  <2> QED
    BY <2>3 DEF Ahead
<1>2. ASSUME NEW n, Reached(c, n) PROVE Reached(c, n)'
  BY <1>1, <1>2 DEF Reached
<1>3. ASSUME NEW n, Passed(c, n) PROVE Passed(c, n)'
  BY <1>1, <1>3 DEF Passed
<1> QED
  BY <1>1, <1>2, <1>3

\* What the loop reads: its first request comes after all that were dispatched
\* and is not behind what is still to come; it is in front of it if it has no
\* body, and so is a request that waits for what is read and is not a head.
LEMMA InputFresh ==
    ASSUME WellFormed, IInv, StreamInv, FreshInv, NEW c \in Clients, inq[c] # <<>>, inq'[c] = <<>>, sent' = sent,
           NEW f, f = inq[c][1].q
    PROVE  /\ f \in Nat /\ Fresh(c, f) /\ Reached(c, f)'
           /\ ReqLen(inq[c]) = 0 => Passed(c, f)'
           /\ \A n \in Nat : Reached(c, n) /\ ~HasEndOfHeaders(inq[c]) => Passed(c, n)'
<1> DEFINE L == Len(Stream[c])
           s == sent[c]
<1>1. inq[c] \in Seq(Token) /\ L \in Nat /\ DOMAIN Stream[c] = 1 .. L /\ Fits(c, s, inq[c]) /\ s \in Nat /\ Len(<<>>) = 0
  BY StreamAssumption, LenProperties DEF IInv, TypeOK, StreamInv
<1>2. PICK b \in Nat : 
             /\ b = s - Len(inq[c]) /\ s \in Nat /\ b < s /\ s <= L /\ inq[c][1] = Stream[c][b + 1]
             /\ \/ \A n \in s + 1 .. L : Stream[c][s].q < Stream[c][n].q
                \/ HasEndOfHeaders(inq[c]) /\ (Stream[c][b + 1].q < Stream[c][s].q \/ ReqLen(inq[c]) > 0)
  BY <1>1, CutLemma
<1>3. Taken(c) = b /\ Taken(c)' = s
  BY <1>1, <1>2 DEF Taken
<1> DEFINE Q(n) == Stream[c][n].q
           a == b + 1
<1>4. \A m, n \in 1 .. L : Q(m) \in Nat /\ (m <= n => Q(m) <= Q(n))
  BY <1>1, Ordered
<1>5. /\ \A q : Ahead(c, q) <=> \E n \in a .. L : Q(n) = q
      /\ \A q : Ahead(c, q)' <=> \E n \in s + 1 .. L : Q(n) = q
  BY <1>3 DEF Ahead
<1>6. /\ a \in 1 .. L /\ s \in 1 .. L /\ a <= s /\ a \in a .. L /\ s \in a .. L
      /\ \A n \in s + 1 .. L : n \in 1 .. L /\ a <= n /\ s <= n
  BY <1>1, <1>2
<1>7. f = Q(a)
  BY <1>2
<1>8. \/ \A n \in s + 1 .. L : Q(s) < Q(n)
      \/ HasEndOfHeaders(inq[c]) /\ (Q(a) < Q(s) \/ ReqLen(inq[c]) > 0)
  BY <1>2
<1> HIDE DEF Q, a, s, L
<1>9. f \in Nat /\ Ahead(c, f) /\ Ahead(c, Q(s)) /\ Q(s) \in Nat /\ f <= Q(s)
  BY <1>4, <1>5, <1>6, <1>7
<1>10. Fresh(c, f)
  BY <1>9 DEF FreshInv, Passed, Fresh
<1>11. \A n \in s + 1 .. L : Q(n) \in Nat /\ f <= Q(n) /\ Q(s) <= Q(n)
  BY <1>4, <1>6, <1>7
<1>12. Reached(c, f)'
  <2> SUFFICES ASSUME NEW q \in Nat, Ahead(c, q)' PROVE f <= q
    BY DEF Reached
  <2> QED
    BY <1>5, <1>11
<1>13. ASSUME ReqLen(inq[c]) = 0 PROVE Passed(c, f)'
  <2> SUFFICES ASSUME NEW q \in Nat, Ahead(c, q)' PROVE f < q
    BY DEF Passed
  <2>1. PICK n \in s + 1 .. L : Q(n) = q
    BY <1>5
  <2>2. ~(ReqLen(inq[c]) > 0)
    BY <1>13
  <2>3. Q(s) < Q(n) \/ f < Q(s)
    BY <1>7, <1>8, <2>2
  <2> QED
    BY <1>9, <1>11, <2>1, <2>3
<1>14. ASSUME NEW n \in Nat, Reached(c, n), ~HasEndOfHeaders(inq[c]) PROVE Passed(c, n)'
  <2> SUFFICES ASSUME NEW q \in Nat, Ahead(c, q)' PROVE n < q
    BY DEF Passed
  <2>1. PICK m \in s + 1 .. L : Q(m) = q
    BY <1>5
  <2>2. Q(s) < Q(m)
    BY <1>8, <1>14
  <2>3. n <= Q(s)
    BY <1>9, <1>14 DEF Reached
  <2> QED
    BY <1>9, <2>1, <2>2, <2>3
<1> QED
  BY <1>9, <1>10, <1>12, <1>13, <1>14

\* The history grows where the loop leaves the request at hand.
LEMMA LeavesDispatch ==
    ASSUME [Next]_vars
    PROVE  dispatched' = dispatched \/ (pc = "dispatch" /\ Dispatched /\ pc' # "dispatch")
  BY DEF Next, Server, Poll, ListenError, NoAccept, Accept, AcceptThrows, CloseConn, OnClose, Merge,
       SkipRead, ReadEOF, ReadError, ReadException, ReadData, DispatchReply, DispatchNull, DispatchHttpException,
       DispatchException, DispatchSend, Dispatched, SkipWrite, Write, WriteError, EndRound, IdleSync, IdleEmpty,
       IdleShutdown, IdleResponse, IdleNull, Client, Connect, Send, Fin, Reset, Drain, Handle, SendShutdown,
       vars, appVars

\* What a request that waits for its body has to do with the set S of clients and
\* numbers.
Timely(conn, S) ==
    conn.currReq # Null => HasContentLength(conn.currReq) /\ <<conn.sock, Number(conn.currReq)>> \in S

\* Only read() takes up a request.
LEMMA TimelyStep ==
    ASSUME IInv, [Next]_vars, NEW S, \A fd \in Keys(httpConns) : Timely(httpConns[fd], S),
           ReadData => Timely(ReadInput.conn, S)
    PROVE  \A fd \in Keys(httpConns') : Timely(httpConns'[fd], S)
<1>1. ASSUME NEW fd \in Fds, NEW conn \in LiveConn, httpConns' = [httpConns EXCEPT ![fd] = conn],
             fd \in Keys(httpConns), Timely(conn, S)
      PROVE  \A gd \in Keys(httpConns') : Timely(httpConns'[gd], S)
  <2>1. httpConns'[fd] = conn /\ \A gd \in Fds : gd # fd => httpConns'[gd] = httpConns[gd]
    BY <1>1, Table
  <2> QED
    BY <1>1, <2>1 DEF Keys
<1>2. CASE httpConns' = httpConns
  BY <1>2
<1>3. ASSUME NEW fd \in Fds, NEW conn \in LiveConn, Reads(fd, conn)
      PROVE  \A gd \in Keys(httpConns') : Timely(httpConns'[gd], S)
  BY <1>1, <1>3 DEF Reads
<1>4. ASSUME NEW fd \in Fds, NEW resp \in Response, Adds(fd, resp)
      PROVE  \A gd \in Keys(httpConns') : Timely(httpConns'[gd], S)
  <2>1. fd \in Keys(httpConns) /\ httpConns[fd] \in LiveConn /\ Timely(httpConns[fd], S)
    BY <1>4, Table DEF Adds
  <2>2. add(httpConns[fd], resp).currReq = httpConns[fd].currReq /\ add(httpConns[fd], resp).sock = httpConns[fd].sock
    BY <2>1 DEF add, LiveConn, Conn
  <2>3. add(httpConns[fd], resp) \in LiveConn
    BY <2>1, AddType
  <2> HIDE DEF add
  <2>4. Timely(add(httpConns[fd], resp), S)
    BY <2>1, <2>2 DEF Timely
  <2> QED
    BY <1>1, <1>4, <2>1, <2>3, <2>4 DEF Adds
<1>5. ASSUME NEW fd \in Fds, NEW num \in Nat, Writes(fd, num)
      PROVE  \A gd \in Keys(httpConns') : Timely(httpConns'[gd], S)
  <2>1. fd \in Keys(httpConns) /\ httpConns[fd] \in LiveConn /\ Timely(httpConns[fd], S) /\ num \in 0 .. Len(httpConns[fd].writeBuf)
    BY <1>5, Table DEF Writes
  <2>2. write(httpConns[fd], num).currReq = httpConns[fd].currReq /\ write(httpConns[fd], num).sock = httpConns[fd].sock
    BY <2>1 DEF write, LiveConn, Conn
  <2>3. write(httpConns[fd], num) \in LiveConn
    BY <2>1, WriteType
  <2>4. httpConns' = [httpConns EXCEPT ![fd] = write(httpConns[fd], num)]
    BY <1>5 DEF Writes
  <2> HIDE DEF write
  <2>5. Timely(write(httpConns[fd], num), S)
    BY <2>1, <2>2 DEF Timely
  <2> QED
    BY <1>1, <2>1, <2>3, <2>4, <2>5
<1>6. ASSUME NEW fd \in Fds, NEW unread, Closes(fd, unread)
      PROVE  \A gd \in Keys(httpConns') : Timely(httpConns'[gd], S)
  <2>1. /\ Keys(httpConns') = Keys(httpConns) \ {fd}
        /\ \A gd \in Fds : gd # fd => httpConns'[gd] = httpConns[gd]
    BY <1>6, Table DEF Closes
  <2> QED
    BY <2>1 DEF Keys
<1>7. CASE Accept
  <2> DEFINE c == Head(backlog)
  <2>1. PICK fd \in Fds : httpConns' = [httpConns EXCEPT ![fd] = NewConn(c, IdentOf[c])]
    BY <1>7 DEF Accept
  <2>2. httpConns'[fd] = NewConn(c, IdentOf[c]) /\ \A gd \in Fds : gd # fd => httpConns'[gd] = httpConns[gd]
    BY <2>1, Table
  <2>3. Timely(NewConn(c, IdentOf[c]), S)
    BY DEF Timely, NewConn
  <2> QED
    BY <2>2, <2>3 DEF Keys
<1>8. CASE AcceptThrows \/ Client
  BY <1>8 DEF AcceptThrows, Client, Connect, Send, Fin, Reset, Drain, loopVars
<1> QED
  BY <1>2, <1>3, <1>4, <1>5, <1>6, <1>7, <1>8, Effects

\* What read() makes of the input: the request that is to wait, or to be
\* dispatched, is in turn.
LEMMA ReadInTurn ==
    ASSUME WellFormed, SInv, StreamInv, FreshInv, ReadData, NEW c, c = CurrClient, NEW r, r = ReadInput
    PROVE  /\ c \in Clients /\ r.conn.sock = c /\ httpConns'[Item.fd] = r.conn
           /\ r.conn.currReq # Null => /\ HasContentLength(r.conn.currReq) /\ Number(r.conn.currReq) \in Nat
                                       /\ Fresh(c, Number(r.conn.currReq)) /\ Reached(c, Number(r.conn.currReq))'
           /\ r.req # Null => /\ r.conn.currReq = Null
                              /\ Fresh(c, Number(r.req)) /\ Passed(c, Number(r.req))'
<1>0. IInv /\ NetInv
  BY DEF SInv
<1>1. /\ Item.fd \in Keys(httpConns) /\ CurrConn \in LiveConn /\ c \in Clients /\ CurrConn = httpConns[Item.fd]
      /\ c = httpConns[Item.fd].sock
  BY <1>0, AtHand DEF ReadData, HasInput, Readable, Served, CurrClient
<1>2. r.conn.sock = c /\ httpConns'[Item.fd] = r.conn /\ r.conn \in LiveConn
  BY <1>0, <1>1, ReadDataReads, Table DEF Reads
<1>3. inq[c] \in Seq(Token) /\ inq[c] # <<>> /\ CurrConn.state # "Closing" /\ inq'[c] = <<>> /\ sent' = sent
  BY <1>0, <1>1 DEF IInv, TypeOK, ReadData, HasInput, Readable, Served, needsClose, Consume, peerVars
<1>4. r = read(CurrConn, inq[c]) /\ r.err = "none"
  BY DEF ReadData, ReadInput
<1>5. PICK buf, conn, f : buf = inq[c] /\ conn = CurrConn /\ f = buf[1].q
  OBVIOUS
<1>6. conn.currReq # Null => /\ HasContentLength(conn.currReq) /\ Number(conn.currReq) \in Nat
                             /\ Fresh(c, Number(conn.currReq)) /\ Reached(c, Number(conn.currReq))
  <2> SUFFICES ASSUME conn.currReq # Null PROVE Number(conn.currReq) \in Nat
    BY <1>1, <1>5 DEF FreshInv
  <2>1. conn.currReq.head \in Seq(Token) /\ conn.currReq.head # <<>>
    BY <1>1, <1>5 DEF LiveConn, Conn, Request
  <2>2. conn.currReq.head[1] \in Token
    BY <2>1, ElementOfSeq, EmptySeq, LenProperties
  <2> QED
    BY <2>2 DEF Number, Token
<1>7. /\ r.conn.currReq # Null => HasContentLength(r.conn.currReq) /\ r.conn.currReq.head[1] = buf[1]
      /\ r.req # Null => /\ r.conn.currReq = Null
                         /\ \/ r.req.head[1] = buf[1] /\ ReqLen(buf) = 0
                            \/ conn.currReq # Null /\ r.req = conn.currReq /\ ~HasEndOfHeaders(buf)
  <2>1. conn \in LiveConn /\ buf \in Seq(Token) /\ buf # <<>> /\ conn.state # "Closing" /\ r = read(conn, buf)
    BY <1>1, <1>3, <1>4, <1>5
  <2> QED
    BY <1>4, <1>6, <2>1, ReadFresh
<1>8. /\ f \in Nat /\ Fresh(c, f) /\ Reached(c, f)'
      /\ ReqLen(inq[c]) = 0 => Passed(c, f)'
      /\ \A n \in Nat : Reached(c, n) /\ ~HasEndOfHeaders(inq[c]) => Passed(c, n)'
  BY <1>0, <1>1, <1>3, <1>5, InputFresh
<1>9. /\ \A q : q.head[1] = buf[1] => Number(q) = f
      /\ \A n \in Nat : Reached(c, n) /\ ~HasEndOfHeaders(buf) => Passed(c, n)'
      /\ ReqLen(buf) = 0 => Passed(c, f)'
  BY <1>5, <1>8 DEF Number
<1>10. r.conn.currReq # Null => Number(r.conn.currReq) = f
  BY <1>7, <1>9
<1>11. r.req # Null => /\ Fresh(c, Number(r.req)) /\ Passed(c, Number(r.req))'
  <2> SUFFICES ASSUME r.req # Null PROVE Fresh(c, Number(r.req)) /\ Passed(c, Number(r.req))'
    OBVIOUS
  <2>1. CASE r.req.head[1] = buf[1] /\ ReqLen(buf) = 0
    <3>1. Number(r.req) = f
      BY <1>9, <2>1
    <3> QED
      BY <1>8, <1>9, <2>1, <3>1
  <2>2. CASE conn.currReq # Null /\ r.req = conn.currReq /\ ~HasEndOfHeaders(buf)
    BY <1>6, <1>9, <2>2
  <2> QED
    BY <1>7, <2>1, <2>2
<1> QED
  BY <1>1, <1>2, <1>7, <1>8, <1>10, <1>11

\* Every step keeps requests in turn.
LEMMA FreshStep ==
    ASSUME WellFormed, WholeHeads, SInv, StreamInv, FreshInv, [Next]_vars
    PROVE  FreshInv'
<1>0. IInv /\ NetInv /\ AddressInv
  BY DEF SInv
<1>1. ASSUME NEW c \in Clients, NEW p \in Nat, Done(c, p)'
      PROVE  Done(c, p) \/ (pc = "dispatch" /\ pc' # "dispatch" /\ c = CurrClient /\ p = Number(req))
  <2>1. CASE dispatched' = dispatched
    BY <1>1, <2>1 DEF Done
  <2>2. CASE pc = "dispatch" /\ Dispatched /\ pc' # "dispatch"
    <3>1. Done(c, p) \/ Of(req, c, p)
      BY <1>0, <1>1, <2>2, DoneStep
    <3>2. req.head[1].c = CurrClient
      BY <1>0, <2>2 DEF AddressInv, ReqOf
    <3> QED
      BY <2>2, <3>1, <3>2 DEF Of
  <2> QED
    BY <2>1, <2>2, LeavesDispatch
<1>2. ASSUME NEW c \in Clients, NEW p \in Nat, Done(c, p)'
      PROVE  Passed(c, p)'
  <2>1. Passed(c, p)
    BY <1>1, <1>2 DEF FreshInv
  <2> QED
    BY <1>0, <2>1, AheadStep
<1>3. ASSUME NEW c \in Clients, NEW n, Fresh(c, n), pc = "dispatch" /\ c = CurrClient => pc' = "dispatch"
      PROVE  Fresh(c, n)'
  <2> SUFFICES ASSUME NEW p \in Nat, Done(c, p)' PROVE p < n
    BY DEF Fresh
  <2>1. Done(c, p)
    BY <1>1, <1>3
  <2> QED
    BY <1>3, <2>1 DEF Fresh
<1>4. ASSUME NEW fd \in Keys(httpConns'), httpConns'[fd].currReq # Null
      PROVE  (/\ HasContentLength(httpConns[fd].currReq)
              /\ Fresh(httpConns[fd].sock, Number(httpConns[fd].currReq))
              /\ Reached(httpConns[fd].sock, Number(httpConns[fd].currReq)))'
  <2> DEFINE S == {x \in Clients \X {Number(r) : r \in Request} : Fresh(x[1], x[2])' /\ Reached(x[1], x[2])'}
  <2>1. ASSUME NEW gd \in Keys(httpConns) PROVE Timely(httpConns[gd], S)
    <3> SUFFICES ASSUME httpConns[gd].currReq # Null
                 PROVE  HasContentLength(httpConns[gd].currReq) /\ <<httpConns[gd].sock, Number(httpConns[gd].currReq)>> \in S
      BY DEF Timely
    <3>1. PICK c, n : c = httpConns[gd].sock /\ n = Number(httpConns[gd].currReq)
      OBVIOUS
    <3>2. c \in Clients /\ n \in {Number(r) : r \in Request}
      <4>1. httpConns[gd] \in LiveConn
        BY <1>0, Table
      <4>2. httpConns[gd].currReq \in Request /\ httpConns[gd].sock \in Clients
        BY <4>1 DEF LiveConn, Conn
      <4> QED
        BY <3>1, <4>2
    <3>3. HasContentLength(httpConns[gd].currReq) /\ Fresh(c, n) /\ Reached(c, n)
      BY <3>1 DEF FreshInv
    <3>4. pc # "dispatch" \/ c # CurrClient
      <4> SUFFICES ASSUME pc = "dispatch", c = CurrClient PROVE FALSE
        OBVIOUS
      <4>1. Item.fd \in Keys(httpConns) /\ CurrConn = httpConns[Item.fd] /\ CurrClient = httpConns[Item.fd].sock
        BY <1>0, AtHand DEF CurrClient
      <4>2. gd = Item.fd
        BY <1>0, <3>1, <4>1 DEF NetInv
      <4> QED
        BY <4>1, <4>2 DEF FreshInv
    <3>5. Fresh(c, n)' /\ Reached(c, n)'
      BY <1>0, <1>3, <3>2, <3>3, <3>4, AheadStep
    <3>6. <<c, n>> \in S
      BY <3>2, <3>5
    <3> HIDE DEF S
    <3> QED
      BY <3>1, <3>3, <3>6
  <2>2. ASSUME ReadData PROVE Timely(ReadInput.conn, S)
    <3>1. PICK c, r : c = CurrClient /\ r = ReadInput
      OBVIOUS
    <3>2. /\ c \in Clients /\ r.conn.sock = c
          /\ r.conn.currReq # Null => /\ HasContentLength(r.conn.currReq)
                                      /\ Fresh(c, Number(r.conn.currReq)) /\ Reached(c, Number(r.conn.currReq))'
      BY <2>2, <3>1, ReadInTurn
    <3>3. pc # "dispatch"
      BY <2>2 DEF ReadData, HasInput, Readable, Served, AtConn
    <3>4. r.conn \in LiveConn
      BY <1>0, <2>2, <3>1, ReadDataReads
    <3> SUFFICES ASSUME r.conn.currReq # Null
                 PROVE  HasContentLength(r.conn.currReq) /\ <<r.conn.sock, Number(r.conn.currReq)>> \in S
      BY <3>1 DEF Timely
    <3>5. PICK n : n = Number(r.conn.currReq)
      OBVIOUS
    <3>6. r.conn.currReq \in Request
      BY <3>4 DEF LiveConn, Conn
    <3>7. n \in {Number(q) : q \in Request}
      BY <3>5, <3>6
    <3>8. Fresh(c, n)' /\ Reached(c, n)'
      BY <1>3, <3>2, <3>3, <3>5
    <3>9. <<c, n>> \in S
      BY <3>2, <3>7, <3>8
    <3> HIDE DEF S
    <3> QED
      BY <3>2, <3>5, <3>9
  <2>3. \A x \in S : Fresh(x[1], x[2])' /\ Reached(x[1], x[2])'
    OBVIOUS
  <2> HIDE DEF S
  <2>4. Timely(httpConns'[fd], S)
    BY <1>0, <1>4, <2>1, <2>2, TimelyStep
  <2>5. ASSUME NEW c, NEW n, <<c, n>> \in S PROVE Fresh(c, n)' /\ Reached(c, n)'
    <3>1. PICK x \in S : x = <<c, n>>
      BY <2>5
    <3>2. x[1] = c /\ x[2] = n
      BY <3>1
    <3> QED
      BY <2>3, <3>2
  <2>6. PICK c, n : c = httpConns'[fd].sock /\ n = Number(httpConns[fd].currReq)'
    OBVIOUS
  <2>7. HasContentLength(httpConns[fd].currReq)' /\ <<c, n>> \in S
    BY <1>4, <2>4, <2>6 DEF Timely
  <2>8. Fresh(c, n)' /\ Reached(c, n)'
    BY <2>5, <2>7
  <2> QED
    BY <2>6, <2>7, <2>8
<1>5. pc' = "dispatch" => /\ CurrConn'.currReq = Null
                          /\ Fresh(CurrClient, Number(req))' /\ Passed(CurrClient, Number(req))'
  <2> SUFFICES ASSUME pc' = "dispatch"
               PROVE  /\ CurrConn'.currReq = Null
                      /\ \E c, n : c = CurrClient' /\ n = Number(req)' /\ Fresh(c, n)' /\ Passed(c, n)'
    OBVIOUS
  <2>1. CASE pc = "dispatch" /\ UNCHANGED <<req, httpConns, pitem, i>>
    <3>1. PICK c, n : c = CurrClient /\ n = Number(req)
      OBVIOUS
    <3>2. c = CurrClient' /\ n = Number(req)' /\ CurrConn' = CurrConn
      BY <2>1, <3>1 DEF CurrClient, CurrConn, Item
    <3>3. c \in Clients
      BY <1>0, <2>1, <3>1, AtHand
    <3>4. CurrConn.currReq = Null /\ Fresh(c, n) /\ Passed(c, n)
      BY <2>1, <3>1 DEF FreshInv
    <3> QED
      BY <1>0, <1>3, <3>2, <3>3, <3>4, AheadStep
  <2>2. CASE ReadData
    <3>1. PICK c, r : c = CurrClient /\ r = ReadInput
      OBVIOUS
    <3>2. req' = r.req /\ r.req # Null /\ Item' = Item
      BY <2>2, <3>1 DEF ReadData, Item, roundVars
    <3>3. /\ c \in Clients /\ r.conn.sock = c /\ httpConns'[Item.fd] = r.conn
          /\ r.conn.currReq = Null /\ Fresh(c, Number(r.req)) /\ Passed(c, Number(r.req))'
      BY <2>2, <3>1, <3>2, ReadInTurn
    <3>4. PICK n : n = Number(r.req)
      OBVIOUS
    <3>5. CurrConn' = r.conn /\ CurrClient' = c /\ n = Number(req)'
      BY <3>2, <3>3, <3>4 DEF CurrConn, CurrClient
    <3>6. Fresh(c, n)'
      BY <1>3, <3>3, <3>4
    <3> QED
      BY <3>3, <3>4, <3>5, <3>6
  <2> QED
    BY <2>1, <2>2, ToDispatch
<1> QED
  BY <1>2, <1>4, <1>5 DEF FreshInv

\* Nothing was read, dispatched or sent yet.
LEMMA OrderInit == Init => FreshInv /\ OnceInv /\ TurnInv
<1> SUFFICES ASSUME Init PROVE FreshInv /\ OnceInv /\ TurnInv
  OBVIOUS
<1>1. /\ Keys(httpConns) = {} /\ dispatched = <<>> /\ appq = <<>> /\ mailbox = <<>> /\ pc = "poll"
      /\ \A c \in Clients : received[c] = <<>> /\ inflight[c] = <<>>
  BY DEF Init, Keys, AbsentConn
<1>2. \A S : ~Has(<<>>, S) /\ Sole(<<>>, S)
  BY DEF Has, Sole
<1>3. \A q : ~Names(<<>>, q)
  BY DEF Names
<1>4. FreshInv
  BY <1>1, <1>2 DEF FreshInv, Done
<1>5. OnceInv
  BY <1>1, <1>2, <1>3 DEF OnceInv, Asked, Replied, Responded
<1>6. TurnInv
  BY <1>1, ChainEmpty DEF TurnInv
<1> QED
  BY <1>4, <1>5, <1>6

\* Clients send whole heads, one request after the other, from their own addresses.
Orderly == WellFormed /\ WholeHeads /\ OwnAddress

\* The inductive invariant.
OrderInv == SInv /\ StreamInv /\ FreshInv /\ OnceInv /\ TurnInv

\* It holds in every state.
LEMMA OrderInvariance ==
    ASSUME Orderly
    PROVE  Spec => []OrderInv
<1>1. Init => SInv /\ StreamInv /\ FreshInv /\ OnceInv /\ TurnInv
  BY InitStep, NetInit, ClosingInit, AddressInit, StreamInit, OrderInit DEF SInv
<1>2. SInv /\ [Next]_vars => SInv'
  BY NextStep, NetStep, ClosingStep, AddressStep DEF SInv
<1>3. SInv /\ StreamInv /\ [Next]_vars => StreamInv'
  BY StreamStep DEF Orderly, SInv
<1>4. SInv /\ StreamInv /\ FreshInv /\ [Next]_vars => FreshInv'
  BY FreshStep DEF Orderly
<1>5. SInv /\ FreshInv /\ OnceInv /\ [Next]_vars => OnceInv'
  BY OnceStep DEF Orderly
<1>6. SInv /\ FreshInv /\ OnceInv /\ TurnInv /\ [Next]_vars => TurnInv'
  BY TurnStep DEF Orderly
<1>7. OrderInv /\ [Next]_vars => OrderInv'
  BY <1>2, <1>3, <1>4, <1>5, <1>6 DEF OrderInv
<1>8. Init => OrderInv
  BY <1>1 DEF OrderInv
<1> QED
  BY <1>7, <1>8, PTL DEF Spec

\* What waits to be written to c: the output of its connection, if there is one.
LEMMA PendingIs ==
    ASSUME IInv, NEW c \in Clients
    PROVE  /\ Pending(c) \in Seq(Unit)
           /\ \/ Pending(c) = <<>>
              \/ \E fd \in Keys(httpConns) : httpConns[fd].sock = c /\ Pending(c) = httpConns[fd].writeBuf
<1>1. Pending(c) = <<>> \/ \E fd \in Keys(httpConns) : httpConns[fd].sock = c /\ Pending(c) = httpConns[fd].writeBuf
  <2> DEFINE gd == CHOOSE fd \in Fds : httpConns[fd].sock = c
  <2>1. CASE \E fd \in Fds : httpConns[fd].sock = c
    <3>1. gd \in Fds /\ httpConns[gd].sock = c
      BY <2>1
    <3>2. Pending(c) = httpConns[gd].writeBuf
      BY <2>1 DEF Pending
    <3>3. gd \in Keys(httpConns) \/ httpConns[gd] = AbsentConn
      BY <3>1 DEF IInv, ConnsOK, Keys, LiveConn
    <3>4. httpConns[gd] = AbsentConn => Pending(c) = <<>>
      BY <3>2 DEF AbsentConn
    <3> HIDE DEF gd
    <3> QED
      BY <3>1, <3>2, <3>3, <3>4
  <2>2. CASE ~\E fd \in Fds : httpConns[fd].sock = c
    BY <2>2 DEF Pending
  <2> QED
    BY <2>1, <2>2
<1>2. \A fd \in Keys(httpConns) : httpConns[fd].writeBuf \in Seq(Unit)
  BY Table DEF LiveConn, Conn
<1> QED
  BY <1>1, <1>2, EmptySeq

\* All that c was sent is in turn.
LEMMA SentInTurn ==
    ASSUME IInv, TurnInv, NEW c \in Clients
    PROVE  Sorted(ToClient(c), InTurn)
<1>1. /\ received[c] \in Seq(Unit) /\ inflight[c] \in Seq(Unit)
      /\ Chain(received[c], inflight[c], <<>>, InTurn) /\ <<>> \in Seq(Unit)
  BY TurnOfClient, EmptySeq
<1>2. ToClient(c) = (received[c] \o inflight[c]) \o Pending(c)
  BY DEF ToClient
<1>3. CASE Pending(c) = <<>>
  BY <1>1, <1>2, <1>3, ChainSorted
<1>4. ASSUME NEW fd \in Keys(httpConns), httpConns[fd].sock = c, Pending(c) = httpConns[fd].writeBuf
      PROVE  Sorted(ToClient(c), InTurn)
  <2>1. httpConns[fd].writeBuf \in Seq(Unit) /\ Chain(received[c], inflight[c], httpConns[fd].writeBuf, InTurn)
    BY <1>4, TurnOfConn
  <2> QED
    BY <1>1, <1>2, <1>4, <2>1, ChainSorted
<1> QED
  BY <1>3, <1>4, PendingIs

\* What is in turn is all different; a pair that is in turn in synchronous mode
\* answers an earlier and a later request, or the same in its two halves.
LEMMA TurnMeans ==
    ASSUME NEW c, Sorted(ToClient(c), InTurn)
    PROVE  LET s == ToClient(c) IN
           /\ \A m, n \in DOMAIN s : m < n => s[m] # s[n]
           /\ Mode = "sync" => \A m, n \in DOMAIN s : m < n => s[m].q < s[n].q \/ (s[m].q = s[n].q /\ s[m].part < s[n].part)
<1> DEFINE s == ToClient(c)
<1>1. \A p \in Precede : p[1] # p[2] /\ (p[1].q < p[2].q \/ (p[1].q = p[2].q /\ p[1].part < p[2].part))
  <2> SUFFICES ASSUME NEW u \in Unit, NEW v \in Unit, u.q < v.q \/ (u.q = v.q /\ u.part < v.part) PROVE u # v
    BY DEF Precede
  <2>1. ~(u.q < u.q) /\ ~(u.part < u.part)
    BY DEF Unit
  <2> QED
    BY <2>1
<1>2. \A p \in Differ : p[1] # p[2]
  BY DEF Differ
<1> HIDE DEF s
<1>3. ASSUME NEW m \in DOMAIN s, NEW n \in DOMAIN s, m < n
      PROVE  s[m] # s[n] /\ (Mode = "sync" => s[m].q < s[n].q \/ (s[m].q = s[n].q /\ s[m].part < s[n].part))
  <2>1. <<s[m], s[n]>> \in InTurn
    BY <1>3 DEF Sorted, s
  <2> DEFINE p == <<s[m], s[n]>>
  <2>2. p[1] = s[m] /\ p[2] = s[n]
    OBVIOUS
  <2> HIDE DEF p
  <2>3. p \in Precede \/ (Mode # "sync" /\ p \in Differ)
    BY <2>1 DEF InTurn, p
  <2> QED
    BY <1>1, <1>2, <2>2, <2>3
<1> QED
  BY <1>3 DEF s

\* No request is answered twice: read() hands a request over once and in turn,
\* the application thread makes one response of it, and no response is given to
\* a connection before or after that (read, onRequest, onIdle and add).
THEOREM OnceCorrect ==
    ASSUME Orderly
    PROVE  Spec => []AnsweredOnce
<1>1. OrderInv => AnsweredOnce
  <2> SUFFICES ASSUME OrderInv, NEW c \in Clients, NEW m \in DOMAIN ToClient(c), NEW n \in DOMAIN ToClient(c),
                      ToClient(c)[m] = ToClient(c)[n]
               PROVE  m = n
    BY DEF AnsweredOnce
  <2> DEFINE s == ToClient(c)
  <2>1. Sorted(s, InTurn)
    BY SentInTurn DEF OrderInv, SInv
  <2>2. \A k, l \in DOMAIN s : k < l => s[k] # s[l]
    BY <2>1, TurnMeans
  <2>3. DOMAIN s \subseteq Nat
    <3>1. s \in Seq(Unit)
      <4>1. received[c] \in Seq(Unit) /\ inflight[c] \in Seq(Unit) /\ Pending(c) \in Seq(Unit)
        BY TurnOfClient, PendingIs DEF OrderInv, SInv
      <4> QED
        BY <4>1, ConcatProperties DEF ToClient
    <3> QED
      BY <3>1, LenProperties
  <2> HIDE DEF s
  <2>4. m < n \/ n < m \/ m = n
    BY <2>3 DEF s
  <2> QED
    BY <2>2, <2>4 DEF s
<1> QED
  BY <1>1, OrderInvariance, PTL

\* With a handler inside the loop the answers come in the order of the requests,
\* however many of them the client has sent ahead (read and onRequest).
THEOREM OrderCorrect ==
    ASSUME Orderly, Mode = "sync"
    PROVE  Spec => []AnsweredInOrder
<1>1. OrderInv => AnsweredInOrder
  <2> SUFFICES ASSUME OrderInv, NEW c \in Clients
               PROVE  LET s == ToClient(c) IN
                      \A m, n \in DOMAIN s : m < n => s[m].q < s[n].q \/ (s[m].q = s[n].q /\ s[m].part < s[n].part)
    BY DEF AnsweredInOrder
  <2>1. Sorted(ToClient(c), InTurn)
    BY SentInTurn DEF OrderInv, SInv
  <2> QED
    BY <2>1, TurnMeans
<1> QED
  BY <1>1, OrderInvariance, PTL

-----------------------------------------------------------------------------
(* The service: the loop with its processor, its sockets and its clients
   implements HttpService.  What was proved of its states is put together with
   what each of its steps does to the requests and the answers. *)

-----------------------------------------------------------------------------
(* Requests that have come *)

\* The client has sent some of it.
Came(c) == RequestsIn(c, sent[c])

\* A request that waits for its body, or is to be dispatched, has come.
CameInv ==
    /\ \A fd \in Keys(httpConns) :
         LET conn == httpConns[fd] IN conn.currReq # Null => Number(conn.currReq) \in Came(conn.sock)
    /\ pc = "dispatch" => Number(req) \in Came(CurrClient)

\* What a step does to the requests that have come or were dispatched, and to
\* the answers: nothing, or one thing to one of them.
LEMMA StepIs ==
    ASSUME [Next]_vars
    PROVE  \/ UNCHANGED <<received, sent, dispatched>>
           \/ pc = "dispatch" /\ Dispatched /\ UNCHANGED <<received, sent>>
           \/ \E c \in Clients : Drain(c)
           \/ \E c \in Clients : c \notin closed /\ Send(c)
  BY DEF Next, Server, Poll, ListenError, NoAccept, Accept, AcceptThrows, CloseConn, OnClose, CloseSocket,
       SkipRead, ReadEOF, ReadError, ReadException, ReadData, DispatchReply, DispatchNull, DispatchHttpException,
       DispatchException, DispatchSend, SkipWrite, Write, WriteError, EndRound, IdleSync, IdleEmpty,
       IdleShutdown, IdleResponse, IdleNull, Client, Connect, Send, Fin, Reset, Handle, SendShutdown,
       vars, appVars, netVars, peerVars

\* A segment is of one request, which does not come before those of the client
\* that have come.
LEMMA SendAsks ==
    ASSUME WellFormed, IInv, NEW c \in Clients, Send(c), c \notin closed
    PROVE  /\ NextReq(c) \in RequestsOf[c] /\ NextReq(c) \in Nat
           /\ \A p \in Came(c) : p \in Nat /\ p <= NextReq(c)
           /\ Came(c)' = Came(c) \cup {NextReq(c)}
           /\ \A d \in Clients \ {c} : sent'[d] = sent[d]
<1>1. PICK n \in SegmentEnds(c) : sent' = [sent EXCEPT ![c] = n]
  BY DEF Send
<1> DEFINE L == Len(Stream[c])
           s == sent[c]
           a == s + 1
           Q(k) == Stream[c][k].q
           S == {m \in DOMAIN Stream[c] : Q(m) = Q(a)}
           e == LastOf(S)
<1>2. /\ sent \in [Clients -> Nat] /\ s \in Nat /\ L \in Nat /\ s < L
      /\ DOMAIN Stream[c] = 1 .. L
  BY StreamAssumption, LenProperties DEF IInv, TypeOK, Send
<1>3. a \in S /\ S \in SUBSET Nat /\ \A m \in S : m <= L
  BY <1>2
<1>4. e \in S /\ \A m \in S : m <= e
  BY <1>2, <1>3, LastOfLemma
<1>5. NextReq(c) = Q(a) /\ EndOf(c, NextReq(c)) = e
  BY DEF NextReq, EndOf
<1>6. a \in 1 .. L /\ e \in a .. L /\ Q(e) = Q(a)
  BY <1>2, <1>3, <1>4
<1>7. n \in a .. e
  BY <1>2, <1>5, <1>6 DEF SegmentEnds
<1>8. \A k, m \in 1 .. L : k <= m => Q(k) \in Nat /\ Q(m) \in Nat /\ Q(k) <= Q(m)
  BY <1>2, Ordered
<1>9. sent'[c] = n /\ \A d \in Clients \ {c} : sent'[d] = sent[d]
  BY <1>1, <1>2
<1>10. Came(c) = {Q(k) : k \in 1 .. s} /\ Came(c)' = {Q(k) : k \in 1 .. n}
  BY <1>9 DEF Came, RequestsIn
<1>11. RequestsOf[c] = {Q(k) : k \in 1 .. L}
  BY DEF RequestsOf, RequestsIn
<1> HIDE DEF Q, S, e, L
<1>12. \A k \in a .. n : Q(k) = Q(a)
  <2> TAKE k \in a .. n
  <2>1. k \in 1 .. L /\ a <= k /\ k <= e /\ a \in 1 .. L /\ e \in 1 .. L
    BY <1>2, <1>6, <1>7
  <2>2. Q(a) \in Nat /\ Q(k) \in Nat /\ Q(a) <= Q(k) /\ Q(k) <= Q(e)
    BY <1>8, <2>1
  <2> QED
    BY <1>6, <2>2
<1>13. \A k \in 1 .. n : k \in 1 .. s \/ k \in a .. n
  BY <1>2, <1>7
<1>14. a \in 1 .. n /\ \A k \in 1 .. s : k \in 1 .. n /\ k \in 1 .. L /\ k <= a
  BY <1>2, <1>6, <1>7
<1>15. Came(c)' = Came(c) \cup {Q(a)}
  BY <1>10, <1>12, <1>13, <1>14
<1>16. \A p \in Came(c) : p \in Nat /\ p <= Q(a)
  BY <1>6, <1>8, <1>10, <1>14
<1> QED
  BY <1>5, <1>6, <1>8, <1>9, <1>11, <1>15, <1>16

\* What has come stays so.
LEMMA CameGrows ==
    ASSUME WellFormed, IInv, [Next]_vars, NEW c \in Clients
    PROVE  Came(c) \subseteq Came(c)'
<1>1. CASE sent' = sent
  BY <1>1 DEF Came
<1>2. ASSUME NEW d \in Clients, d \notin closed, Send(d)
      PROVE  Came(c) \subseteq Came(c)'
  <2>1. CASE c = d
    BY <1>2, <2>1, SendAsks
  <2>2. CASE c # d
    <3>1. sent'[c] = sent[c]
      BY <1>2, <2>2, SendAsks
    <3> QED
      BY <3>1 DEF Came
  <2> QED
    BY <2>1, <2>2
<1> QED
  BY <1>1, <1>2, StepIs DEF Drain

\* The first request of the input has come.
LEMMA InputCame ==
    ASSUME IInv, StreamInv, NEW c \in Clients, inq[c] # <<>>
    PROVE  inq[c][1].q \in Came(c)
<1> DEFINE s == sent[c]
           b == s - Len(inq[c])
<1>1. /\ inq[c] \in Seq(Token) /\ Len(inq[c]) \in Nat \ {0} /\ s \in Nat
      /\ Stream[c] \in Seq(Token) /\ Len(Stream[c]) \in Nat
  BY StreamAssumption, LenProperties, EmptySeq DEF IInv, TypeOK
<1>2. s <= Len(Stream[c]) /\ b \in 0 .. s /\ inq[c] = SubSeq(Stream[c], b + 1, s)
  BY <1>1 DEF StreamInv, Fits
<1>3. b \in Nat /\ b + 1 \in 1 .. s
  BY <1>1, <1>2
<1> HIDE DEF b
<1>4. SubSeq(Stream[c], b + 1, s)[1] = Stream[c][b + 1]
  BY <1>1, <1>2, <1>3, SubSeqProperties
<1> QED
  BY <1>2, <1>3, <1>4 DEF Came, RequestsIn

\* What read() makes of the input was sent by the client.
LEMMA ReadCame ==
    ASSUME SInv, StreamInv, FreshInv, CameInv, ReadData, NEW c, c = CurrClient, NEW r, r = ReadInput
    PROVE  /\ c \in Clients /\ r.conn.sock = c /\ httpConns'[Item.fd] = r.conn
           /\ r.conn.currReq # Null => HasContentLength(r.conn.currReq) /\ Number(r.conn.currReq) \in Came(c)
           /\ r.req # Null => Number(r.req) \in Came(c)
<1>0. IInv /\ NetInv
  BY DEF SInv
<1>1. /\ Item.fd \in Keys(httpConns) /\ CurrConn \in LiveConn /\ c \in Clients /\ CurrConn = httpConns[Item.fd]
      /\ c = httpConns[Item.fd].sock
  BY <1>0, AtHand DEF ReadData, HasInput, Readable, Served, CurrClient
<1>2. r.conn.sock = c /\ httpConns'[Item.fd] = r.conn
  BY <1>0, <1>1, ReadDataReads, Table DEF Reads
<1>3. inq[c] \in Seq(Token) /\ inq[c] # <<>> /\ CurrConn.state # "Closing"
  BY <1>0, <1>1 DEF IInv, TypeOK, ReadData, HasInput, Readable, Served, needsClose
<1>4. r = read(CurrConn, inq[c]) /\ r.err = "none"
  BY DEF ReadData, ReadInput
<1>5. PICK buf, conn, f : buf = inq[c] /\ conn = CurrConn /\ f = buf[1].q
  OBVIOUS
<1>6. conn.currReq # Null => HasContentLength(conn.currReq) /\ Number(conn.currReq) \in Came(c)
  BY <1>1, <1>5 DEF FreshInv, CameInv
<1>7. /\ r.conn.currReq # Null => HasContentLength(r.conn.currReq) /\ r.conn.currReq.head[1] = buf[1]
      /\ r.req # Null => r.req.head[1] = buf[1] \/ (conn.currReq # Null /\ r.req = conn.currReq)
  <2>1. conn \in LiveConn /\ buf \in Seq(Token) /\ buf # <<>> /\ conn.state # "Closing" /\ r = read(conn, buf)
    BY <1>1, <1>3, <1>4, <1>5
  <2> QED
    BY <1>4, <1>6, <2>1, ReadFresh
<1>8. f \in Came(c)
  BY <1>0, <1>1, <1>3, <1>5, InputCame
<1>9. \A q : q.head[1] = buf[1] => Number(q) = f
  BY <1>5 DEF Number
<1> QED
  BY <1>1, <1>2, <1>6, <1>7, <1>8, <1>9

\* Every step keeps it so.
LEMMA CameStep ==
    ASSUME WellFormed, SInv, StreamInv, FreshInv, CameInv, [Next]_vars
    PROVE  CameInv'
<1>0. IInv
  BY DEF SInv
<1>1. \A c \in Clients : Came(c) \subseteq Came(c)'
  BY <1>0, CameGrows
<1>2. ASSUME NEW fd \in Keys(httpConns'), httpConns'[fd].currReq # Null
      PROVE  (Number(httpConns[fd].currReq) \in Came(httpConns[fd].sock))'
  <2> DEFINE S == UNION {{c} \X Came(c)' : c \in Clients}
  <2>1. ASSUME NEW c \in Clients, NEW n \in Came(c) PROVE <<c, n>> \in S
    BY <1>1
  <2>2. ASSUME NEW c, NEW n, <<c, n>> \in S PROVE n \in Came(c)'
    <3>1. PICK d \in Clients : <<c, n>> \in {d} \X Came(d)'
      BY <2>2
    <3>2. c = d /\ n \in Came(d)'
      BY <3>1
    <3> QED
      BY <3>2
  <2> HIDE DEF S
  <2>3. ASSUME NEW gd \in Keys(httpConns) PROVE Timely(httpConns[gd], S)
    <3> SUFFICES ASSUME httpConns[gd].currReq # Null
                 PROVE  HasContentLength(httpConns[gd].currReq) /\ <<httpConns[gd].sock, Number(httpConns[gd].currReq)>> \in S
      BY DEF Timely
    <3>1. httpConns[gd].sock \in Clients
      BY <1>0, Table DEF LiveConn, Conn
    <3> QED
      BY <2>1, <3>1 DEF FreshInv, CameInv
  <2>4. ASSUME ReadData PROVE Timely(ReadInput.conn, S)
    <3>1. PICK c, r : c = CurrClient /\ r = ReadInput
      OBVIOUS
    <3>2. /\ c \in Clients /\ r.conn.sock = c
          /\ r.conn.currReq # Null => HasContentLength(r.conn.currReq) /\ Number(r.conn.currReq) \in Came(c)
      BY <2>4, <3>1, ReadCame
    <3> QED
      BY <2>1, <3>1, <3>2 DEF Timely
  <2>5. Timely(httpConns'[fd], S)
    BY <1>0, <2>3, <2>4, TimelyStep
  <2>6. PICK c, n : c = httpConns'[fd].sock /\ n = Number(httpConns'[fd].currReq)
    OBVIOUS
  <2>7. n \in Came(c)'
    BY <1>2, <2>2, <2>5, <2>6 DEF Timely
  <2> QED
    BY <2>6, <2>7 DEF Came, Number
<1>3. ASSUME pc' = "dispatch" PROVE Number(req)' \in Came(CurrClient)'
  <2>1. CASE pc = "dispatch" /\ UNCHANGED <<req, httpConns, pitem, i>>
    <3>1. PICK c, n : c = CurrClient /\ n = Number(req)
      OBVIOUS
    <3>2. c = CurrClient' /\ n = Number(req)'
      BY <2>1, <3>1 DEF CurrClient, CurrConn, Item
    <3>3. c \in Clients /\ n \in Came(c)
      BY <1>0, <2>1, <3>1, AtHand DEF CameInv
    <3>4. n \in Came(c)'
      BY <1>1, <3>3
    <3> QED
      BY <3>2, <3>4 DEF Came
  <2>2. CASE ReadData
    <3>1. PICK c, r : c = CurrClient /\ r = ReadInput
      OBVIOUS
    <3>2. req' = r.req /\ r.req # Null /\ Item' = Item
      BY <1>3, <2>2, <3>1 DEF ReadData, Item, roundVars
    <3>3. c \in Clients /\ r.conn.sock = c /\ httpConns'[Item.fd] = r.conn /\ Number(r.req) \in Came(c)
      BY <2>2, <3>1, <3>2, ReadCame
    <3>4. CurrClient' = c /\ Number(req)' = Number(r.req)
      BY <3>2, <3>3 DEF CurrConn, CurrClient, Number
    <3>5. Number(req)' \in Came(c)'
      BY <1>1, <3>3, <3>4
    <3> QED
      BY <3>4, <3>5 DEF Came
  <2> QED
    BY <1>3, <2>1, <2>2, ToDispatch
<1> QED
  BY <1>2, <1>3 DEF CameInv

\* Nothing was read yet.
LEMMA CameInit == Init => CameInv
  BY DEF Init, CameInv, Keys, AbsentConn

-----------------------------------------------------------------------------
(* The steps of the service *)

\* Request q of client c is in a history s.
LEMMA InHistory ==
    ASSUME NEW s \in Seq(Request), NEW c, NEW q
    PROVE  /\ q \in {s[n].head[1].q : n \in {m \in DOMAIN s : s[m].head[1].c = c}} <=> Has(s, Requests(c, q))
           /\ Has(s, Requests(c, q)) => q \in Nat
<1>1. \A n \in DOMAIN s : s[n] \in Request /\ s[n].head[1].q \in Nat
  <2> TAKE n \in DOMAIN s
  <2>1. s[n] \in Request
    BY ElementOfSeq
  <2>2. s[n].head \in Seq(Token) /\ s[n].head # <<>>
    BY <2>1 DEF Request
  <2>3. s[n].head[1] \in Token
    BY <2>2, ElementOfSeq, EmptySeq, LenProperties
  <2> QED
    BY <2>1, <2>3 DEF Token
<1>2. \A n \in DOMAIN s : s[n] \in Requests(c, q) <=> s[n].head[1].c = c /\ s[n].head[1].q = q
  BY <1>1 DEF Requests, Of, Number
<1> QED
  BY <1>1, <1>2 DEF Has

\* The application has been given a request of c if and only if it was dispatched.
LEMMA TakenIs ==
    ASSUME IInv, NEW c, NEW q
    PROVE  /\ q \in TakenOf(c) <=> Done(c, q)
           /\ Done(c, q) => q \in Nat
<1>1. dispatched \in Seq(Request)
  BY DEF IInv, TypeOK
<1> QED
  BY <1>1, InHistory DEF TakenOf, Done

\* The request at hand is taken: it has come, and after those that were.
LEMMA TakeStep ==
    ASSUME IInv, AddressInv, FreshInv, CameInv, [Next]_vars, pc = "dispatch", Dispatched, UNCHANGED <<received, sent>>
    PROVE  \E c \in Clients : Service!Take(c)
<1>1. PICK c, q : c = CurrClient /\ q = Number(req)
  OBVIOUS
<1>2. c \in Clients /\ Fresh(c, q) /\ q \in Came(c)
  BY <1>1, AtHand DEF FreshInv, CameInv
<1>3. \A d, p : Of(req, d, p) <=> d = c /\ p = q
  BY <1>1 DEF AddressInv, ReqOf, Of, Number
<1>4. \A d, p : p \in TakenOf(d)' <=> p \in TakenOf(d) \/ (d = c /\ p = q)
  <2> TAKE d, p
  <2>1. Done(d, p)' <=> Done(d, p) \/ Of(req, d, p)
    BY DoneStep
  <2>2. dispatched' \in Seq(Request)
    BY NextStep DEF IInv, TypeOK
  <2>3. p \in TakenOf(d)' <=> Done(d, p)'
    BY <2>2, InHistory DEF TakenOf, Done
  <2> QED
    BY <1>3, <2>1, <2>3, TakenIs
<1>5. \A p \in TakenOf(c) : p < q
  <2> TAKE p \in TakenOf(c)
  <2>1. Done(c, p)
    BY TakenIs
  <2>2. p \in Nat
    BY <2>1, TakenIs
  <2> QED
    BY <1>2, <2>1, <2>2 DEF Fresh
<1>6. q \notin TakenOf(c)
  BY <1>2, <1>5, TakenIs DEF Fresh
<1>7. UNCHANGED <<received, [d \in Clients |-> Came(d)]>>
  BY DEF Came
<1>8. [d \in Clients |-> TakenOf(d)'] = [[d \in Clients |-> TakenOf(d)] EXCEPT ![c] = TakenOf(c) \cup {q}]
  <2>1. TakenOf(c)' = TakenOf(c) \cup {q}
    BY <1>4
  <2>2. \A d \in Clients : d # c => TakenOf(d)' = TakenOf(d)
    <3> SUFFICES ASSUME NEW d \in Clients, d # c PROVE \A p : p \in TakenOf(d)' <=> p \in TakenOf(d)
      OBVIOUS
    <3> QED
      BY <1>4
  <2> QED
    BY <1>2, <2>1, <2>2
<1> QED
  BY <1>2, <1>5, <1>6, <1>7, <1>8 DEF Service!Take, Came

\* What a client sends is its next request, or the rest of its last one.
LEMMA AskStep ==
    ASSUME WellFormed, IInv, NEW c \in Clients, Send(c), c \notin closed
    PROVE  Service!Ask(c) \/ UNCHANGED Service!vars
<1>1. PICK q : q = NextReq(c)
  OBVIOUS
<1>2. /\ q \in RequestsOf[c] /\ q \in Nat /\ Came(c)' = Came(c) \cup {q}
      /\ \A p \in Came(c) : p \in Nat /\ p <= q
      /\ \A d \in Clients \ {c} : sent'[d] = sent[d]
  BY <1>1, SendAsks
<1>3. received' = received /\ dispatched' = dispatched
  BY DEF Send, appVars
<1>4. \A d \in Clients : d # c => Came(d)' = Came(d)
  BY <1>2 DEF Came
<1>5. [d \in Clients |-> Came(d)'] = [[d \in Clients |-> Came(d)] EXCEPT ![c] = Came(c) \cup {q}]
  BY <1>2, <1>4
<1>6. [d \in Clients |-> TakenOf(d)'] = [d \in Clients |-> TakenOf(d)]
  BY <1>3 DEF TakenOf
<1>7. CASE q \in Came(c)
  <2>1. [d \in Clients |-> Came(d)'] = [d \in Clients |-> Came(d)]
    BY <1>2, <1>4, <1>7
  <2> QED
    BY <1>3, <1>6, <2>1 DEF Service!vars, Came
<1>8. CASE q \notin Came(c)
  <2>1. \A p \in Came(c) : p < q
    BY <1>2, <1>8
  <2> QED
    BY <1>2, <1>3, <1>5, <1>6, <1>8, <2>1 DEF Service!Ask, Came
<1> QED
  BY <1>7, <1>8

\* What comes after an even number is odd, and the other way round.
LEMMA Parity ==
    ASSUME NEW l \in Nat
    PROVE  \/ l % 2 = 0 /\ (l + 1) % 2 = 1
           \/ l % 2 = 1 /\ (l + 1) % 2 = 0 /\ l # 0
  BY SMT

\* Half u is the next one in sequence s, whose first l are r, and in turn.
Follows(s, r, l, u) ==
    /\ r \in Seq(Unit) /\ u \in Unit /\ l = Len(r) /\ Framed(s)
    /\ \A n \in DOMAIN r : s[n] = r[n] /\ n \in DOMAIN s
    /\ s[l + 1] = u /\ l + 1 \in DOMAIN s
    /\ \A n \in DOMAIN r : r[n].c = u.c /\ <<r[n], u>> \in InTurn

\* The half that follows others in turn: the first of another answer, or the
\* second of the last.
LEMMA NextHalf ==
    ASSUME NEW s, NEW r, NEW l, NEW u, Follows(s, r, l, u)
    PROVE  \/ /\ l % 2 = 0 /\ u.part = 1
              /\ \A n \in DOMAIN r : IF Mode = "sync" THEN r[n].q < u.q ELSE r[n].q # u.q
           \/ l % 2 # 0 /\ u.part = 2 /\ u.q = r[l].q
<1>0. /\ l \in Nat /\ DOMAIN r = 1 .. l /\ u \in Unit
      /\ \A n \in DOMAIN r : n \in Nat /\ r[n] \in Unit /\ r[n].c = u.c /\ <<r[n], u>> \in InTurn
  <2>1. r \in Seq(Unit) /\ l = Len(r)
    BY DEF Follows
  <2>2. l \in Nat /\ DOMAIN r = 1 .. l
    BY <2>1, LenProperties
  <2>3. \A n \in DOMAIN r : r[n] \in Unit
    BY <2>1, <2>2, ElementOfSeq
  <2> QED
    BY <2>2, <2>3 DEF Follows
<1>1. \A n \in DOMAIN r : n % 2 = 0 => n - 1 \in DOMAIN r
  <2> SUFFICES ASSUME NEW n \in DOMAIN r, n % 2 = 0 PROVE n - 1 \in DOMAIN r
    OBVIOUS
  <2>1. 1 % 2 = 1
    OBVIOUS
  <2>2. n # 1
    BY <2>1
  <2> QED
    BY <1>0, <2>2
<1>2. /\ \A n \in DOMAIN r : r[n].part = IF n % 2 = 1 THEN 1 ELSE 2
      /\ \A n \in DOMAIN r : n % 2 = 0 => n - 1 \in DOMAIN r /\ r[n].q = r[n - 1].q
  BY <1>1 DEF Follows, Framed
<1>3. u.part = IF (l + 1) % 2 = 1 THEN 1 ELSE 2
  BY DEF Follows, Framed
<1>4. ASSUME (l + 1) % 2 = 0
      PROVE  u.q = r[l].q
  <2>1. u.q = s[(l + 1) - 1].q
    BY <1>4 DEF Follows, Framed
  <2>2. (l + 1) - 1 = l /\ l # 0
    BY <1>0, <1>4, Parity
  <2>3. l \in DOMAIN r
    BY <1>0, <2>2
  <2> QED
    BY <2>1, <2>2, <2>3 DEF Follows
<1>5. CASE l % 2 = 0 /\ (l + 1) % 2 = 1
  <2>1. u.part = 1
    BY <1>3, <1>5
  <2>2. ASSUME NEW n \in DOMAIN r
        PROVE  IF Mode = "sync" THEN r[n].q < u.q ELSE r[n].q # u.q
    <3>1. n \in Nat /\ r[n].part \in {1, 2} /\ r[n].q \in Nat /\ u.q \in Nat
      BY <1>0 DEF Unit
    <3>2. CASE Mode = "sync"
      <4>1. r[n].q < u.q \/ r[n].part < u.part
        BY <1>0, <3>2 DEF InTurn, Precede
      <4>2. ~(r[n].part < u.part)
        BY <2>1, <3>1
      <4> QED
        BY <3>2, <4>1, <4>2
    <3>3. CASE Mode # "sync"
      <4>1. \A m \in DOMAIN r : r[m].part = 1 => r[m].q # u.q
        <5> SUFFICES ASSUME NEW m \in DOMAIN r, r[m].part = 1, r[m].q = u.q PROVE FALSE
          OBVIOUS
        <5>1. r[m] = u
          <6>1. u = [c |-> u.c, q |-> u.q, part |-> u.part]
            BY <1>0 DEF Unit
          <6>2. r[m] = [c |-> r[m].c, q |-> r[m].q, part |-> r[m].part]
            BY <1>0 DEF Unit
          <6>3. r[m].c = u.c
            BY <1>0
          <6> QED
            BY <2>1, <6>1, <6>2, <6>3
        <5> QED
          BY <1>0, <3>3, <5>1 DEF InTurn, Differ
      <4>2. CASE r[n].part = 1
        BY <3>3, <4>1, <4>2
      <4>3. CASE r[n].part # 1
        <5>1. n % 2 # 1
          BY <1>2, <4>3, Zenon
        <5>2. n % 2 = 0
          BY <3>1, <5>1, Parity, Zenon
        <5>3. n - 1 \in Nat /\ n = (n - 1) + 1 /\ n - 1 \in DOMAIN r /\ r[n].q = r[n - 1].q
          BY <1>0, <1>2, <3>1, <5>2
        <5>4. (n - 1) % 2 = 1
          BY <5>2, <5>3, Parity
        <5>5. r[n - 1].part = 1
          BY <1>2, <5>3, <5>4
        <5> QED
          BY <3>3, <4>1, <5>3, <5>5
      <4> QED
        BY <4>2, <4>3
    <3> QED
      BY <3>2, <3>3
  <2> QED
    BY <1>5, <2>1, <2>2
<1>6. CASE l % 2 = 1 /\ (l + 1) % 2 = 0
  <2>1. u.part = 2
    BY <1>3, <1>6
  <2> QED
    BY <1>4, <1>6, <2>1
<1> QED
  BY <1>0, <1>5, <1>6, Parity

\* What a client receives is one half of an answer, in its place.
LEMMA ReceiveStep ==
    ASSUME IInv, FrameInv, OnceInv, TurnInv, NEW c \in Clients, Drain(c)
    PROVE  Service!Begin(c) \/ Service!Finish(c)
<1>1. PICK r, f, l, u : r = received[c] /\ f = inflight[c] /\ l = Len(r) /\ u = f[1]
  OBVIOUS
<1>2. /\ r \in Seq(Unit) /\ f \in Seq(Unit) /\ f # <<>> /\ l \in Nat /\ cli[c] # "rst"
      /\ received \in [Clients -> Seq(Unit)]
  BY <1>1, LenProperties DEF IInv, TypeOK, Drain
<1>3. 1 \in DOMAIN f /\ Head(f) = u /\ u \in Unit
  BY <1>1, <1>2, EmptySeq, LenProperties, ElementOfSeq
<1>4. received' = [received EXCEPT ![c] = Append(r, u)] /\ sent' = sent /\ dispatched' = dispatched
  BY <1>1, <1>3 DEF Drain, appVars
<1>5. PICK s : s = r \o f
  OBVIOUS
<1>6. /\ \A n \in DOMAIN r : s[n] = r[n] /\ n \in DOMAIN s
      /\ s[l + 1] = u /\ l + 1 \in DOMAIN s
      /\ DOMAIN r = 1 .. l
  BY <1>1, <1>2, <1>3, <1>5, ConcatProperties, LenProperties
<1>7. OwnedBy(f, c) /\ OwnedBy(r, c) /\ Framed(s)
  BY <1>1, <1>2, <1>5 DEF FrameInv, Begun
<1>8. u.c = c /\ \A n \in DOMAIN r : r[n].c = c
  BY <1>1, <1>3, <1>7 DEF OwnedBy
<1>9. \A n \in DOMAIN r : <<r[n], u>> \in InTurn
  BY <1>1, <1>3 DEF TurnInv, Chain, Before
<1>10. Follows(s, r, l, u)
  BY <1>1, <1>2, <1>3, <1>6, <1>7, <1>8, <1>9 DEF Follows
<1>11. \/ /\ l % 2 = 0 /\ u.part = 1
          /\ \A n \in DOMAIN r : IF Mode = "sync" THEN r[n].q < u.q ELSE r[n].q # u.q
       \/ l % 2 # 0 /\ u.part = 2 /\ u.q = r[l].q
  BY <1>10, NextHalf
<1>12. u.q \in TakenOf(c)
  <2>1. Responded(c, u.q)
    BY <1>1, <1>3, <1>8 DEF Responded, Names
  <2>2. u.q \in Nat
    BY <1>3 DEF Unit
  <2> QED
    BY <2>1, <2>2, TakenIs DEF OnceInv
<1>13. UNCHANGED <<[d \in Clients |-> Came(d)], [d \in Clients |-> TakenOf(d)]>>
  BY <1>4 DEF Came, TakenOf
<1>14. u = [c |-> c, q |-> u.q, part |-> u.part]
  BY <1>3, <1>8 DEF Unit
<1>15. CASE l % 2 = 0 /\ u.part = 1 /\ \A n \in DOMAIN r : IF Mode = "sync" THEN r[n].q < u.q ELSE r[n].q # u.q
  <2>1. received' = [received EXCEPT ![c] = Append(received[c], [c |-> c, q |-> u.q, part |-> 1])]
    BY <1>1, <1>4, <1>14, <1>15
  <2> QED
    BY <1>1, <1>12, <1>13, <1>15, <2>1 DEF Service!Begin, Service!Whole, Service!Receive, Came
<1>16. CASE l % 2 # 0 /\ u.part = 2 /\ u.q = r[l].q
  <2>1. received' = [received EXCEPT ![c] = Append(received[c],
                        [c |-> c, q |-> received[c][Len(received[c])].q, part |-> 2])]
    BY <1>1, <1>4, <1>14, <1>16
  <2> QED
    BY <1>1, <1>13, <1>16, <2>1 DEF Service!Finish, Service!Whole, Service!Receive, Came
<1> QED
  BY <1>11, <1>15, <1>16

-----------------------------------------------------------------------------
(* The refinement *)

\* At first nothing has come, was taken or received.
LEMMA ServiceInit == Init => Service!Init
<1> SUFFICES ASSUME Init PROVE Service!Init
  OBVIOUS
<1>1. /\ \A c \in Clients : received[c] = <<>> /\ sent[c] = 0
      /\ received = [c \in Clients |-> <<>>] /\ dispatched = <<>>
  BY DEF Init
<1>2. \A c \in Clients : Came(c) = {}
  <2>1. 1 .. 0 = {}
    OBVIOUS
  <2> QED
    BY <1>1, <2>1 DEF Came, RequestsIn
<1>3. \A c \in Clients : TakenOf(c) = {}
  <2>1. DOMAIN <<>> = {}
    BY EmptySeq
  <2> QED
    BY <1>1, <2>1 DEF TakenOf
<1> QED
  BY <1>1, <1>2, <1>3 DEF Service!Init, Came

\* Every step is one of the service's, or none.
LEMMA ServiceStep ==
    ASSUME WellFormed, OrderInv, FrameInv, CameInv, [Next]_vars
    PROVE  [Service!Next]_(Service!vars)
<1>1. IInv /\ AddressInv /\ FreshInv /\ OnceInv /\ TurnInv
  BY DEF OrderInv, SInv
<1>2. CASE UNCHANGED <<received, sent, dispatched>>
  <2>1. UNCHANGED <<[d \in Clients |-> Came(d)], [d \in Clients |-> TakenOf(d)], received>>
    BY <1>2 DEF Came, TakenOf
  <2> QED
    BY <2>1 DEF Service!vars, Came
<1>3. CASE pc = "dispatch" /\ Dispatched /\ UNCHANGED <<received, sent>>
  <2>1. PICK c \in Clients : Service!Take(c)
    BY <1>1, <1>3, TakeStep
  <2> QED
    BY <2>1 DEF Service!Next
<1>4. ASSUME NEW c \in Clients, Drain(c)
      PROVE  [Service!Next]_(Service!vars)
  <2>1. Service!Begin(c) \/ Service!Finish(c)
    BY <1>1, <1>4, ReceiveStep
  <2> QED
    BY <2>1 DEF Service!Next
<1>5. ASSUME NEW c \in Clients, c \notin closed, Send(c)
      PROVE  [Service!Next]_(Service!vars)
  <2>1. Service!Ask(c) \/ UNCHANGED Service!vars
    BY <1>1, <1>5, AskStep
  <2> QED
    BY <2>1 DEF Service!Next
<1> QED
  BY <1>2, <1>3, <1>4, <1>5, StepIs

\* The loop, its processor, its sockets and its clients implement the service, in
\* both modes: read() gives the processor each request once and in its turn, and
\* what the writes, the hang-ups and the resets leave to a client is whole answers
\* to its own requests, none of them twice.
THEOREM ServiceCorrect ==
    ASSUME Orderly
    PROVE  Spec => ImplementsService
<1>1. WellFormed /\ OwnAddress
  BY DEF Orderly
<1>2. Spec => []OrderInv
  BY OrderInvariance
<1>3. Init => FrameInv /\ CameInv /\ Service!Init
  BY FrameInit, CameInit, ServiceInit
<1>4. OrderInv /\ FrameInv /\ CameInv /\ [Next]_vars => FrameInv' /\ CameInv'
  BY <1>1, FrameStep, CameStep DEF OrderInv
<1>5. OrderInv /\ FrameInv /\ CameInv /\ [Next]_vars => [Service!Next]_(Service!vars)
  BY <1>1, ServiceStep
<1> QED
  BY <1>2, <1>3, <1>4, <1>5, PTL DEF Spec, ImplementsService, Service!Spec
=============================================================================
