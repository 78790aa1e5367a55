--------------------------- MODULE MemcacheProofs ---------------------------
(***************************************************************************)
(* Every request of the memcache client is framed, whatever the lengths of *)
(* keys and values are: the header announces the bytes that follow it.     *)
(* The client matches answers to commands by nothing but their order: the  *)
(* proof that this is enough for a disciplined program, and of the types   *)
(* it rests on.  OrderInv says what may be on the wire while a call waits: *)
(* answers to quiet commands, if the call reads over them, and behind all  *)
(* of them the call's own answer.                                          *)
(***************************************************************************)
EXTENDS MemcacheClient, TLAPS, SequenceTheorems

HeaderType == [keyLen : 0 .. U16 - 1, extraLen : {0, 4, 8, 20},
               bodyLen : 0 .. U32 - 1, lastLen : 0 .. U32 - 1]

\* A request whose header announces what is sent.
Framed == {r \in [n : Nat, op : Command, header : HeaderType, size : Nat] :
              r.header.bodyLen = r.size}

IInv == n \in Nat /\ toServer \in Seq(Framed)

\* What fits in a ushort or a uint is kept.
LEMMA ModSmall ==
    ASSUME NEW a \in Nat, NEW b \in Nat, a < b
    PROVE  a % b = a
  OBVIOUS

\* updateBodyLen() with an argument stores it and announces the sum.
LEMMA Update ==
    ASSUME NEW k \in Nat, NEW e \in Nat, NEW b \in Nat, NEW l \in Nat, NEW v \in Nat
    PROVE  updateBodyLen([keyLen |-> k, extraLen |-> e, bodyLen |-> b, lastLen |-> l], v)
             = [keyLen |-> k, extraLen |-> e, bodyLen |-> (v + e + k) % U32, lastLen |-> v]
  BY DEF updateBodyLen

\* updateBodyLen() without one, as long as no value was stored.
LEMMA Refresh ==
    ASSUME NEW k \in Nat, NEW e \in Nat, NEW b \in Nat
    PROVE  refreshBodyLen([keyLen |-> k, extraLen |-> e, bodyLen |-> b, lastLen |-> 0])
             = [keyLen |-> k, extraLen |-> e, bodyLen |-> (0 + e + k) % U32, lastLen |-> 0]
<1> DEFINE h == [keyLen |-> k, extraLen |-> e, bodyLen |-> b, lastLen |-> 0]
<1>1. h.lastLen = 0 /\ ~(0 > 0)
  OBVIOUS
<1>2. refreshBodyLen(h) = updateBodyLen(h, 0)
  BY <1>1 DEF refreshBodyLen
<1> QED
  BY <1>2, Update

\* The setter for the key, on a new header: the remembered length stays 0.
LEMMA SetKey ==
    ASSUME NEW k \in Nat, k < U16, k < U32
    PROVE  keyLen(NewHeader, k) = [keyLen |-> k, extraLen |-> 0, bodyLen |-> k, lastLen |-> 0]
<1>1. k % U16 = k /\ k % U32 = k
  BY ModSmall, MemcacheAssumption DEF MemcacheAssumption
<1>2. [NewHeader EXCEPT !.keyLen = k] = [keyLen |-> k, extraLen |-> 0, bodyLen |-> 0, lastLen |-> 0]
  BY DEF NewHeader
<1>3. keyLen(NewHeader, k) = refreshBodyLen([NewHeader EXCEPT !.keyLen = k])
  BY <1>1 DEF keyLen
<1>4. 0 + 0 + k = k
  OBVIOUS
<1> QED
  BY <1>1, <1>2, <1>3, <1>4, Refresh

\* The setter for the extras, on a header that has no value yet.
LEMMA SetExtra ==
    ASSUME NEW k \in Nat, NEW b \in Nat, NEW e \in Nat, k + e < U32
    PROVE  extraLen([keyLen |-> k, extraLen |-> 0, bodyLen |-> b, lastLen |-> 0], e)
             = [keyLen |-> k, extraLen |-> e, bodyLen |-> k + e, lastLen |-> 0]
<1>1. (k + e) % U32 = k + e
  BY ModSmall, MemcacheAssumption DEF MemcacheAssumption
<1>2. 0 + e + k = k + e
  OBVIOUS
<1>3. extraLen([keyLen |-> k, extraLen |-> 0, bodyLen |-> b, lastLen |-> 0], e)
        = refreshBodyLen([keyLen |-> k, extraLen |-> e, bodyLen |-> b, lastLen |-> 0])
  BY DEF extraLen
<1> QED
  BY <1>1, <1>2, <1>3, Refresh

\* The setter for the value adds what the others have set.
LEMMA SetValue ==
    ASSUME NEW k \in Nat, NEW e \in Nat, NEW b \in Nat, NEW v \in Nat, k + e + v < U32
    PROVE  valueLen([keyLen |-> k, extraLen |-> e, bodyLen |-> b, lastLen |-> 0], v)
             = [keyLen |-> k, extraLen |-> e, bodyLen |-> k + e + v, lastLen |-> v]
<1>1. v % U32 = v /\ (k + e + v) % U32 = k + e + v
  BY ModSmall, MemcacheAssumption DEF MemcacheAssumption
<1>2. v + e + k = k + e + v
  OBVIOUS
<1> QED
  BY <1>1, <1>2, Update DEF valueLen

\* A header announces the body of its command, for keys that fit in a ushort
\* and bodies that fit in a uint.
LEMMA HeaderFrames ==
    ASSUME NEW c \in Command, NEW k \in Nat, NEW v \in Nat, k < U16, k + v + 20 < U32,
           c \in NoKey => k = 0, c \notin WithValue => v = 0
    PROVE  /\ Header(c, k, v) \in HeaderType
           /\ BodySize(c, k, v) \in Nat
           /\ Header(c, k, v).bodyLen = BodySize(c, k, v)
<1> DEFINE h == [keyLen |-> k, extraLen |-> 0, bodyLen |-> k, lastLen |-> 0]
<1>u. U16 \in Nat /\ U32 \in Nat /\ k < U16 /\ k < U32 /\ k + v + 20 < U32
  BY MemcacheAssumption DEF MemcacheAssumption
<1>k. keyLen(NewHeader, k) = h
  BY SetKey, <1>u
<1>1. CASE c \in SetCmds
  <2>0. c \notin CountCmds /\ c \notin FlushCmds
    BY <1>1 DEF FlushCmds, CountCmds, CountQuiet, SetCmds, SetQuiet
  <2>1. extraLen(h, 8) = [keyLen |-> k, extraLen |-> 8, bodyLen |-> k + 8, lastLen |-> 0]
    BY SetExtra, <1>u
  <2>2. Header(c, k, v) = [keyLen |-> k, extraLen |-> 8, bodyLen |-> k + 8 + v, lastLen |-> v]
    BY <1>1, <1>k, <1>u, <2>0, <2>1, SetValue DEF Header
  <2>3. BodySize(c, k, v) = 8 + k + v
    BY <1>1, <2>0 DEF BodySize
  <2> QED
    BY <1>u, <2>2, <2>3 DEF HeaderType
<1>2. CASE c \in CountCmds
  <2>1. c \notin SetCmds /\ c \notin FlushCmds
    BY <1>2 DEF CountCmds, CountQuiet, SetCmds, SetQuiet, FlushCmds
  <2>2. Header(c, k, v) = [keyLen |-> k, extraLen |-> 20, bodyLen |-> k + 20, lastLen |-> 0]
    BY <1>2, <1>k, <1>u, <2>1, SetExtra DEF Header
  <2>3. BodySize(c, k, v) = 20 + k
    BY <1>2, <2>1 DEF BodySize
  <2> QED
    BY <1>u, <2>2, <2>3 DEF HeaderType
<1>3. CASE c \in FlushCmds
  <2>1. c \notin SetCmds /\ c \notin CountCmds
    BY <1>3 DEF FlushCmds, CountCmds, CountQuiet, SetCmds, SetQuiet
  <2>2. Header(c, k, v) = [keyLen |-> 0, extraLen |-> 4, bodyLen |-> 4, lastLen |-> 0]
    <3>1. Header(c, k, v) = extraLen(NewHeader, 4)
      BY <1>3, <2>1 DEF Header
    <3>2. extraLen([keyLen |-> 0, extraLen |-> 0, bodyLen |-> 0, lastLen |-> 0], 4)
            = [keyLen |-> 0, extraLen |-> 4, bodyLen |-> 0 + 4, lastLen |-> 0]
      BY SetExtra, <1>u
    <3> QED
      BY <3>1, <3>2 DEF NewHeader
  <2>3. BodySize(c, k, v) = 4
    BY <1>3, <2>1 DEF BodySize
  <2> QED
    BY <1>u, <2>2, <2>3 DEF HeaderType
<1>4. CASE c \notin SetCmds \cup CountCmds \cup FlushCmds
  <2>1. Header(c, k, v) = [keyLen |-> k, extraLen |-> 0, bodyLen |-> k + 0 + v, lastLen |-> v]
    BY <1>4, <1>k, <1>u, SetValue DEF Header
  <2>2. BodySize(c, k, v) = k + v
    BY <1>4 DEF BodySize
  <2> QED
    BY <1>u, <2>1, <2>2 DEF HeaderType
<1> QED
  BY <1>1, <1>2, <1>3, <1>4

\* A request that is written is framed; nothing else is added to toServer.
LEMMA WriteFrames ==
    ASSUME NEW c \in Command, IInv, Begin(c), Write(c)
    PROVE  IInv'
<1>1. n' \in Nat
  BY DEF IInv, Begin
<1>2. PICK k \in KeysOf(c), v \in ValuesOf(c) :
        toServer' = IF sock = "broken" THEN toServer
                    ELSE Append(toServer, [n |-> n', op |-> c, header |-> Header(c, k, v),
                                           size |-> BodySize(c, k, v)])
  BY DEF Write
<1>3. /\ k \in Nat /\ v \in Nat /\ k < U16 /\ k + v + 20 < U32
      /\ c \in NoKey => k = 0
      /\ c \notin WithValue => v = 0
  <2>1. U16 \in Nat /\ U32 \in Nat
    BY MemcacheAssumption DEF MemcacheAssumption
  <2> QED
    BY <2>1, MemcacheAssumption DEF KeysOf, ValuesOf, MemcacheAssumption
<1>4. [n |-> n', op |-> c, header |-> Header(c, k, v), size |-> BodySize(c, k, v)] \in Framed
  BY <1>1, <1>3, HeaderFrames DEF Framed
<1> QED
  BY <1>1, <1>2, <1>4 DEF IInv

\* Every step keeps the requests framed.
LEMMA StepFrames ==
    ASSUME IInv, [Next]_vars
    PROVE  IInv'
<1>1. ASSUME NEW c \in Command, CallQuiet(c) \/ CallWait(c)
      PROVE  IInv'
  BY <1>1, WriteFrames DEF CallQuiet, CallWait
<1>2. ASSUME NEW c \in Command, NullSock(c) \/ SendFails(c)
      PROVE  IInv'
  BY <1>2 DEF NullSock, SendFails, Begin, IInv
<1>3. CASE quitq
  BY <1>3 DEF quitq, Begin, Close, IInv
<1>4. ASSUME NEW h, NEW rest, Received(h, rest)
      PROVE  IInv'
  <2>1. n' = n
    BY <1>4 DEF Received, Fail, Return
  <2>2. toServer' = toServer \/ toServer' = <<>>
    BY <1>4 DEF Received, Close
  <2>3. <<>> \in Seq(Framed)
    OBVIOUS
  <2>4. toServer' \in Seq(Framed)
    BY <2>2, <2>3 DEF IInv
  <2> QED
    BY <2>1, <2>4 DEF IInv
<1>5. CASE RecvHeader \/ RecvBody
  BY <1>4, <1>5 DEF RecvHeader, RecvBody
<1>6. CASE RecvHeaderOfBody \/ RecvGarbage \/ RecvClosed
  BY <1>6 DEF RecvHeaderOfBody, RecvGarbage, RecvClosed, Return, Fail, IInv
<1>7. CASE Serve
  BY <1>7 DEF Serve, IInv
<1>8. CASE Break
  BY <1>8 DEF Break, IInv
<1>9. CASE UNCHANGED vars
  BY <1>9 DEF vars, IInv
<1> QED
  BY <1>1, <1>2, <1>3, <1>5, <1>6, <1>7, <1>8, <1>9 DEF Next, Client

(***************************************************************************)
(* Every request of every behaviour is framed: for keys that fit in a      *)
(* ushort, and keys and values whose sum with the extras fits in a uint,   *)
(* updateBodyLen() leaves in the header the length of what send(),         *)
(* setImpl() and incrDecr() write behind it.                               *)
(***************************************************************************)
THEOREM AllFramed == Spec => []RequestsFramed
<1>1. Init => IInv
  BY DEF Init, IInv
<1>2. IInv /\ [Next]_vars => IInv'
  BY StepFrames
<1>3. IInv => RequestsFramed
  BY DEF IInv, Framed, RequestsFramed
<1> QED
  BY <1>1, <1>2, <1>3, PTL DEF Spec

-----------------------------------------------------------------------------
(* Types, own answers and assertions *)

Status == {"OK", "KEY_NOTFOUND", "ITEM_NOT_STORED"}
Piece  == [kind : {"head", "body"}, answer : Answering]

-----------------------------------------------------------------------------
(* The inductive invariant *)

Heads(fs) == {i \in DOMAIN fs : fs[i].kind = "head"}

\* What follows a header at i, with a body or without, as far as it has come.
Follow(fs, i, body) ==
    IF body THEN /\ i + 1 \in DOMAIN fs => fs[i + 1].kind = "body"
                 /\ i + 2 \in DOMAIN fs => fs[i + 2].kind = "body"
                 /\ i + 3 \in DOMAIN fs => fs[i + 3].kind = "head"
    ELSE i + 1 \in DOMAIN fs => fs[i + 1].kind = "head"

\* The pieces on the socket, behind a header that has been read (body) or not.
Sequenced(fs, body) ==
    Follow(fs, 0, body) /\ \A i \in Heads(fs) : Follow(fs, i, fs[i].answer.body)

\* The last answer on the socket is there as a whole.
Ended(fs, body) ==
    (body => 2 <= Len(fs)) /\ \A i \in Heads(fs) : fs[i].answer.body => i + 2 <= Len(fs)

Framing ==
    /\ Sequenced(fromServer, pc = "body")
    /\ sock # "broken" => Ended(fromServer, pc = "body")

Waits == pc \in {"receive", "body"}

\* The request and the answers of the call that waits, and those of the quiet
\* commands before it.
Own(r)     == Waits /\ r.op = cmd /\ r.n = n
Aside(r)   == r.op \in Quiet /\ (Waits => cmd \in Until)
OwnOK(a)   == Own(a) /\ (cmd = "QUIT" => a.status = "OK")
Closing(a) == Waits /\ LastAnswer(cmd, a)

Wire ==
    /\ Waits => cmd \in Command \ (Quiet \cup {"QUITQ"})
    /\ sock = "broken" => toServer = <<>>
    /\ \A i \in DOMAIN toServer :
         /\ Own(toServer[i]) \/ Aside(toServer[i])
         /\ Own(toServer[i]) => i = Len(toServer)
    /\ \A i \in Heads(fromServer) :
         /\ OwnOK(fromServer[i].answer) \/ Aside(fromServer[i].answer)
         /\ Closing(fromServer[i].answer) => toServer = <<>> /\ \A j \in Heads(fromServer) : j <= i
    /\ pc = "body" =>
         /\ OwnOK(header) \/ Aside(header)
         /\ Closing(header) => toServer = <<>> /\ Heads(fromServer) = {}

\* Between calls, nothing is on the wire but quiet commands and their answers.
Settled == ~Waits /\ ~unsettled => toServer = <<>> /\ fromServer = <<>>

\* No call that returned was called as late as m.
Fresh(m) == \A j \in DOMAIN results : results[j].out = "returned" => results[j].n < m

Later ==
    /\ Fresh(n + 1)
    /\ Waits => Fresh(n)
    /\ \A i \in DOMAIN toServer : Fresh(toServer[i].n)
    /\ \A i \in Heads(fromServer) : Fresh(fromServer[i].answer.n)
    /\ pc = "body" => Fresh(header.n)
    /\ Waits => \A k \in DOMAIN objs : Fresh(objs[k].n)

\* What the calls returned.
ReturnsOwn ==
    \A i \in DOMAIN results : results[i].out = "returned" =>
        LET r == results[i] IN
        /\ r.objs # <<>> /\ r.objs[Len(r.objs)].n = r.n
        /\ \A k \in DOMAIN r.objs, j \in 1 .. i - 1 :
              results[j].out = "returned" => results[j].n < r.objs[k].n

OrderInv ==
    Disciplined => pc # "failed" /\ Framing /\ Wire /\ Settled /\ Later /\ ReturnsOwn

-----------------------------------------------------------------------------
(* Types *)

\* What the server answers has the command and the number of the request: a
\* quiet command is answered once or not at all, STAT twice, the others once.
LEMMA AnswersOf ==
    ASSUME NEW req, req.op \in Command, NEW ans \in Answers(req)
    PROVE  \/ ans = <<>> /\ req.op \in Quiet
           \/ /\ req.op # "STAT"
              /\ \E st \in Status, k, b \in BOOLEAN :
                   ans = <<Answer(req, st, k, b)>> /\ (req.op = "QUIT" => st = "OK")
           \/ /\ req.op = "STAT"
              /\ ans = <<Answer(req, "OK", TRUE, TRUE), Answer(req, "OK", FALSE, FALSE)>>
<1>q. /\ GetQuiet \subseteq Quiet
      /\ {"STAT", "QUIT"} \cap (Quiet \cup {"GET", "GETK"} \cup CountCmds \cup Single) = {}
      /\ {"GET", "GETK"} \cap (Quiet \cup CountCmds \cup Single) = {}
      /\ (Single \ CountCmds) \cap Quiet = {}
  BY DEF GetQuiet, Quiet, SetQuiet, CountQuiet, CountCmds, Single
<1>s. "OK" \in Status /\ "KEY_NOTFOUND" \in Status /\ "ITEM_NOT_STORED" \in Status
  BY DEF Status
<1>1. CASE req.op \in GetQuiet
  <2>1. ans \in {<<>>, <<Answer(req, "OK", req.op = "GETKQ", TRUE)>>}
    BY <1>1, <1>q, Zenon DEF Answers
  <2>2. (req.op = "GETKQ") \in BOOLEAN
    OBVIOUS
  <2> QED
    BY <1>1, <1>q, <1>s, <2>1, <2>2, Zenon
<1>2. CASE req.op \in Quiet \ GetQuiet
  <2>1. ans \in {<<>>, <<Answer(req, "ITEM_NOT_STORED", FALSE, TRUE)>>}
    BY <1>2, <1>q, Zenon DEF Answers, Error
  <2> QED
    BY <1>2, <1>q, <1>s, <2>1, Zenon
<1>3. CASE req.op \in {"GET", "GETK"}
  <2>1. ans \in {<<Answer(req, "OK", req.op = "GETK", TRUE)>>, <<Answer(req, "KEY_NOTFOUND", FALSE, TRUE)>>}
    BY <1>3, <1>q, Zenon DEF Answers, Error
  <2>2. (req.op = "GETK") \in BOOLEAN
    OBVIOUS
  <2> QED
    BY <1>3, <1>q, <1>s, <2>1, <2>2, Zenon
<1>4. CASE req.op = "STAT"
  <2>1. ans \in {<<Answer(req, "OK", TRUE, TRUE), Answer(req, "OK", FALSE, FALSE)>>}
    BY <1>4, <1>q, Zenon DEF Answers
  <2> QED
    BY <1>4, <2>1
<1>5. CASE req.op \in CountCmds \ Quiet
  <2>1. ans \in {<<Answer(req, "OK", FALSE, TRUE)>>, <<Answer(req, "KEY_NOTFOUND", FALSE, TRUE)>>}
    BY <1>5, <1>q, Zenon DEF Answers, Error
  <2> QED
    BY <1>5, <1>q, <1>s, <2>1, Zenon
<1>6. CASE req.op \in Single \ CountCmds
  <2>1. ans \in {<<Answer(req, "OK", FALSE, req.op = "VERSION")>>, <<Answer(req, "ITEM_NOT_STORED", FALSE, TRUE)>>}
    BY <1>6, <1>q, Zenon DEF Answers, Error
  <2>2. (req.op = "VERSION") \in BOOLEAN
    OBVIOUS
  <2> QED
    BY <1>6, <1>q, <1>s, <2>1, <2>2, Zenon
<1>7. CASE req.op \notin Single \cup Quiet \cup CountCmds \cup {"GET", "GETK", "STAT"}
  <2>1. ans \in {<<Answer(req, "OK", FALSE, FALSE)>>}
    BY <1>7, <1>q, Zenon DEF Answers
  <2> QED
    BY <1>7, <1>s, <2>1, Zenon
<1> QED
  BY <1>1, <1>2, <1>3, <1>4, <1>5, <1>6, <1>7, <1>q, Zenon

\* An answer is a header and two pieces of body, or a header.
LEMMA PiecesOf ==
    ASSUME NEW a \in Answering
    PROVE  /\ Pieces(a) \in Seq(Piece)
           /\ Pieces(a)[1] = [kind |-> "head", answer |-> a]
           /\ ~a.body => Len(Pieces(a)) = 1
           /\ a.body => /\ Len(Pieces(a)) = 3
                        /\ Pieces(a)[2].kind = "body" /\ Pieces(a)[3].kind = "body"
<1> DEFINE h == [kind |-> "head", answer |-> a]
           b == [kind |-> "body", answer |-> a]
<1>1. h \in Piece /\ b \in Piece
  BY DEF Piece
<1>2. CASE a.body
  <2>1. Pieces(a) = <<h>> \o <<b, b>>
    BY <1>2 DEF Pieces
  <2> QED
    BY <1>1, <1>2, <2>1
<1>3. CASE ~a.body
  <2>1. Pieces(a) = <<h>> \o <<>>
    BY <1>3 DEF Pieces
  <2> QED
    BY <1>1, <1>3, <2>1
<1>4. a.body \in BOOLEAN
  BY DEF Answering
<1> QED
  BY <1>2, <1>3

\* What a step of the server does: it answers the first request.
LEMMA ServeAnswers ==
    ASSUME TypeOK, IInv, Serve
    PROVE  LET req == toServer[1] IN
           /\ req \in Framed /\ req.n \in 0 .. MaxCalls
           /\ \/ fromServer' = fromServer /\ req.op \in Quiet
              \/ \E a \in Answering :
                    /\ a.op = req.op /\ a.n = req.n /\ req.op # "STAT"
                    /\ req.op = "QUIT" => a.status = "OK"
                    /\ fromServer' = fromServer \o Pieces(a)
              \/ \E a, z \in Answering :
                    /\ a.op = req.op /\ a.n = req.n /\ z.op = req.op /\ z.n = req.n
                    /\ req.op = "STAT" /\ a.key /\ ~z.key
                    /\ fromServer' = (fromServer \o Pieces(a)) \o Pieces(z)
<1> DEFINE req == toServer[1]
<1>1. req \in Framed /\ req.n \in 0 .. MaxCalls /\ req.op \in Command /\ Head(toServer) = req
  <2>1. toServer # <<>> /\ toServer \in Seq(Framed) /\ 1 \in DOMAIN toServer
    BY DEF Serve, IInv
  <2>2. toServer[1].n \in 1 .. n /\ n \in 0 .. MaxCalls
    BY <2>1 DEF TypeOK
  <2>3. MaxCalls \in Nat
    BY MemcacheAssumption DEF MemcacheAssumption
  <2> QED
    BY <2>1, <2>2, <2>3 DEF Framed
<1>2. PICK ans \in Answers(req) :
        fromServer' = fromServer \o (IF ans = <<>> THEN <<>> ELSE Pieces(ans[1]))
                                 \o (IF Len(ans) < 2 THEN <<>> ELSE Pieces(ans[2]))
  BY <1>1 DEF Serve
<1>t. fromServer \in Seq(Piece)
  BY DEF TypeOK, Piece
<1>a. ASSUME NEW st \in Status, NEW k \in BOOLEAN, NEW b \in BOOLEAN
      PROVE  LET a == Answer(req, st, k, b) IN
             /\ a \in Answering /\ a.op = req.op /\ a.n = req.n
             /\ a.key = k /\ a.status = st
  BY <1>1 DEF Answer, Answering, Status
<1>3. CASE ans = <<>> /\ req.op \in Quiet
  BY <1>1, <1>2, <1>3, <1>t
<1>4. ASSUME req.op # "STAT", NEW st \in Status, NEW k \in BOOLEAN, NEW b \in BOOLEAN,
             ans = <<Answer(req, st, k, b)>>, req.op = "QUIT" => st = "OK"
      PROVE  \E a \in Answering :
                /\ a.op = req.op /\ a.n = req.n /\ req.op # "STAT"
                /\ req.op = "QUIT" => a.status = "OK"
                /\ fromServer' = fromServer \o Pieces(a)
  <2> DEFINE a == Answer(req, st, k, b)
  <2>1. a \in Answering /\ a.op = req.op /\ a.n = req.n /\ a.status = st
    BY <1>a
  <2>2. ans # <<>> /\ Len(ans) = 1 /\ ans[1] = a
    BY <1>4
  <2> HIDE DEF a
  <2>3. fromServer' = (fromServer \o Pieces(a)) \o <<>>
    BY <1>2, <2>2
  <2>4. Pieces(a) \in Seq(Piece)
    BY <2>1, PiecesOf
  <2>5. fromServer' = fromServer \o Pieces(a)
    BY <1>t, <2>3, <2>4
  <2> QED
    BY <1>4, <2>1, <2>5
<1>5. CASE req.op = "STAT" /\ ans = <<Answer(req, "OK", TRUE, TRUE), Answer(req, "OK", FALSE, FALSE)>>
  <2> DEFINE a == Answer(req, "OK", TRUE, TRUE)
             z == Answer(req, "OK", FALSE, FALSE)
  <2>1. /\ a \in Answering /\ a.op = req.op /\ a.n = req.n /\ a.key = TRUE
        /\ z \in Answering /\ z.op = req.op /\ z.n = req.n /\ z.key = FALSE
    BY <1>a DEF Status
  <2>2. ans # <<>> /\ Len(ans) = 2 /\ ans[1] = a /\ ans[2] = z
    BY <1>5
  <2> HIDE DEF a, z
  <2>3. fromServer' = (fromServer \o Pieces(a)) \o Pieces(z)
    BY <1>2, <2>2
  <2> QED
    BY <1>1, <1>5, <2>1, <2>3
<1> QED
  BY <1>1, <1>3, <1>4, <1>5, AnswersOf

LEMMA Empty == \A S : <<>> \in Seq(S) /\ DOMAIN <<>> = {} /\ Len(<<>>) = 0
  OBVIOUS

\* The first piece and the rest.
LEMMA FirstPiece ==
    ASSUME NEW fs \in Seq(Piece), fs # <<>>
    PROVE  /\ Head(fs) \in Piece /\ Head(fs) = fs[1] /\ Head(fs).answer \in Answering
           /\ Tail(fs) \in Seq(Piece)
<1>1. Head(fs) \in Piece /\ Tail(fs) \in Seq(Piece) /\ Head(fs) = fs[1]
  BY HeadTailProperties
<1> QED
  BY <1>1 DEF Piece

\* A call begins, and its request is written.
LEMMA TypeBegin ==
    ASSUME TypeOK, NEW c \in Command, Begin(c)
    PROVE  cmd' \in Command /\ n' = n + 1 /\ n' \in 1 .. MaxCalls /\ raced' \in BOOLEAN
<1>1. c \in Quiet \cup Until \cup {"QUITQ"} \/ c \notin Quiet \cup Until \cup {"QUITQ"}
  OBVIOUS
<1>2. raced' \in BOOLEAN
  BY Zenon DEF Begin
<1>3. n \in 0 .. MaxCalls /\ n < MaxCalls /\ n' = n + 1 /\ MaxCalls \in Nat
  BY MemcacheAssumption DEF TypeOK, Begin, MemcacheAssumption
<1> QED
  BY <1>2, <1>3 DEF Begin

LEMMA TypeWrite ==
    ASSUME TypeOK, IInv, NEW c \in Command, Begin(c), Write(c)
    PROVE  /\ sock' \in {"open", "broken"}
           /\ toServer' \in Seq(Framed)
           /\ \A i \in DOMAIN toServer' : toServer'[i].n \in 1 .. n'
<1>1. n \in Nat /\ n' = n + 1 /\ toServer \in Seq(Framed)
  BY TypeBegin DEF IInv
<1>2. toServer' \in Seq(Framed)
  BY WriteFrames DEF IInv
<1>3. \A i \in DOMAIN toServer : toServer[i].n \in 1 .. n'
  BY <1>1 DEF TypeOK
<1>4. PICK k \in KeysOf(c), v \in ValuesOf(c) :
        toServer' = IF sock = "broken" THEN toServer
                    ELSE Append(toServer, [n |-> n', op |-> c, header |-> Header(c, k, v),
                                           size |-> BodySize(c, k, v)])
  BY DEF Write
<1> DEFINE r == [n |-> n', op |-> c, header |-> Header(c, k, v), size |-> BodySize(c, k, v)]
<1>5. r.n = n'
  OBVIOUS
<1> HIDE DEF r
<1>6. n' \in 1 .. n'
  BY <1>1
<1>s. sock' \in {"open", "broken"}
  BY DEF TypeOK, Write
<1>7. CASE sock = "broken"
  BY <1>2, <1>3, <1>4, <1>7, <1>s
<1>8. CASE sock # "broken"
  <2>1. toServer' = Append(toServer, r)
    BY <1>4, <1>8 DEF r
  <2>2. \A i \in DOMAIN toServer' : (i \in DOMAIN toServer /\ toServer'[i] = toServer[i]) \/ toServer'[i] = r
    BY <1>1, <2>1
  <2> QED
    BY <1>2, <1>3, <1>5, <1>6, <1>s, <2>2
<1> QED
  BY <1>7, <1>8

\* A call returns: its result is typed.
LEMMA TypeReturn ==
    ASSUME TypeOK, NEW out \in {"sent", "returned", "exception"}, NEW seen \in Seq(Answering),
           cmd' \in Command, n' \in 1 .. MaxCalls, results' = Append(results, Result(out, seen))
    PROVE  results' \in Seq([n : 1 .. MaxCalls, cmd : Command, objs : Seq(Answering),
                             out : {"sent", "returned", "exception"}])
<1> DEFINE R == [n : 1 .. MaxCalls, cmd : Command, objs : Seq(Answering), out : {"sent", "returned", "exception"}]
<1>1. Result(out, seen) \in R
  BY DEF Result
<1>2. results \in Seq(R)
  BY DEF TypeOK
<1> HIDE DEF R
<1>3. results' \in Seq(R)
  BY <1>1, <1>2
<1> QED
  BY <1>3 DEF R

\* The types, that requests are framed, and that a call that waits was made.
TypeInv == TypeOK /\ IInv /\ (Waits => n # 0)

\* What a call makes of a header keeps the types.
LEMMA TypeReceived ==
    ASSUME TypeInv, Waits, NEW h \in Answering,
           NEW rest \in Seq(Piece), Received(h, rest)
    PROVE  /\ sock' \in {"null", "open", "broken"} /\ pc' \in {"idle", "receive", "failed"}
           /\ cmd' \in Command /\ n' = n /\ header' = header /\ objs' \in Seq(Answering)
           /\ toServer' = toServer \/ toServer' = <<>>
           /\ fromServer' \in Seq(Piece) /\ unsettled' \in BOOLEAN
           /\ results' \in Seq([n : 1 .. MaxCalls, cmd : Command, objs : Seq(Answering),
                                out : {"sent", "returned", "exception"}])
<1> DEFINE R == [n : 1 .. MaxCalls, cmd : Command, objs : Seq(Answering), out : {"sent", "returned", "exception"}]
<1>1. Append(objs, h) \in Seq(Answering)
  BY DEF TypeInv, TypeOK
<1>2. CASE Fail /\ fromServer' = rest /\ UNCHANGED <<sock, toServer, unsettled>>
  BY <1>2 DEF Fail, TypeInv, TypeOK
<1>3. CASE /\ objs' = Append(objs, h) /\ pc' = "receive" /\ fromServer' = rest
           /\ UNCHANGED <<sock, toServer, unsettled, cmd, n, header, results>>
  BY <1>1, <1>3 DEF TypeInv, TypeOK
<1>4. ASSUME NEW out \in Outcome(cmd, h), Return(out, Append(objs, h)),
             IF cmd = "QUIT" THEN Close
             ELSE /\ fromServer' = rest
                  /\ unsettled' = (unsettled /\ cmd \notin Until)
                  /\ UNCHANGED <<sock, toServer>>
      PROVE  /\ sock' \in {"null", "open", "broken"} /\ pc' \in {"idle", "receive", "failed"}
             /\ cmd' \in Command /\ n' = n /\ header' = header /\ objs' \in Seq(Answering)
             /\ toServer' = toServer \/ toServer' = <<>>
             /\ fromServer' \in Seq(Piece) /\ unsettled' \in BOOLEAN
             /\ results' \in Seq(R)
  <2>1. out \in {"sent", "returned", "exception"}
    BY DEF Outcome
  <2>2. /\ pc' = "idle" /\ cmd' = cmd /\ n' = n /\ header' = header /\ objs' = <<>>
        /\ results' = Append(results, Result(out, Append(objs, h)))
    BY <1>4 DEF Return
  <2>3. cmd \in Command /\ n \in 1 .. MaxCalls
    BY MemcacheAssumption DEF TypeInv, TypeOK, MemcacheAssumption
  <2>4. results' \in Seq(R)
    BY <1>1, <2>1, <2>2, <2>3, TypeReturn DEF TypeInv
  <2>5. /\ sock' \in {"null", "open", "broken"}
        /\ toServer' = toServer \/ toServer' = <<>>
        /\ fromServer' \in Seq(Piece) /\ unsettled' \in BOOLEAN
    <3>1. CASE cmd = "QUIT"
      BY <1>4, <3>1, Empty DEF Close
    <3>2. CASE cmd # "QUIT"
      <4>1. fromServer' = rest /\ unsettled' = (unsettled /\ cmd \notin Until) /\ UNCHANGED <<sock, toServer>>
        BY <1>4, <3>2
      <4>2. unsettled' \in BOOLEAN
        BY <4>1, Zenon
      <4> QED
        BY <4>1, <4>2 DEF TypeInv, TypeOK
    <3> QED
      BY <3>1, <3>2
  <2>6. objs' \in Seq(Answering) /\ cmd' \in Command /\ n' = n /\ header' = header /\ pc' = "idle"
    BY <2>2, <2>3, Empty
  <2> QED
    BY <2>4, <2>5, <2>6
<1> QED
  BY <1>2, <1>3, <1>4 DEF Received

LEMMA TypeStep ==
    ASSUME TypeInv, [Next]_vars
    PROVE  TypeInv'
<1>i. IInv'
  BY StepFrames DEF TypeInv
<1>m. MaxCalls \in Nat
  BY MemcacheAssumption DEF MemcacheAssumption
<1>e. <<>> \in Seq(Answering) /\ <<>> \in Seq(Piece) /\ DOMAIN <<>> = {}
  BY Empty
<1>n. cmd \in Command /\ n \in 0 .. MaxCalls /\ \A i \in DOMAIN toServer : toServer[i].n \in 1 .. n
  BY DEF TypeInv, TypeOK
<1>f. \A i \in DOMAIN toServer' : toServer'[i].op \in Command /\ toServer'[i].header \in HeaderType
  BY <1>i DEF IInv, Framed
<1>1. ASSUME NEW c \in Command, CallQuiet(c)
      PROVE  TypeInv'
  <2>1. cmd' \in Command /\ n' \in 1 .. MaxCalls /\ raced' \in BOOLEAN
    BY <1>1, TypeBegin DEF CallQuiet, TypeInv
  <2>2. sock' \in {"open", "broken"} /\ \A i \in DOMAIN toServer' : toServer'[i].n \in 1 .. n'
    BY <1>1, TypeWrite DEF CallQuiet, TypeInv
  <2>3. results' = Append(results, Result("sent", <<>>)) /\ unsettled' = TRUE /\ UNCHANGED <<pc, header, objs, fromServer, cut>>
    BY <1>1 DEF CallQuiet
  <2>4. results' \in Seq([n : 1 .. MaxCalls, cmd : Command, objs : Seq(Answering),
                         out : {"sent", "returned", "exception"}])
    BY <1>e, <2>1, <2>3, TypeReturn DEF TypeInv
  <2> QED
    BY <1>m, <1>i, <1>f, <2>1, <2>2, <2>3, <2>4 DEF TypeInv, TypeOK, HeaderType, Waits
<1>2. ASSUME NEW c \in Command, CallWait(c)
      PROVE  TypeInv'
  <2>1. cmd' \in Command /\ n' \in 1 .. MaxCalls /\ raced' \in BOOLEAN
    BY <1>2, TypeBegin DEF CallWait, TypeInv
  <2>2. sock' \in {"open", "broken"} /\ \A i \in DOMAIN toServer' : toServer'[i].n \in 1 .. n'
    BY <1>2, TypeWrite DEF CallWait, TypeInv
  <2>3. pc' = "receive" /\ objs' = <<>> /\ UNCHANGED <<header, fromServer, results, unsettled, cut>>
    BY <1>2 DEF CallWait
  <2> QED
    BY <1>m, <1>e, <1>i, <1>f, <2>1, <2>2, <2>3 DEF TypeInv, TypeOK, HeaderType, Waits
<1>3. CASE quitq
  <2>1. cmd' \in Command /\ n' \in 1 .. MaxCalls /\ raced' \in BOOLEAN
    BY <1>3, TypeBegin DEF quitq, TypeInv, Command, NoConnect
  <2>2. /\ results' = Append(results, Result("sent", <<>>)) /\ UNCHANGED <<pc, header, objs, cut>>
        /\ sock' = "null" /\ toServer' = <<>> /\ fromServer' = <<>> /\ unsettled' = FALSE
    BY <1>3 DEF quitq, Close
  <2>3. results' \in Seq([n : 1 .. MaxCalls, cmd : Command, objs : Seq(Answering),
                         out : {"sent", "returned", "exception"}])
    BY <1>e, <2>1, <2>2, TypeReturn DEF TypeInv
  <2> QED
    <3>1. fromServer' \in Seq(Piece) /\ DOMAIN toServer' = {} /\ sock' \in {"null", "open", "broken"}
      BY <1>e, <2>2
    <3>2. n' \in 0 .. MaxCalls /\ n' # 0
      BY <1>m, <2>1
    <3>3. pc' \in {"idle", "receive", "body", "failed", "null"} /\ header' \in Answering /\ objs' \in Seq(Answering)
          /\ unsettled' \in BOOLEAN /\ cut' \in BOOLEAN
      BY <2>2 DEF TypeInv, TypeOK
    <3> QED
      BY <1>i, <2>1, <2>3, <3>1, <3>2, <3>3 DEF TypeInv, TypeOK, Piece, Waits
<1>4. ASSUME NEW c \in Command, NullSock(c) \/ SendFails(c)
      PROVE  TypeInv'
  <2>1. Begin(c) /\ UNCHANGED <<sock, header, objs, toServer, fromServer, unsettled, cut>>
    BY <1>4 DEF NullSock, SendFails
  <2>2. cmd' \in Command /\ n' = n + 1 /\ n' \in 1 .. MaxCalls /\ raced' \in BOOLEAN
    BY <2>1, TypeBegin DEF TypeInv
  <2>3. /\ pc' \in {"null", "idle"}
        /\ results' = results \/ results' = Append(results, Result("exception", <<>>))
    BY <1>4 DEF NullSock, SendFails, Begin
  <2>4. results' \in Seq([n : 1 .. MaxCalls, cmd : Command, objs : Seq(Answering),
                         out : {"sent", "returned", "exception"}])
    BY <1>e, <2>2, <2>3, TypeReturn DEF TypeInv, TypeOK
  <2>5. \A i \in DOMAIN toServer' : toServer'[i].n \in 1 .. n'
    BY <1>n, <2>1, <2>2
  <2> QED
    BY <1>m, <1>i, <1>f, <2>1, <2>2, <2>3, <2>4, <2>5 DEF TypeInv, TypeOK, HeaderType, Waits
<1>5. CASE RecvHeader \/ RecvBody
  <2>1. PICK h \in Answering, rest \in Seq(Piece) : Waits /\ Received(h, rest)
    <3>1. fromServer \in Seq(Piece) /\ header \in Answering
      BY DEF TypeInv, TypeOK, Piece
    <3>2. CASE RecvHeader
      <4>1. Head(fromServer).answer \in Answering /\ Tail(fromServer) \in Seq(Piece)
        BY <3>1, <3>2, FirstPiece DEF RecvHeader
      <4> QED
        BY <3>2, <4>1 DEF RecvHeader, Waits
    <3>3. CASE RecvBody
      <4>1. PICK k \in {1, 2} : k <= Len(fromServer) /\ Received(header, SubSeq(fromServer, k + 1, Len(fromServer)))
        BY <3>3 DEF RecvBody
      <4>2. SubSeq(fromServer, k + 1, Len(fromServer)) \in Seq(Piece)
        BY <3>1
      <4> QED
        BY <3>1, <3>3, <4>1, <4>2 DEF RecvBody, Waits
    <3> QED
      BY <1>5, <3>2, <3>3
  <2>2. raced' = raced /\ cut' \in BOOLEAN
    BY <1>5 DEF RecvHeader, RecvBody, TypeInv, TypeOK
  <2>3. n' = n /\ (toServer' = toServer \/ toServer' = <<>>)
    BY <2>1, TypeReceived
  <2>4. \A i \in DOMAIN toServer' : toServer'[i].n \in 1 .. n'
    BY <1>n, <2>3
  <2> QED
    BY <1>m, <1>i, <1>f, <1>n, <2>1, <2>2, <2>4, TypeReceived DEF TypeInv, TypeOK, HeaderType, Piece, Waits
<1>6. CASE RecvHeaderOfBody
  <2>1. Head(fromServer).answer \in Answering /\ Tail(fromServer) \in Seq(Piece)
    <3>1. fromServer \in Seq(Piece)
      BY DEF TypeInv, TypeOK, Piece
    <3> QED
      BY <1>6, <3>1, FirstPiece DEF RecvHeaderOfBody
  <2> QED
    BY <1>m, <1>6, <1>i, <2>1 DEF RecvHeaderOfBody, TypeInv, TypeOK, Piece, Waits, hist
<1>7. CASE RecvGarbage
  BY <1>7, <1>i DEF RecvGarbage, Fail, TypeInv, TypeOK, Waits, hist
<1>8. CASE RecvClosed
  <2>1. /\ pc' = "idle" /\ objs' = <<>> /\ results' = Append(results, Result("exception", objs))
        /\ UNCHANGED <<sock, cmd, n, header, toServer, fromServer, hist>> /\ Waits
    BY <1>8 DEF RecvClosed, Return, Waits
  <2>2. results' \in Seq([n : 1 .. MaxCalls, cmd : Command, objs : Seq(Answering),
                         out : {"sent", "returned", "exception"}])
    BY <1>m, <2>1, TypeReturn DEF TypeInv, TypeOK
  <2> QED
    BY <1>i, <1>e, <2>1, <2>2 DEF TypeInv, TypeOK, Waits, hist
<1>9. CASE Serve
  <2>1. fromServer' \in Seq(Piece)
    <3>1. fromServer \in Seq(Piece)
      BY DEF TypeInv, TypeOK, Piece
    <3>2. ASSUME NEW a \in Answering, NEW fs \in Seq(Piece) PROVE fs \o Pieces(a) \in Seq(Piece)
      <4>1. Pieces(a) \in Seq(Piece)
        BY PiecesOf
      <4> QED
        BY <4>1
    <3>3. TypeOK /\ IInv
      BY DEF TypeInv
    <3> QED
      BY <1>9, <3>1, <3>2, <3>3, ServeAnswers
  <2>2. toServer' = Tail(toServer) /\ toServer # <<>> /\ UNCHANGED <<sock, pc, cmd, n, header, objs, results, hist>>
    BY <1>9 DEF Serve
  <2>3. \A i \in DOMAIN toServer' : toServer'[i].n \in 1 .. n'
    BY <1>n, <2>2 DEF TypeInv, IInv
  <2> QED
    BY <1>m, <1>i, <1>f, <2>1, <2>2, <2>3 DEF TypeInv, TypeOK, HeaderType, Piece, Waits, hist
<1>10. CASE Break
  <2>1. fromServer' \in Seq(Piece)
    <3>1. fromServer \in Seq(Piece)
      BY DEF TypeInv, TypeOK, Piece
    <3>2. PICK k \in 0 .. Len(fromServer) : fromServer' = SubSeq(fromServer, 1, k)
      BY <1>10 DEF Break
    <3> QED
      BY <3>1, <3>2
  <2>2. sock' = "broken" /\ toServer' = <<>> /\ UNCHANGED <<pc, cmd, n, header, objs, results, hist>>
    BY <1>10 DEF Break
  <2> QED
    BY <1>m, <1>i, <2>1, <2>2 DEF TypeInv, TypeOK, Piece, Waits, hist
<1>11. CASE UNCHANGED vars
  BY <1>11 DEF vars, hist, TypeInv, TypeOK, IInv, Waits
<1> QED
  BY <1>1, <1>2, <1>3, <1>4, <1>5, <1>6, <1>7, <1>8, <1>9, <1>10, <1>11 DEF Next, Client

LEMMA TypeInit == Init => TypeInv
<1>1. NoHeader \in Answering
  BY MemcacheAssumption DEF NoHeader, Answering, Command, NoConnect, MemcacheAssumption
<1>2. /\ <<>> \in Seq(Answering) /\ <<>> \in Seq(Framed) /\ DOMAIN <<>> = {}
      /\ <<>> \in Seq([kind : {"head", "body"}, answer : Answering])
      /\ <<>> \in Seq([n : 1 .. MaxCalls, cmd : Command, objs : Seq(Answering),
                      out : {"sent", "returned", "exception"}])
  BY Empty
<1>3. 0 \in 0 .. MaxCalls /\ "NOOP" \in Command
  BY MemcacheAssumption DEF MemcacheAssumption, Command, NoConnect
<1> SUFFICES ASSUME Init PROVE TypeInv
  OBVIOUS
<1>4. TypeOK
  BY <1>1, <1>2, <1>3 DEF Init, TypeOK
<1> QED
  BY <1>2, <1>4 DEF Init, TypeInv, IInv, Waits

(***************************************************************************)
(* Every variable of the client, the socket and the history keeps its type *)
(* in every behaviour: the fields of a header stay in the range that their *)
(* D types have.                                                           *)
(***************************************************************************)
THEOREM ClientTypeCorrect == Spec => []TypeOK
<1>1. TypeInv => TypeOK
  BY DEF TypeInv
<1> QED
  BY <1>1, TypeInit, TypeStep, PTL DEF Spec

-----------------------------------------------------------------------------
(* Framing *)

\* The answer of a header that is on the socket.
LEMMA HeadTyped ==
    ASSUME NEW fs \in Seq(Piece), NEW i \in Heads(fs)
    PROVE  /\ i \in 1 .. Len(fs) /\ fs[i].kind = "head"
           /\ fs[i].answer \in Answering /\ fs[i].answer.body \in BOOLEAN
<1>1. i \in 1 .. Len(fs) /\ fs[i].kind = "head"
  BY DEF Heads
<1>2. fs[i] \in Piece
  BY <1>1, ElementOfSeq
<1> QED
  BY <1>1, <1>2 DEF Piece, Answering

\* A rest gs of fs begins after d pieces, behind a header with a body or without.
LEMMA FrameRest ==
    ASSUME NEW fs \in Seq(Piece), NEW gs \in Seq(Piece), NEW d \in Nat, NEW body \in BOOLEAN,
           Len(gs) = Len(fs) - d, \A i \in 1 .. Len(gs) : gs[i] = fs[i + d],
           Follow(fs, d, body),
           \A i \in Heads(fs) : Follow(fs, i, fs[i].answer.body)
    PROVE  /\ \A i \in Heads(gs) : i + d \in Heads(fs) /\ gs[i] = fs[i + d]
           /\ Sequenced(gs, body)
<1>1. DOMAIN gs = 1 .. Len(gs) /\ DOMAIN fs = 1 .. Len(fs) /\ Len(gs) \in Nat /\ Len(fs) \in Nat
  OBVIOUS
<1>2. ASSUME NEW i \in DOMAIN gs
      PROVE  i + d \in DOMAIN fs /\ gs[i] = fs[i + d]
  BY <1>1
<1>3. ASSUME NEW i \in Nat, NEW b \in BOOLEAN, Follow(fs, i + d, b)
      PROVE  Follow(gs, i, b)
  <2>1. ASSUME NEW j \in {1, 2, 3}, i + j \in DOMAIN gs
        PROVE  i + d + j \in DOMAIN fs /\ gs[i + j] = fs[i + d + j]
    <3>1. (i + j) + d \in DOMAIN fs /\ gs[i + j] = fs[(i + j) + d]
      BY <1>2, <2>1
    <3>2. (i + j) + d = i + d + j
      OBVIOUS
    <3> QED
      BY <3>1, <3>2
  <2>2. CASE b
    BY <1>3, <2>1, <2>2 DEF Follow
  <2>3. CASE ~b
    BY <1>3, <2>1, <2>3 DEF Follow
  <2> QED
    BY <2>2, <2>3
<1>4. Follow(gs, 0, body)
  <2>1. Follow(fs, 0 + d, body)
    OBVIOUS
  <2> QED
    BY <1>3, <2>1
<1>5. ASSUME NEW i \in Heads(gs)
      PROVE  i + d \in Heads(fs) /\ gs[i] = fs[i + d] /\ Follow(gs, i, gs[i].answer.body)
  <2>1. i \in Nat /\ i \in DOMAIN gs /\ gs[i].kind = "head"
    BY <1>1 DEF Heads
  <2>2. i + d \in Heads(fs) /\ gs[i] = fs[i + d]
    BY <1>2, <2>1 DEF Heads
  <2>3. gs[i].answer.body \in BOOLEAN
    BY HeadTyped
  <2> QED
    BY <1>3, <2>1, <2>2, <2>3
<1> QED
  BY <1>4, <1>5 DEF Sequenced

\* A header is read.
LEMMA FrameTail ==
    ASSUME NEW fs \in Seq(Piece), fs # <<>>, Sequenced(fs, FALSE)
    PROVE  /\ fs[1].kind = "head" /\ fs[1].answer.body \in BOOLEAN
           /\ Sequenced(Tail(fs), fs[1].answer.body)
           /\ Ended(fs, FALSE) => Ended(Tail(fs), fs[1].answer.body)
           /\ \A i \in Heads(Tail(fs)) : i + 1 \in Heads(fs) /\ Tail(fs)[i] = fs[i + 1]
<1> DEFINE gs == Tail(fs)
<1>1. /\ gs \in Seq(Piece) /\ Len(gs) = Len(fs) - 1 /\ Len(fs) \in Nat /\ DOMAIN fs = 1 .. Len(fs)
      /\ \A i \in 1 .. Len(gs) : gs[i] = fs[i + 1]
  BY HeadTailProperties
<1>2. 1 \in DOMAIN fs /\ fs[1] \in Piece
  OBVIOUS
<1>3. fs[1].kind = "head" /\ fs[1].answer.body \in BOOLEAN
  BY <1>2 DEF Sequenced, Follow, Piece, Answering
<1>4. 1 \in Heads(fs)
  BY <1>2, <1>3 DEF Heads
<1>5. Follow(fs, 1, fs[1].answer.body) /\ \A i \in Heads(fs) : Follow(fs, i, fs[i].answer.body)
  BY <1>4 DEF Sequenced
<1> HIDE DEF gs
<1>6. /\ \A i \in Heads(gs) : i + 1 \in Heads(fs) /\ gs[i] = fs[i + 1]
      /\ Sequenced(gs, fs[1].answer.body)
  BY <1>1, <1>3, <1>5, FrameRest
<1>7. Ended(fs, FALSE) => Ended(gs, fs[1].answer.body)
  <2>1. \A i \in Heads(gs) : i \in Nat
    BY <1>1 DEF Heads
  <2> QED
    BY <1>1, <1>4, <1>6, <2>1 DEF Ended
<1> QED
  BY <1>3, <1>6, <1>7 DEF gs

\* A body is read.
LEMMA FrameDrop ==
    ASSUME NEW fs \in Seq(Piece), 2 <= Len(fs), Sequenced(fs, TRUE)
    PROVE  LET gs == SubSeq(fs, 3, Len(fs)) IN
           /\ gs \in Seq(Piece)
           /\ Sequenced(gs, FALSE)
           /\ Ended(fs, TRUE) => Ended(gs, FALSE)
           /\ \A i \in Heads(gs) : i + 2 \in Heads(fs) /\ gs[i] = fs[i + 2]
<1> DEFINE gs == SubSeq(fs, 3, Len(fs))
<1>1. Len(fs) \in Nat /\ DOMAIN fs = 1 .. Len(fs)
  OBVIOUS
<1>2. gs \in Seq(Piece) /\ Len(gs) = Len(fs) - 2 /\ \A i \in 1 .. Len(gs) : gs[i] = fs[i + 2]
  BY <1>1
<1>3. Follow(fs, 2, FALSE) /\ \A i \in Heads(fs) : Follow(fs, i, fs[i].answer.body)
  BY DEF Sequenced, Follow
<1> HIDE DEF gs
<1>4. /\ \A i \in Heads(gs) : i + 2 \in Heads(fs) /\ gs[i] = fs[i + 2]
      /\ Sequenced(gs, FALSE)
  BY <1>1, <1>2, <1>3, FrameRest
<1>5. Ended(fs, TRUE) => Ended(gs, FALSE)
  <2>1. \A i \in Heads(gs) : i \in Nat
    BY <1>2 DEF Heads
  <2> QED
    BY <1>1, <1>2, <1>4, <2>1 DEF Ended
<1> QED
  BY <1>2, <1>4, <1>5 DEF gs

\* The connection breaks.
LEMMA FrameCut ==
    ASSUME NEW fs \in Seq(Piece), NEW k \in 0 .. Len(fs), NEW body \in BOOLEAN, Sequenced(fs, body)
    PROVE  LET gs == SubSeq(fs, 1, k) IN
           /\ Sequenced(gs, body)
           /\ \A i \in Heads(gs) : i \in Heads(fs) /\ gs[i] = fs[i]
<1> DEFINE gs == SubSeq(fs, 1, k)
<1>1. Len(fs) \in Nat /\ DOMAIN fs = 1 .. Len(fs)
  OBVIOUS
<1>2. gs \in Seq(Piece) /\ DOMAIN gs = 1 .. k /\ \A i \in 1 .. k : gs[i] = fs[i]
  BY <1>1
<1> HIDE DEF gs
<1>3. \A i \in Heads(gs) : i \in Heads(fs) /\ gs[i] = fs[i] /\ i \in Nat
  BY <1>1, <1>2 DEF Heads
<1>4. ASSUME NEW i \in Nat, NEW b \in BOOLEAN, Follow(fs, i, b)
      PROVE  Follow(gs, i, b)
  <2>1. \A j \in {1, 2, 3} : i + j \in DOMAIN gs => i + j \in DOMAIN fs /\ gs[i + j] = fs[i + j]
    BY <1>1, <1>2
  <2>2. CASE b
    BY <1>4, <2>1, <2>2 DEF Follow
  <2>3. CASE ~b
    BY <1>4, <2>1, <2>3 DEF Follow
  <2> QED
    BY <2>2, <2>3
<1>5. \A i \in Heads(gs) : gs[i].answer.body \in BOOLEAN
  BY <1>2, HeadTyped
<1>6. Follow(gs, 0, body)
  BY <1>4 DEF Sequenced
<1>7. \A i \in Heads(gs) : Follow(gs, i, gs[i].answer.body)
  BY <1>3, <1>4, <1>5 DEF Sequenced
<1> QED
  BY <1>3, <1>6, <1>7 DEF Sequenced, gs

\* The server adds an answer.
Joined(fs, a) == fs \o Pieces(a)

LEMMA FrameAppend ==
    ASSUME NEW fs \in Seq(Piece), NEW a \in Answering, NEW body \in BOOLEAN,
           Sequenced(fs, body), Ended(fs, body)
    PROVE  LET gs == Joined(fs, a) IN
           /\ gs \in Seq(Piece) /\ Sequenced(gs, body) /\ Ended(gs, body)
           /\ \A i \in Heads(fs) : i \in Heads(gs) /\ gs[i] = fs[i] /\ i <= Len(fs)
           /\ \A i \in Heads(gs) :
                \/ i \in Heads(fs) /\ gs[i] = fs[i] /\ i <= Len(fs)
                \/ i = Len(fs) + 1 /\ gs[i].answer = a
<1> DEFINE p == Pieces(a)
           gs == fs \o p
<1>0. /\ p \in Seq(Piece) /\ p[1] = [kind |-> "head", answer |-> a]
      /\ ~a.body => Len(p) = 1
      /\ a.body => Len(p) = 3 /\ p[2].kind = "body" /\ p[3].kind = "body"
  BY PiecesOf
<1>b. a.body \in BOOLEAN
  BY DEF Answering
<1> HIDE DEF p
<1>1. Len(fs) \in Nat /\ DOMAIN fs = 1 .. Len(fs) /\ Len(p) \in {1, 3}
  BY <1>0, <1>b
<1>2. /\ gs \in Seq(Piece) /\ Len(gs) = Len(fs) + Len(p) /\ DOMAIN gs = 1 .. Len(gs)
      /\ \A i \in 1 .. Len(fs) : gs[i] = fs[i]
      /\ \A i \in 1 .. Len(p) : gs[Len(fs) + i] = p[i]
  BY <1>0, <1>1, ConcatProperties
<1> HIDE DEF gs
<1>p. gs[Len(fs) + 1] = p[1] /\ (a.body => gs[Len(fs) + 2] = p[2] /\ gs[Len(fs) + 3] = p[3])
  <2>1. 1 \in 1 .. Len(p) /\ (a.body => 2 \in 1 .. Len(p) /\ 3 \in 1 .. Len(p))
    BY <1>0, <1>1
  <2> QED
    BY <1>2, <2>1
<1>3. gs[Len(fs) + 1].kind = "head" /\ gs[Len(fs) + 1].answer = a /\ Len(fs) + 1 \in DOMAIN gs
  BY <1>0, <1>1, <1>2, <1>p
<1>4. a.body => gs[Len(fs) + 2].kind = "body" /\ gs[Len(fs) + 3].kind = "body" /\ Len(gs) = Len(fs) + 3
  BY <1>0, <1>1, <1>2, <1>p
<1>5. ~a.body => Len(gs) = Len(fs) + 1
  BY <1>0, <1>1, <1>2
<1>6. \A i \in Heads(fs) : i \in Heads(gs) /\ gs[i] = fs[i] /\ i <= Len(fs) /\ i \in Nat
  BY <1>1, <1>2 DEF Heads
<1>7. ASSUME NEW i \in Heads(gs)
      PROVE  \/ i \in Heads(fs) /\ gs[i] = fs[i] /\ i <= Len(fs)
             \/ i = Len(fs) + 1 /\ gs[i].answer = a
  <2>1. i \in 1 .. Len(gs) /\ gs[i].kind = "head"
    BY <1>2 DEF Heads
  <2>2. CASE i \in 1 .. Len(fs)
    BY <1>1, <1>2, <2>1, <2>2 DEF Heads
  <2>3. CASE i \notin 1 .. Len(fs)
    BY <1>b, <1>1, <1>2, <1>3, <1>4, <1>5, <2>1, <2>3
  <2> QED
    BY <2>2, <2>3
<1>8. ASSUME NEW i \in Nat, NEW b \in BOOLEAN, Follow(fs, i, b), i <= Len(fs), b => i + 2 <= Len(fs)
      PROVE  Follow(gs, i, b)
  <2>1. \A j \in 1 .. Len(fs) + 1 : (j \in DOMAIN fs /\ gs[j] = fs[j]) \/ (j = Len(fs) + 1 /\ gs[j].kind = "head")
    BY <1>1, <1>2, <1>3
  <2>2. CASE b
    BY <1>1, <1>8, <2>1, <2>2 DEF Follow
  <2>3. CASE ~b
    BY <1>1, <1>8, <2>1, <2>3 DEF Follow
  <2> QED
    BY <2>2, <2>3
<1>9. Follow(gs, Len(fs) + 1, a.body)
  <2>1. CASE a.body
    BY <1>1, <1>2, <1>4, <2>1 DEF Follow
  <2>2. CASE ~a.body
    BY <1>1, <1>2, <1>5, <2>2 DEF Follow
  <2> QED
    BY <1>b, <2>1, <2>2
<1>10. Follow(gs, 0, body)
  BY <1>1, <1>8 DEF Sequenced, Ended
<1>11. \A i \in Heads(fs) : fs[i].answer.body \in BOOLEAN
  BY HeadTyped
<1>12. \A i \in Heads(fs) : Follow(gs, i, fs[i].answer.body)
  BY <1>6, <1>8, <1>11 DEF Sequenced, Ended
<1>13. Sequenced(gs, body)
  BY <1>7, <1>9, <1>10, <1>12 DEF Sequenced
<1>14. Ended(gs, body)
  BY <1>1, <1>2, <1>4, <1>6, <1>7 DEF Ended
<1> QED
  BY <1>2, <1>6, <1>7, <1>13, <1>14 DEF gs, p, Joined

-----------------------------------------------------------------------------
(* Order *)

\* The kinds of commands.
LEMMA CommandKinds ==
    /\ Until \cap Quiet = {} /\ Until \cap (Single \cup {"STAT", "QUIT", "QUITQ"}) = {}
    /\ Single \cap (Quiet \cup {"STAT", "QUIT"}) = {} /\ {"STAT", "QUIT", "QUITQ"} \cap Quiet = {}
    /\ Command \ (Quiet \cup {"QUITQ"}) = Until \cup Single \cup {"STAT", "QUIT"}
  BY DEF Until, Quiet, SetQuiet, CountQuiet, GetQuiet, Single, Command, NoConnect

\* A call that only sent, or that threw, has returned nothing.
LEMMA OtherResult ==
    ASSUME TypeInv, NEW out \in {"sent", "exception"}, NEW seen,
           results' = results \/ results' = Append(results, Result(out, seen))
    PROVE  /\ \A m : Fresh(m) => Fresh(m)'
           /\ ReturnsOwn => ReturnsOwn'
<1> DEFINE r == Result(out, seen)
<1>1. r.out # "returned"
  BY DEF Result
<1> HIDE DEF r
<1>2. results \in Seq([n : 1 .. MaxCalls, cmd : Command, objs : Seq(Answering),
                       out : {"sent", "returned", "exception"}])
  BY DEF TypeInv, TypeOK
<1>3. /\ Len(results) \in Nat /\ DOMAIN results = 1 .. Len(results)
      /\ Len(results') \in Nat /\ DOMAIN results' = 1 .. Len(results')
      /\ \A j \in DOMAIN results' : \/ results'[j] = r
                                    \/ j \in DOMAIN results /\ results'[j] = results[j]
      /\ \A j \in DOMAIN results : j \in DOMAIN results' /\ results'[j] = results[j]
  <2>1. CASE results' = results
    BY <1>2, <2>1
  <2>2. CASE results' = Append(results, r)
    BY <1>2, <2>2
  <2> QED
    BY <2>1, <2>2 DEF r
<1>4. \A m : Fresh(m) => Fresh(m)'
  BY <1>1, <1>3 DEF Fresh
<1>5. ASSUME ReturnsOwn, NEW i \in DOMAIN results', results'[i].out = "returned"
      PROVE  /\ results'[i].objs # <<>> /\ results'[i].objs[Len(results'[i].objs)].n = results'[i].n
             /\ \A k \in DOMAIN results'[i].objs, j \in 1 .. i - 1 :
                   results'[j].out = "returned" => results'[j].n < results'[i].objs[k].n
  <2>1. i \in DOMAIN results /\ results'[i] = results[i]
    BY <1>1, <1>3, <1>5
  <2>2. /\ results[i].objs # <<>> /\ results[i].objs[Len(results[i].objs)].n = results[i].n
        /\ \A k \in DOMAIN results[i].objs, j \in 1 .. i - 1 :
              results[j].out = "returned" => results[j].n < results[i].objs[k].n
    BY <1>5, <2>1 DEF ReturnsOwn
  <2>3. \A j \in 1 .. i - 1 : j \in DOMAIN results
    <3>1. i \in 1 .. Len(results) /\ Len(results) \in Nat
      BY <1>3, <2>1
    <3>2. \A j \in 1 .. i - 1 : j \in 1 .. Len(results)
      BY <3>1
    <3> QED
      BY <1>3, <3>2
  <2>4. \A j \in 1 .. i - 1 : results'[j] = results[j]
    BY <1>3, <2>3
  <2> QED
    BY <2>1, <2>2, <2>4
<1> QED
  BY <1>4, <1>5 DEF ReturnsOwn

\* Nothing on the wire.
LEMMA FrameEmpty == Heads(<<>>) = {} /\ Sequenced(<<>>, FALSE) /\ Ended(<<>>, FALSE)
  BY DEF Heads, Sequenced, Ended, Follow

\* The conjuncts of the invariant.
Ordered == pc # "failed" /\ Framing /\ Wire /\ Settled /\ Later /\ ReturnsOwn

\* A request is written behind what is on its way.
LEMMA OrderWrite ==
    ASSUME TypeInv, Wire, NEW c \in Command, Begin(c), Write(c)
    PROVE  /\ sock' = "broken" => toServer' = <<>>
           /\ sock' # "broken" => sock # "broken"
           /\ Len(toServer') \in Nat /\ DOMAIN toServer' = 1 .. Len(toServer')
           /\ \A i \in DOMAIN toServer' :
                \/ i \in DOMAIN toServer /\ toServer'[i] = toServer[i]
                \/ /\ i = Len(toServer') /\ i > Len(toServer)
                   /\ toServer'[i].op = c /\ toServer'[i].n = n + 1
<1>1. PICK k \in KeysOf(c), v \in ValuesOf(c) :
        toServer' = IF sock = "broken" THEN toServer
                    ELSE Append(toServer, [n |-> n', op |-> c, header |-> Header(c, k, v),
                                           size |-> BodySize(c, k, v)])
  BY DEF Write
<1> DEFINE r == [n |-> n', op |-> c, header |-> Header(c, k, v), size |-> BodySize(c, k, v)]
<1>2. r.n = n + 1 /\ r.op = c
  BY DEF Begin
<1> HIDE DEF r
<1>3. toServer \in Seq(Framed)
  BY DEF TypeInv, IInv
<1>4. CASE sock = "broken"
  BY <1>1, <1>3, <1>4 DEF Write, Wire
<1>5. CASE sock # "broken"
  <2>1. toServer' = Append(toServer, r)
    BY <1>1, <1>5 DEF r
  <2>2. /\ Len(toServer') = Len(toServer) + 1 /\ Len(toServer) \in Nat
        /\ DOMAIN toServer' = 1 .. Len(toServer') /\ DOMAIN toServer = 1 .. Len(toServer)
        /\ \A i \in 1 .. Len(toServer) : toServer'[i] = toServer[i]
        /\ toServer'[Len(toServer) + 1] = r
    BY <1>3, <2>1
  <2>3. sock' # "broken"
    BY <1>5 DEF Write
  <2> QED
    BY <1>2, <1>5, <2>2, <2>3
<1> QED
  BY <1>4, <1>5

LEMMA WireTyped ==
    ASSUME TypeInv
    PROVE  /\ fromServer \in Seq(Piece) /\ toServer \in Seq(Framed) /\ header \in Answering
           /\ n \in Nat /\ DOMAIN toServer = 1 .. Len(toServer) /\ Len(toServer) \in Nat
           /\ DOMAIN fromServer = 1 .. Len(fromServer) /\ Len(fromServer) \in Nat
<1>1. fromServer \in Seq(Piece) /\ toServer \in Seq(Framed) /\ header \in Answering /\ n \in Nat
  BY DEF TypeInv, TypeOK, IInv, Piece
<1> QED
  BY <1>1

\* What is fresh stays so.
LEMMA FreshLater ==
    ASSUME TypeInv, NEW m \in Nat, NEW k \in Nat, m <= k, Fresh(m)
    PROVE  Fresh(k)
<1>1. \A j \in DOMAIN results : results[j].n \in Nat
  <2> DEFINE R == [n : 1 .. MaxCalls, cmd : Command, objs : Seq(Answering),
                   out : {"sent", "returned", "exception"}]
  <2>1. results \in Seq(R)
    BY DEF TypeInv, TypeOK
  <2>2. \A r \in R : r.n \in Nat
    BY MemcacheAssumption DEF MemcacheAssumption
  <2> HIDE DEF R
  <2>3. \A j \in DOMAIN results : results[j] \in R
    BY <2>1, ElementOfSeq
  <2> QED
    BY <2>2, <2>3
<1> QED
  BY <1>1 DEF Fresh

\* A quiet command is sent.
LEMMA OrderQuiet ==
    ASSUME TypeInv, Ordered, NEW c \in Command, CallQuiet(c)
    PROVE  Ordered'
<1>1. /\ c \in Quiet /\ Begin(c) /\ Write(c) /\ unsettled' = TRUE
      /\ results' = Append(results, Result("sent", <<>>))
      /\ UNCHANGED <<pc, header, objs, fromServer, cut>>
      /\ pc = "idle" /\ cmd' = c /\ n' = n + 1 /\ n \in Nat
  BY WireTyped DEF CallQuiet, Begin
<1>2. /\ sock' = "broken" => toServer' = <<>>
      /\ sock' # "broken" => sock # "broken"
      /\ \A i \in DOMAIN toServer' :
           \/ i \in DOMAIN toServer /\ toServer'[i] = toServer[i]
           \/ toServer'[i].op = c /\ toServer'[i].n = n + 1
  BY <1>1, OrderWrite DEF Ordered
<1>3. Framing'
  BY <1>1, <1>2 DEF Ordered, Framing
<1>4. Wire'
  <2>1. ~Waits /\ ~Waits'
    BY <1>1 DEF Waits
  <2> QED
    BY <1>1, <1>2, <2>1 DEF Ordered, Wire, Own, OwnOK, Aside, Closing
<1>5. (\A m : Fresh(m) => Fresh(m)') /\ ReturnsOwn'
  BY <1>1, OtherResult DEF Ordered
<1>6. Later'
  <2>1. Fresh(n + 1) /\ Fresh(n' + 1)
    BY <1>1, FreshLater DEF Ordered, Later
  <2>2. ~Waits'
    BY <1>1 DEF Waits
  <2> QED
    BY <1>1, <1>2, <1>5, <2>1, <2>2 DEF Ordered, Later
<1> QED
  BY <1>1, <1>3, <1>4, <1>5, <1>6 DEF Ordered, Settled

\* A call that waits for an answer is sent.
LEMMA OrderWait ==
    ASSUME TypeInv, Ordered, NEW c \in Command, CallWait(c), ~raced'
    PROVE  Ordered'
<1>1. /\ c \notin Quiet \cup {"QUITQ"} /\ Begin(c) /\ Write(c)
      /\ pc' = "receive" /\ objs' = <<>>
      /\ UNCHANGED <<header, fromServer, results, unsettled, cut>>
      /\ pc = "idle" /\ cmd' = c /\ n' = n + 1 /\ n \in Nat
  BY WireTyped DEF CallWait, Begin
<1>2. /\ sock' = "broken" => toServer' = <<>>
      /\ sock' # "broken" => sock # "broken"
      /\ Len(toServer') \in Nat /\ DOMAIN toServer' = 1 .. Len(toServer')
      /\ \A i \in DOMAIN toServer' :
           \/ i \in DOMAIN toServer /\ toServer'[i] = toServer[i]
           \/ i = Len(toServer') /\ toServer'[i].op = c /\ toServer'[i].n = n + 1
  BY <1>1, OrderWrite DEF Ordered
<1>3. c \notin Until => ~unsettled
  BY <1>1 DEF Begin
<1>4. Framing'
  BY <1>1, <1>2 DEF Ordered, Framing
<1>5. ~Waits /\ Waits'
  BY <1>1 DEF Waits
<1>6. c \notin Until => toServer = <<>> /\ fromServer = <<>>
  BY <1>3, <1>5 DEF Ordered, Settled
<1>7. Wire'
  <2>1. c \in Command \ (Quiet \cup {"QUITQ"})
    BY <1>1
  <2>2. \A i \in DOMAIN toServer : toServer[i].op \in Quiet /\ c \in Until
    <3>1. \A i \in DOMAIN toServer : toServer[i].op \in Quiet
      BY <1>5 DEF Ordered, Wire, Own, Aside
    <3> QED
      BY <1>6, <3>1, Empty
  <2>3. \A i \in Heads(fromServer) : fromServer[i].answer.op \in Quiet /\ c \in Until
    <3>1. \A i \in Heads(fromServer) : fromServer[i].answer.op \in Quiet
      BY <1>5 DEF Ordered, Wire, Own, OwnOK, Aside
    <3> QED
      BY <1>6, <3>1, FrameEmpty
  <2>4. \A a : a.op \in Quiet /\ c \in Until => ~LastAnswer(c, a)
    BY CommandKinds DEF LastAnswer
  <2>5. \A i \in DOMAIN toServer' :
           /\ Own(toServer[i])' \/ Aside(toServer[i])'
           /\ Own(toServer[i])' => i = Len(toServer')
    BY <1>1, <1>2, <1>5, <2>2, <2>1 DEF Own, Aside
  <2>6. \A i \in Heads(fromServer') : Aside(fromServer[i].answer)' /\ ~Closing(fromServer[i].answer)'
    BY <1>1, <1>5, <2>3, <2>4 DEF Aside, Closing
  <2> QED
    BY <1>1, <1>2, <2>1, <2>5, <2>6 DEF Wire
<1>8. Later'
  <2>1. \A m : Fresh(m)' = Fresh(m)
    BY <1>1 DEF Fresh
  <2>2. Fresh(n') /\ Fresh(n' + 1)
    BY <1>1, FreshLater DEF Ordered, Later
  <2>3. DOMAIN objs' = {} /\ pc' # "body"
    BY <1>1, Empty
  <2> QED
    BY <1>1, <1>2, <2>1, <2>2, <2>3 DEF Ordered, Later
<1> QED
  BY <1>1, <1>4, <1>5, <1>7, <1>8 DEF Ordered, Settled, ReturnsOwn

\* quitq() and the end of quit(): the connection is closed.
LEMMA OrderQuitq ==
    ASSUME TypeInv, Ordered, quitq
    PROVE  Ordered'
<1>1. /\ sock' = "null" /\ toServer' = <<>> /\ fromServer' = <<>> /\ unsettled' = FALSE
      /\ results' = Append(results, Result("sent", <<>>))
      /\ UNCHANGED <<pc, header, objs, cut>> /\ pc = "idle" /\ n' = n + 1 /\ n \in Nat
  BY WireTyped DEF quitq, Begin, Close
<1>2. ~Waits /\ ~Waits'
  BY <1>1 DEF Waits
<1>3. (\A m : Fresh(m) => Fresh(m)') /\ ReturnsOwn'
  BY <1>1, OtherResult DEF Ordered
<1>4. Fresh(n' + 1)
  BY <1>1, FreshLater DEF Ordered, Later
<1>5. Later'
  BY <1>1, <1>2, <1>3, <1>4, Empty, FrameEmpty DEF Later
<1>6. Framing' /\ Wire'
  BY <1>1, <1>2, Empty, FrameEmpty DEF Framing, Wire
<1> QED
  BY <1>1, <1>2, <1>3, <1>5, <1>6 DEF Ordered, Settled

\* A call without a socket, or one whose request cannot be sent.
LEMMA OrderUnsent ==
    ASSUME TypeInv, Ordered, NEW c \in Command, NullSock(c) \/ SendFails(c)
    PROVE  Ordered'
<1>1. /\ UNCHANGED <<sock, header, objs, toServer, fromServer, unsettled, cut>>
      /\ pc = "idle" /\ pc' \in {"idle", "null"} /\ n' = n + 1 /\ n \in Nat
      /\ results' = results \/ results' = Append(results, Result("exception", <<>>))
  BY WireTyped DEF NullSock, SendFails, Begin
<1>2. ~Waits /\ ~Waits' /\ pc' # "failed" /\ (pc = "body") = (pc' = "body")
  BY <1>1 DEF Waits
<1>3. (\A m : Fresh(m) => Fresh(m)') /\ ReturnsOwn'
  BY <1>1, OtherResult DEF Ordered
<1>4. Fresh(n' + 1)
  BY <1>1, FreshLater DEF Ordered, Later
<1>5. Later'
  BY <1>1, <1>2, <1>3, <1>4 DEF Ordered, Later
<1>6. Framing'
  BY <1>1, <1>2 DEF Ordered, Framing
<1>7. Wire'
  BY <1>1, <1>2 DEF Ordered, Wire, Own, OwnOK, Aside, Closing
<1> QED
  BY <1>1, <1>2, <1>3, <1>5, <1>6, <1>7 DEF Ordered, Settled

\* A header that may be on the wire passes the assertion on it, and if the call
\* stops at it, it is the call's own answer.
LEMMA OrderHeader ==
    ASSUME Wire, Waits, NEW h, OwnOK(h) \/ Aside(h)
    PROVE  Expected(cmd, h) /\ (LastAnswer(cmd, h) => h.op = cmd /\ h.n = n)
<1>1. CASE OwnOK(h)
  BY <1>1, CommandKinds DEF OwnOK, Own, Expected
<1>2. CASE Aside(h)
  BY <1>2, CommandKinds DEF Aside, Expected, LastAnswer
<1> QED
  BY <1>1, <1>2

\* A call has read all of a header or an answer, h, and what remains is rest.
LEMMA OrderReceived ==
    ASSUME TypeInv, Ordered, Waits, NEW h \in Answering, NEW rest \in Seq(Piece), Received(h, rest),
           OwnOK(h) \/ Aside(h), Fresh(h.n),
           Closing(h) => toServer = <<>> /\ Heads(rest) = {},
           Sequenced(rest, FALSE), sock # "broken" => Ended(rest, FALSE),
           \A i \in Heads(rest) :
              /\ OwnOK(rest[i].answer) \/ Aside(rest[i].answer)
              /\ Closing(rest[i].answer) => toServer = <<>> /\ \A j \in Heads(rest) : j <= i
              /\ Fresh(rest[i].answer.n)
    PROVE  Ordered'
<1>1. Expected(cmd, h) /\ (LastAnswer(cmd, h) => h.op = cmd /\ h.n = n)
  BY OrderHeader DEF Ordered
<1>t. objs \in Seq(Answering) /\ n \in Nat /\ cmd \in Command
  BY DEF TypeInv, TypeOK, IInv
<1> DEFINE seen == Append(objs, h)
<1>s. /\ seen \in Seq(Answering) /\ seen # <<>> /\ seen[Len(seen)] = h
      /\ \A k \in DOMAIN seen : Fresh(seen[k].n)
  <2>1. /\ seen \in Seq(Answering) /\ seen # <<>> /\ seen[Len(seen)] = h
        /\ \A k \in DOMAIN seen : (k \in DOMAIN objs /\ seen[k] = objs[k]) \/ seen[k] = h
    BY <1>t
  <2>2. \A k \in DOMAIN objs : Fresh(objs[k].n)
    BY DEF Ordered, Later
  <2> QED
    BY <2>1, <2>2
<1> HIDE DEF seen
<1>2. CASE ~LastAnswer(cmd, h)
  <2>1. /\ objs' = seen /\ pc' = "receive" /\ fromServer' = rest
        /\ UNCHANGED <<sock, toServer, unsettled, cmd, n, header, results>>
    BY <1>1, <1>2 DEF Received, seen
  <2>2. Waits'
    BY <2>1 DEF Waits
  <2>3. Framing'
    BY <2>1 DEF Framing
  <2>4. Wire'
    BY <2>1, <2>2 DEF Ordered, Wire, Own, OwnOK, Aside, Closing
  <2>5. \A m : Fresh(m)' = Fresh(m)
    BY <2>1 DEF Fresh
  <2>6. Later'
    BY <1>s, <2>1, <2>2, <2>5 DEF Ordered, Later
  <2> QED
    BY <2>1, <2>2, <2>3, <2>4, <2>6 DEF Ordered, Settled, ReturnsOwn
<1>3. CASE LastAnswer(cmd, h)
  <2>1. toServer = <<>> /\ rest = <<>>
    <3>1. toServer = <<>> /\ Heads(rest) = {}
      BY <1>3 DEF Closing
    <3>2. ASSUME rest # <<>> PROVE FALSE
      <4>1. rest[1].kind = "head" /\ 1 \in DOMAIN rest
        <5>1. 1 \in DOMAIN rest
          BY <3>2
        <5>2. rest[1].kind = "head"
          BY <3>2, FrameTail
        <5> QED
          BY <5>1, <5>2
      <4> QED
        BY <3>1, <4>1 DEF Heads
    <3> QED
      BY <3>1, <3>2
  <2>2. PICK out \in Outcome(cmd, h) : Return(out, seen)
    BY <1>1, <1>3 DEF Received, seen
  <2>3. /\ pc' = "idle" /\ cmd' = cmd /\ n' = n /\ header' = header /\ objs' = <<>>
        /\ results' = Append(results, Result(out, seen))
    BY <2>2 DEF Return
  <2>4. toServer' = <<>> /\ fromServer' = <<>>
    BY <1>1, <1>3, <2>1 DEF Received, Close, Fail
  <2>5. ~Waits' /\ pc' # "body" /\ pc' # "failed"
    BY <2>3 DEF Waits
  <2>6. Framing' /\ Wire' /\ Settled'
    BY <2>4, <2>5, Empty, FrameEmpty DEF Framing, Wire, Settled
  <2> DEFINE r == Result(out, seen)
  <2>7. r.n = n /\ r.objs = seen
    BY <2>3 DEF Result
  <2> HIDE DEF r
  <2>8. /\ DOMAIN results' = 1 .. Len(results) + 1 /\ DOMAIN results = 1 .. Len(results)
        /\ Len(results) \in Nat /\ results'[Len(results) + 1] = r
        /\ \A j \in 1 .. Len(results) : results'[j] = results[j]
    <3>1. results \in Seq([n : 1 .. MaxCalls, cmd : Command, objs : Seq(Answering),
                           out : {"sent", "returned", "exception"}])
      BY DEF TypeInv, TypeOK
    <3> QED
      BY <2>3, <3>1 DEF r
  <2>9. Later'
    <3>1. Fresh(n + 1)
      BY DEF Ordered, Later
    <3>2. \A j \in DOMAIN results' : results'[j].out = "returned" => results'[j].n < n' + 1
      <4>1. \A j \in DOMAIN results' : j \in DOMAIN results \/ results'[j] = r
        BY <2>8
      <4> QED
        BY <1>t, <2>3, <2>7, <2>8, <3>1, <4>1 DEF Fresh
    <3>3. Fresh(n + 1)'
      BY <3>2 DEF Fresh
    <3> QED
      BY <2>3, <2>4, <2>5, <3>3, Empty, FrameEmpty DEF Later
  <2>10. ReturnsOwn'
    <3>1. ASSUME NEW i \in DOMAIN results', results'[i].out = "returned"
          PROVE  /\ results'[i].objs # <<>> /\ results'[i].objs[Len(results'[i].objs)].n = results'[i].n
                 /\ \A k \in DOMAIN results'[i].objs, j \in 1 .. i - 1 :
                       results'[j].out = "returned" => results'[j].n < results'[i].objs[k].n
      <4>1. CASE i = Len(results) + 1
        <5>1. results'[i] = r /\ \A j \in 1 .. i - 1 : j \in DOMAIN results /\ results'[j] = results[j]
          BY <2>8, <4>1
        <5> QED
          BY <1>1, <1>3, <1>s, <2>7, <5>1 DEF Fresh
      <4>2. CASE i # Len(results) + 1
        <5>1. i \in 1 .. Len(results)
          BY <2>8, <4>2
        <5>2. \A j \in 1 .. i - 1 : j \in 1 .. Len(results)
          BY <2>8, <5>1
        <5>3. results'[i] = results[i] /\ \A j \in 1 .. i - 1 : results'[j] = results[j]
          BY <2>8, <5>1, <5>2
        <5>4. i \in DOMAIN results
          BY <2>8, <5>1
        <5>5. /\ results[i].objs # <<>> /\ results[i].objs[Len(results[i].objs)].n = results[i].n
              /\ \A k \in DOMAIN results[i].objs, j \in 1 .. i - 1 :
                    results[j].out = "returned" => results[j].n < results[i].objs[k].n
          BY <3>1, <5>3, <5>4 DEF Ordered, ReturnsOwn
        <5> QED
          BY <5>3, <5>5
      <4> QED
        BY <4>1, <4>2
    <3> QED
      BY <3>1 DEF ReturnsOwn
  <2> QED
    BY <2>5, <2>6, <2>9, <2>10 DEF Ordered
<1> QED
  BY <1>2, <1>3

\* The header that is read next.
LEMMA FirstHeader ==
    ASSUME TypeInv, Ordered, pc = "receive", fromServer # <<>>,
           NEW a, a = Head(fromServer).answer, NEW gs, gs = Tail(fromServer)
    PROVE  /\ Head(fromServer).kind = "head" /\ a \in Answering /\ gs \in Seq(Piece)
           /\ Sequenced(gs, a.body) /\ (sock # "broken" => Ended(gs, a.body))
           /\ OwnOK(a) \/ Aside(a)
           /\ Fresh(a.n)
           /\ Closing(a) => toServer = <<>> /\ Heads(gs) = {}
           /\ \A i \in Heads(gs) :
                /\ OwnOK(gs[i].answer) \/ Aside(gs[i].answer)
                /\ Closing(gs[i].answer) => toServer = <<>> /\ \A j \in Heads(gs) : j <= i
                /\ Fresh(gs[i].answer.n)
<1> DEFINE fs == fromServer
<1>1. fs # <<>> /\ fs \in Seq(Piece) /\ Sequenced(fs, FALSE)
  BY WireTyped DEF Ordered, Framing
<1>2. Head(fs) = fs[1] /\ a = fs[1].answer /\ a \in Answering /\ gs \in Seq(Piece)
  BY <1>1, FirstPiece
<1>3. /\ fs[1].kind = "head" /\ Sequenced(gs, a.body)
      /\ Ended(fs, FALSE) => Ended(gs, a.body)
      /\ \A i \in Heads(gs) : i + 1 \in Heads(fs) /\ gs[i] = fs[i + 1]
  BY <1>1, <1>2, FrameTail
<1>4. \A i \in Heads(gs) : i \in Nat \ {0}
  <2>1. Len(gs) \in Nat
    BY <1>2
  <2>2. \A i \in Heads(gs) : i \in 1 .. Len(gs)
    BY <1>2, HeadTyped
  <2> QED
    BY <2>1, <2>2
<1>5. 1 \in Heads(fs)
  BY <1>1, <1>3 DEF Heads
<1>6. \A i \in Heads(fs) :
         /\ OwnOK(fs[i].answer) \/ Aside(fs[i].answer)
         /\ Closing(fs[i].answer) => toServer = <<>> /\ \A j \in Heads(fs) : j <= i
         /\ Fresh(fs[i].answer.n)
  BY DEF Ordered, Wire, Later
<1>7. sock # "broken" => Ended(fs, FALSE)
  BY DEF Ordered, Framing
<1> HIDE DEF fs
<1>8. Closing(a) => toServer = <<>> /\ Heads(gs) = {}
  <2>1. SUFFICES ASSUME Closing(a) PROVE toServer = <<>> /\ \A j \in Heads(gs) : FALSE
    OBVIOUS
  <2>2. toServer = <<>> /\ \A j \in Heads(fs) : j <= 1
    BY <1>2, <1>5, <1>6, <2>1
  <2>3. ASSUME NEW j \in Heads(gs) PROVE FALSE
    <3>1. j + 1 <= 1 /\ j \in Nat \ {0}
      BY <1>3, <1>4, <2>2
    <3> QED
      BY <3>1
  <2> QED
    BY <2>2, <2>3
<1>9. ASSUME NEW i \in Heads(gs)
      PROVE  /\ OwnOK(gs[i].answer) \/ Aside(gs[i].answer)
             /\ Closing(gs[i].answer) => toServer = <<>> /\ \A j \in Heads(gs) : j <= i
             /\ Fresh(gs[i].answer.n)
  <2>1. i + 1 \in Heads(fs) /\ gs[i] = fs[i + 1] /\ i \in Nat
    BY <1>3, <1>4
  <2>2. /\ OwnOK(fs[i + 1].answer) \/ Aside(fs[i + 1].answer)
        /\ Closing(fs[i + 1].answer) => toServer = <<>> /\ \A j \in Heads(fs) : j <= i + 1
        /\ Fresh(fs[i + 1].answer.n)
    BY <1>6, <2>1
  <2>3. ASSUME NEW j \in Heads(gs), \A l \in Heads(fs) : l <= i + 1 PROVE j <= i
    <3>1. j + 1 <= i + 1 /\ j \in Nat
      BY <1>3, <1>4, <2>3
    <3> QED
      BY <2>1, <3>1
  <2> QED
    BY <2>1, <2>2, <2>3
<1> QED
  BY <1>1, <1>2, <1>3, <1>5, <1>6, <1>7, <1>8, <1>9 DEF fs

\* A header without a body is read.
LEMMA OrderRecvHeader ==
    ASSUME TypeInv, Ordered, RecvHeader
    PROVE  Ordered'
<1> DEFINE a == Head(fromServer).answer
           gs == Tail(fromServer)
<1>1. pc = "receive" /\ Waits /\ fromServer # <<>> /\ ~a.body /\ Received(a, gs)
  BY DEF RecvHeader, Waits
<1>2. /\ a \in Answering /\ gs \in Seq(Piece)
      /\ Sequenced(gs, a.body) /\ (sock # "broken" => Ended(gs, a.body))
      /\ OwnOK(a) \/ Aside(a)
      /\ Fresh(a.n)
      /\ Closing(a) => toServer = <<>> /\ Heads(gs) = {}
      /\ \A i \in Heads(gs) :
           /\ OwnOK(gs[i].answer) \/ Aside(gs[i].answer)
           /\ Closing(gs[i].answer) => toServer = <<>> /\ \A j \in Heads(gs) : j <= i
           /\ Fresh(gs[i].answer.n)
  BY <1>1, FirstHeader
<1>3. a.body = FALSE
  BY <1>1, <1>2 DEF Answering
<1> HIDE DEF a, gs
<1> QED
  BY <1>1, <1>2, <1>3, OrderReceived

\* A body is read, as a whole.
LEMMA OrderRecvBody ==
    ASSUME TypeInv, Ordered, RecvBody, ~cut'
    PROVE  Ordered'
<1> DEFINE fs == fromServer
           gs == SubSeq(fs, 3, Len(fs))
<1>1. /\ pc = "body" /\ Waits /\ fs \in Seq(Piece) /\ Sequenced(fs, TRUE) /\ header \in Answering
      /\ sock # "broken" => Ended(fs, TRUE)
  BY WireTyped DEF RecvBody, Waits, Ordered, Framing
<1>2. 2 <= Len(fs) /\ Received(header, gs)
  <2>1. PICK k \in {1, 2} : /\ k <= Len(fs) /\ Received(header, SubSeq(fs, k + 1, Len(fs)))
                            /\ cut' = (cut \/ k = 1)
    BY DEF RecvBody
  <2>2. k = 2
    BY <2>1
  <2> QED
    BY <2>1, <2>2
<1>3. /\ gs \in Seq(Piece) /\ Sequenced(gs, FALSE) /\ (sock # "broken" => Ended(gs, FALSE))
      /\ \A i \in Heads(gs) : i + 2 \in Heads(fs) /\ gs[i] = fs[i + 2]
  BY <1>1, <1>2, FrameDrop
<1> HIDE DEF gs
<1>4. \A i \in Heads(gs) : i \in Nat
  <2>1. \A i \in Heads(gs) : i \in 1 .. Len(gs)
    BY <1>3, HeadTyped
  <2>2. Len(gs) \in Nat
    BY <1>3
  <2> QED
    BY <2>1, <2>2
<1>5. /\ OwnOK(header) \/ Aside(header)
      /\ Closing(header) => toServer = <<>> /\ Heads(fs) = {}
      /\ Fresh(header.n)
  BY <1>1 DEF Ordered, Wire, Later
<1>6. Closing(header) => toServer = <<>> /\ Heads(gs) = {}
  BY <1>3, <1>5
<1>7. ASSUME NEW i \in Heads(gs)
      PROVE  LET a == gs[i].answer IN
             /\ OwnOK(a) \/ Aside(a)
             /\ Closing(a) => toServer = <<>> /\ \A j \in Heads(gs) : j <= i
             /\ Fresh(a.n)
  <2>1. i + 2 \in Heads(fs) /\ gs[i] = fs[i + 2] /\ i \in Nat
    BY <1>3, <1>4
  <2>2. /\ OwnOK(fs[i + 2].answer) \/ Aside(fs[i + 2].answer)
        /\ Closing(fs[i + 2].answer) => toServer = <<>> /\ \A j \in Heads(fs) : j <= i + 2
        /\ Fresh(fs[i + 2].answer.n)
    BY <2>1 DEF Ordered, Wire, Later
  <2> QED
    BY <1>3, <1>4, <2>1, <2>2
<1> QED
  BY <1>1, <1>2, <1>3, <1>5, <1>6, <1>7, OrderReceived

\* A header with a body is read.
LEMMA OrderRecvHeaderOfBody ==
    ASSUME TypeInv, Ordered, RecvHeaderOfBody
    PROVE  Ordered'
<1> DEFINE a == Head(fromServer).answer
           gs == Tail(fromServer)
<1>1. /\ pc = "receive" /\ Waits /\ fromServer # <<>> /\ a.body
      /\ header' = a /\ pc' = "body" /\ fromServer' = gs
      /\ UNCHANGED <<sock, cmd, n, objs, toServer, results, unsettled>>
  BY DEF RecvHeaderOfBody, Waits, hist
<1>2. /\ a \in Answering /\ gs \in Seq(Piece)
      /\ Sequenced(gs, a.body) /\ (sock # "broken" => Ended(gs, a.body))
      /\ OwnOK(a) \/ Aside(a)
      /\ Fresh(a.n)
      /\ Closing(a) => toServer = <<>> /\ Heads(gs) = {}
      /\ \A i \in Heads(gs) :
           /\ OwnOK(gs[i].answer) \/ Aside(gs[i].answer)
           /\ Closing(gs[i].answer) => toServer = <<>> /\ \A j \in Heads(gs) : j <= i
           /\ Fresh(gs[i].answer.n)
  BY <1>1, FirstHeader
<1>3. a.body = TRUE
  BY <1>1, <1>2 DEF Answering
<1> HIDE DEF a, gs
<1>4. Waits' /\ \A m : Fresh(m)' = Fresh(m)
  BY <1>1 DEF Waits, Fresh
<1>5. Framing'
  BY <1>1, <1>2, <1>3 DEF Framing
<1>6. \A b : (Own(b)' = Own(b)) /\ (OwnOK(b)' = OwnOK(b)) /\ (Aside(b)' = Aside(b)) /\ (Closing(b)' = Closing(b))
  BY <1>1, <1>4 DEF Own, OwnOK, Aside, Closing
<1>7. Wire'
  BY <1>1, <1>2, <1>4, <1>6 DEF Ordered, Wire
<1>8. Later'
  BY <1>1, <1>2, <1>4 DEF Ordered, Later
<1> QED
  BY <1>1, <1>4, <1>5, <1>7, <1>8 DEF Ordered, Settled, ReturnsOwn

\* The connection is at its end.
LEMMA OrderRecvClosed ==
    ASSUME TypeInv, Ordered, RecvClosed
    PROVE  Ordered'
<1>1. /\ pc' = "idle" /\ objs' = <<>> /\ results' = Append(results, Result("exception", objs))
      /\ sock = "broken" /\ fromServer = <<>>
      /\ UNCHANGED <<sock, cmd, n, header, toServer, fromServer, unsettled>>
  BY DEF RecvClosed, Return, hist
<1>2. toServer = <<>> /\ ~Waits' /\ pc' # "body" /\ pc' # "failed"
  BY <1>1 DEF Ordered, Wire, Waits
<1>3. (\A m : Fresh(m) => Fresh(m)') /\ ReturnsOwn'
  BY <1>1, OtherResult DEF Ordered
<1>4. Later'
  BY <1>1, <1>2, <1>3, Empty, FrameEmpty DEF Ordered, Later
<1>5. Framing' /\ Wire'
  BY <1>1, <1>2, Empty, FrameEmpty DEF Framing, Wire
<1> QED
  BY <1>1, <1>2, <1>3, <1>4, <1>5 DEF Ordered, Settled

\* The connection breaks.
LEMMA OrderBreak ==
    ASSUME TypeInv, Ordered, Break
    PROVE  Ordered'
<1>1. PICK k \in 0 .. Len(fromServer) : fromServer' = SubSeq(fromServer, 1, k)
  BY DEF Break
<1>2. /\ sock' = "broken" /\ toServer' = <<>>
      /\ UNCHANGED <<pc, cmd, n, header, objs, results, unsettled>>
  BY DEF Break, hist
<1>3. /\ \A i \in Heads(fromServer') : i \in Heads(fromServer) /\ fromServer'[i] = fromServer[i]
      /\ Sequenced(fromServer', pc = "body")
  <2>1. fromServer \in Seq(Piece) /\ Sequenced(fromServer, pc = "body") /\ (pc = "body") \in BOOLEAN
    BY WireTyped DEF Ordered, Framing
  <2> QED
    BY <1>1, <2>1, FrameCut
<1>4. fromServer = <<>> => fromServer' = <<>>
  BY <1>1, WireTyped
<1>5. Framing'
  BY <1>2, <1>3 DEF Framing
<1>6. Waits' = Waits /\ \A m : Fresh(m)' = Fresh(m)
  BY <1>2 DEF Waits, Fresh
<1>7. \A a : (Own(a)' = Own(a)) /\ (OwnOK(a)' = OwnOK(a)) /\ (Aside(a)' = Aside(a)) /\ (Closing(a)' = Closing(a))
  BY <1>2, <1>6 DEF Own, OwnOK, Aside, Closing
<1>8. Wire'
  BY <1>2, <1>3, <1>6, <1>7, Empty DEF Ordered, Wire
<1>9. Later'
  BY <1>2, <1>3, <1>6, Empty DEF Ordered, Later
<1> QED
  BY <1>2, <1>4, <1>5, <1>6, <1>8, <1>9 DEF Ordered, Settled, ReturnsOwn

\* An answer joins those on the socket, none of which ends the call.
LEMMA AnswerJoins ==
    ASSUME NEW fs \in Seq(Piece), NEW body \in BOOLEAN, Sequenced(fs, body), Ended(fs, body),
           NEW a \in Answering, OwnOK(a) \/ Aside(a), Fresh(a.n),
           \A i \in Heads(fs) :
              /\ OwnOK(fs[i].answer) \/ Aside(fs[i].answer)
              /\ ~Closing(fs[i].answer)
              /\ Fresh(fs[i].answer.n)
    PROVE  LET gs == Joined(fs, a) IN
           /\ gs \in Seq(Piece) /\ Sequenced(gs, body) /\ Ended(gs, body)
           /\ \A i \in Heads(gs) :
                /\ OwnOK(gs[i].answer) \/ Aside(gs[i].answer)
                /\ Closing(gs[i].answer) => Closing(a) /\ \A j \in Heads(gs) : j <= i
                /\ Fresh(gs[i].answer.n)
<1> DEFINE gs == Joined(fs, a)
<1>1. /\ gs \in Seq(Piece) /\ Sequenced(gs, body) /\ Ended(gs, body)
      /\ \A i \in Heads(gs) :
           \/ i \in Heads(fs) /\ gs[i] = fs[i] /\ i <= Len(fs)
           \/ i = Len(fs) + 1 /\ gs[i].answer = a
  BY FrameAppend
<1>2. Len(fs) \in Nat
  OBVIOUS
<1> HIDE DEF gs
<1>3. ASSUME NEW i \in Heads(gs), NEW j \in Heads(gs), i = Len(fs) + 1
      PROVE  j <= i
  <2>1. j \in 1 .. Len(gs) /\ Len(gs) \in Nat
    BY <1>1, HeadTyped
  <2> QED
    BY <1>1, <1>2, <1>3, <2>1
<1> QED
  BY <1>1, <1>3 DEF gs

\* The server answers a request.
LEMMA OrderServe ==
    ASSUME TypeInv, Ordered, Serve
    PROVE  Ordered'
<1> DEFINE fs == fromServer
           req == toServer[1]
           body == pc = "body"
<1>1. /\ sock = "open" /\ toServer # <<>> /\ toServer' = Tail(toServer)
      /\ UNCHANGED <<sock, pc, cmd, n, header, objs, results, unsettled>>
  BY DEF Serve, hist
<1>2. /\ fs \in Seq(Piece) /\ body \in BOOLEAN /\ Sequenced(fs, body) /\ Ended(fs, body)
      /\ toServer \in Seq(Framed) /\ 1 \in DOMAIN toServer
  BY <1>1, WireTyped DEF Ordered, Framing
<1>3. /\ Own(req) \/ Aside(req)
      /\ Own(req) => toServer' = <<>>
      /\ Fresh(req.n)
  BY <1>1, <1>2 DEF Ordered, Wire, Later
<1>4. /\ \A i \in Heads(fs) :
           /\ OwnOK(fs[i].answer) \/ Aside(fs[i].answer)
           /\ ~Closing(fs[i].answer)
           /\ Fresh(fs[i].answer.n)
      /\ body => (OwnOK(header) \/ Aside(header)) /\ ~Closing(header) /\ Fresh(header.n)
  BY <1>1 DEF Ordered, Wire, Later
<1>5. \A i \in DOMAIN toServer' :
         /\ Own(toServer'[i]) \/ Aside(toServer'[i])
         /\ Own(toServer'[i]) => i = Len(toServer')
         /\ Fresh(toServer'[i].n)
  <2>1. /\ Len(toServer) \in Nat /\ DOMAIN toServer = 1 .. Len(toServer)
        /\ DOMAIN toServer' = 1 .. Len(toServer) - 1 /\ Len(toServer') = Len(toServer) - 1
        /\ \A i \in 1 .. Len(toServer) - 1 : toServer'[i] = toServer[i + 1]
    BY <1>1, <1>2
  <2>2. ASSUME NEW i \in DOMAIN toServer'
        PROVE  /\ Own(toServer'[i]) \/ Aside(toServer'[i])
               /\ Own(toServer'[i]) => i = Len(toServer')
               /\ Fresh(toServer'[i].n)
    <3>1. i + 1 \in DOMAIN toServer /\ toServer'[i] = toServer[i + 1] /\ i \in Nat
      BY <2>1
    <3>2. /\ Own(toServer[i + 1]) \/ Aside(toServer[i + 1])
          /\ Own(toServer[i + 1]) => i + 1 = Len(toServer)
          /\ Fresh(toServer[i + 1].n)
      BY <3>1 DEF Ordered, Wire, Later
    <3> QED
      BY <2>1, <3>1, <3>2
  <2> QED
    BY <2>2
<1>6. ASSUME NEW a \in Answering, a.op = req.op, a.n = req.n, req.op = "QUIT" => a.status = "OK"
      PROVE  /\ OwnOK(a) \/ Aside(a)
             /\ Fresh(a.n)
             /\ Closing(a) => toServer' = <<>>
             /\ req.op = "STAT" /\ a.key => ~Closing(a)
  <2>1. CASE Own(req)
    BY <1>3, <1>6, <2>1, CommandKinds DEF Own, OwnOK, Closing, LastAnswer
  <2>2. CASE Aside(req)
    BY <1>3, <1>6, <2>2, CommandKinds DEF Aside, Closing, LastAnswer
  <2> QED
    BY <1>3, <2>1, <2>2
<1> HIDE DEF fs, req, body
<1>7. /\ Sequenced(fs', body) /\ Ended(fs', body)
      /\ \A i \in Heads(fs') :
           /\ OwnOK(fs'[i].answer) \/ Aside(fs'[i].answer)
           /\ Closing(fs'[i].answer) => toServer' = <<>> /\ \A j \in Heads(fs') : j <= i
           /\ Fresh(fs'[i].answer.n)
  <2>0. \/ fs' = fs
        \/ \E a \in Answering :
              /\ a.op = req.op /\ a.n = req.n /\ req.op # "STAT"
              /\ req.op = "QUIT" => a.status = "OK"
              /\ fs' = fs \o Pieces(a)
        \/ \E a, z \in Answering :
              /\ a.op = req.op /\ a.n = req.n /\ z.op = req.op /\ z.n = req.n
              /\ req.op = "STAT" /\ a.key /\ ~z.key
              /\ fs' = (fs \o Pieces(a)) \o Pieces(z)
    BY ServeAnswers DEF TypeInv, fs, req
  <2>1. CASE fs' = fs
    BY <1>2, <1>4, <2>1
  <2>2. ASSUME NEW a \in Answering, a.op = req.op, a.n = req.n, req.op = "QUIT" => a.status = "OK",
               fs' = fs \o Pieces(a)
        PROVE  <1>7!:
    <3>1. /\ OwnOK(a) \/ Aside(a)
          /\ Fresh(a.n) /\ (Closing(a) => toServer' = <<>>)
      BY <1>6, <2>2
    <3> DEFINE gs == Joined(fs, a)
    <3>2. /\ Sequenced(gs, body) /\ Ended(gs, body)
          /\ \A i \in Heads(gs) :
               /\ OwnOK(gs[i].answer) \/ Aside(gs[i].answer)
               /\ Closing(gs[i].answer) => Closing(a) /\ \A j \in Heads(gs) : j <= i
               /\ Fresh(gs[i].answer.n)
      BY <1>2, <1>4, <3>1, AnswerJoins
    <3> HIDE DEF gs
    <3>3. fs' = gs
      BY <2>2 DEF gs, Joined
    <3> QED
      BY <3>1, <3>2, <3>3
  <2>3. ASSUME NEW a \in Answering, a.op = req.op, a.n = req.n, NEW z \in Answering, z.op = req.op, z.n = req.n,
               req.op = "STAT", a.key, fs' = (fs \o Pieces(a)) \o Pieces(z)
        PROVE  <1>7!:
    <3> DEFINE gs == Joined(fs, a)
    <3>1. /\ OwnOK(a) \/ Aside(a)
          /\ Fresh(a.n) /\ ~Closing(a)
          /\ OwnOK(z) \/ Aside(z)
          /\ Fresh(z.n) /\ (Closing(z) => toServer' = <<>>)
      BY <1>6, <2>3
    <3> HIDE DEF gs
    <3>2. /\ gs \in Seq(Piece) /\ Sequenced(gs, body) /\ Ended(gs, body)
          /\ \A i \in Heads(gs) :
               /\ OwnOK(gs[i].answer) \/ Aside(gs[i].answer)
               /\ ~Closing(gs[i].answer)
               /\ Fresh(gs[i].answer.n)
      <4>1. /\ gs \in Seq(Piece) /\ Sequenced(gs, body) /\ Ended(gs, body)
            /\ \A i \in Heads(gs) :
                 /\ OwnOK(gs[i].answer) \/ Aside(gs[i].answer)
                 /\ Closing(gs[i].answer) => Closing(a) /\ \A j \in Heads(gs) : j <= i
                 /\ Fresh(gs[i].answer.n)
        BY <1>2, <1>4, <3>1, AnswerJoins DEF gs
      <4> QED
        BY <3>1, <4>1
    <3> DEFINE hs == Joined(gs, z)
    <3>3. /\ Sequenced(hs, body) /\ Ended(hs, body)
          /\ \A i \in Heads(hs) :
               /\ OwnOK(hs[i].answer) \/ Aside(hs[i].answer)
               /\ Closing(hs[i].answer) => Closing(z) /\ \A j \in Heads(hs) : j <= i
               /\ Fresh(hs[i].answer.n)
      BY <1>2, <3>1, <3>2, AnswerJoins
    <3>4. fs' = hs
      BY <2>3 DEF gs, hs, Joined
    <3> HIDE DEF hs
    <3> QED
      BY <3>1, <3>3, <3>4
  <2> QED
    BY <2>0, <2>1, <2>2, <2>3
<1>8. Waits' = Waits /\ \A m : Fresh(m)' = Fresh(m)
  BY <1>1 DEF Waits, Fresh
<1>9. \A a : (Own(a)' = Own(a)) /\ (OwnOK(a)' = OwnOK(a)) /\ (Aside(a)' = Aside(a)) /\ (Closing(a)' = Closing(a))
  BY <1>1, <1>8 DEF Own, OwnOK, Aside, Closing
<1>10. Framing'
  BY <1>1, <1>7 DEF Framing, fs, body
<1>11. Wire'
  BY <1>1, <1>4, <1>5, <1>7, <1>8, <1>9 DEF Ordered, Wire, fs, body
<1>12. Later'
  BY <1>1, <1>4, <1>5, <1>7, <1>8 DEF Ordered, Later, fs, body
<1>13. Settled'
  BY <1>1, <1>8 DEF Ordered, Settled
<1> QED
  BY <1>1, <1>10, <1>11, <1>12, <1>13 DEF Ordered, ReturnsOwn

LEMMA OrderInit == Init => OrderInv
<1> SUFFICES ASSUME Init PROVE Ordered
  BY DEF OrderInv, Ordered
<1>1. pc = "idle" /\ toServer = <<>> /\ fromServer = <<>> /\ results = <<>> /\ ~Waits
  BY DEF Init, Waits
<1>2. Framing /\ Wire /\ Settled
  BY <1>1, Empty, FrameEmpty DEF Framing, Wire, Settled
<1>3. Later /\ ReturnsOwn
  BY <1>1, Empty, FrameEmpty DEF Later, Fresh, ReturnsOwn
<1> QED
  BY <1>1, <1>2, <1>3 DEF Ordered

LEMMA OrderStep ==
    ASSUME TypeInv, OrderInv, [Next]_vars
    PROVE  OrderInv'
<1> SUFFICES ASSUME Disciplined' PROVE Ordered'
  BY DEF OrderInv, Ordered
<1>1. ~raced' /\ ~cut'
  BY DEF Disciplined
<1>2. Disciplined
  <2>1. (\E c \in Command : Begin(c)) \/ raced' = raced
    BY DEF Next, Client, CallQuiet, CallWait, quitq, NullSock, SendFails, RecvHeader, RecvHeaderOfBody,
           RecvGarbage, RecvBody, RecvClosed, Serve, Break, hist, vars, Command, NoConnect
  <2>2. RecvBody \/ cut' = cut
    BY DEF Next, Client, CallQuiet, CallWait, quitq, NullSock, SendFails, RecvHeader, RecvHeaderOfBody,
           RecvGarbage, RecvBody, RecvClosed, Serve, Break, hist, vars
  <2>3. ~raced
    <3>1. ASSUME NEW c \in Command, Begin(c) PROVE ~raced
      BY <1>1, <3>1, Zenon DEF Begin
    <3> QED
      BY <1>1, <2>1, <3>1
  <2>4. ~cut
    <3>1. ASSUME RecvBody PROVE ~cut
      BY <1>1, <3>1 DEF RecvBody
    <3> QED
      BY <1>1, <2>2, <3>1
  <2> QED
    BY <2>3, <2>4 DEF Disciplined
<1>3. Ordered
  BY <1>2 DEF OrderInv, Ordered
<1>4. ASSUME NEW c \in Command, CallQuiet(c) \/ CallWait(c) \/ NullSock(c) \/ SendFails(c)
      PROVE  Ordered'
  BY <1>1, <1>3, <1>4, OrderQuiet, OrderWait, OrderUnsent
<1>5. CASE RecvHeader \/ RecvHeaderOfBody \/ RecvBody \/ RecvClosed
  BY <1>1, <1>3, <1>5, OrderRecvHeader, OrderRecvHeaderOfBody, OrderRecvBody, OrderRecvClosed
<1>6. CASE RecvGarbage
  <2>1. Head(fromServer).kind = "head"
    BY <1>3, <1>6, FirstHeader DEF RecvGarbage
  <2> QED
    BY <1>6, <2>1 DEF RecvGarbage
<1>7. CASE quitq \/ Serve \/ Break
  BY <1>3, <1>7, OrderQuitq, OrderServe, OrderBreak
<1>8. CASE UNCHANGED vars
  BY <1>3, <1>8 DEF vars, hist, Ordered, Framing, Wire, Settled, Later, ReturnsOwn,
     Own, OwnOK, Aside, Closing, Waits, Fresh
<1> QED
  BY <1>4, <1>5, <1>6, <1>7, <1>8 DEF Next, Client

(***************************************************************************)
(* receiveUntil() and receiveHeader() have nothing but the order to match  *)
(* answers with calls, and it is enough: whatever a disciplined program    *)
(* calls, and whenever the connection breaks, a call returns its own       *)
(* answer, and with it only answers to commands that no call before it has *)
(* waited for; after a call, without quiet commands, the wire is empty.    *)
(***************************************************************************)
THEOREM AnswersOwnCorrect == Spec => []AnswersOwn
<1>1. TypeInv /\ OrderInv => AnswersOwn
  BY DEF OrderInv, AnswersOwn, ReturnsOwn, Settled, Waits
<1> QED
  BY <1>1, TypeInit, TypeStep, OrderInit, OrderStep, PTL DEF Spec

(***************************************************************************)
(* The assertions of receiveHeader() on the magic number and of the plain  *)
(* commands on opcode and status never fail in a disciplined program.      *)
(***************************************************************************)
THEOREM AssertionsCorrect == Spec => []AssertionsHold
<1>1. TypeInv /\ OrderInv => AssertionsHold
  BY DEF OrderInv, AssertionsHold
<1> QED
  BY <1>1, TypeInit, TypeStep, OrderInit, OrderStep, PTL DEF Spec
=============================================================================
