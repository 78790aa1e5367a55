--------------------------- MODULE MemcacheClient ---------------------------
(***************************************************************************)
(* The client of memcache/memcache.d: one MemcacheServer object, used by   *)
(* one thread, and the server at the other end of its socket.  Commands    *)
(* and answers are not matched by anything but their order: a quiet        *)
(* command returns at once and may leave an answer on the socket, a plain  *)
(* one reads the next answer and asserts that its opcode is the command's, *)
(* GET, GETK and NOOP read answers until one has their opcode.             *)
(*                                                                         *)
(* An answer is a header and, if it has a body, two pieces of body, so     *)
(* that a receive() may return a part of it.  The server is external: it   *)
(* answers requests in order, and whether a command succeeds is its        *)
(* choice.  Calls are numbered, and an answer carries the number of the    *)
(* call it is the answer to, which the client cannot see.                  *)
(***************************************************************************)
EXTENDS Integers, Sequences

CONSTANTS
    Commands,   \* the commands the program uses
    KeyLens,    \* lengths of keys
    ValueLens,  \* lengths of values
    U16, U32,   \* 2^16 and 2^32: the moduli of ushort and uint
    MaxCalls    \* bound on the number of calls

SetQuiet   == {"SETQ", "ADDQ", "REPLACEQ"}
CountQuiet == {"INCRQ", "DECRQ"}
SetCmds    == {"SET", "ADD", "REPLACE"} \cup SetQuiet
CountCmds  == {"INCR", "DECR"} \cup CountQuiet
FlushCmds  == {"FLUSH", "FLUSHQ"}
GetQuiet   == {"GETQ", "GETKQ"}
Quiet      == SetQuiet \cup CountQuiet \cup GetQuiet \cup {"APPENDQ", "PREPENDQ", "DELETEQ", "FLUSHQ"}
Until      == {"GET", "GETK", "NOOP"}
Single     == {"VERSION", "APPEND", "PREPEND", "DELETE", "SET", "ADD", "REPLACE", "INCR", "DECR", "FLUSH"}
NoConnect  == {"NOOP", "STAT", "QUIT", "QUITQ"}
Command    == Quiet \cup Until \cup Single \cup NoConnect
NoKey      == {"VERSION"} \cup FlushCmds \cup NoConnect
WithValue  == SetCmds \cup {"APPEND", "PREPEND", "APPENDQ", "PREPENDQ"}

ASSUME MemcacheAssumption ==
    /\ Commands \subseteq Command /\ MaxCalls \in Nat
    /\ U16 \in Nat \ {0} /\ U32 \in Nat \ {0}
    /\ KeyLens \subseteq 0 .. U16 - 1 /\ ValueLens \subseteq Nat
    /\ \A k \in KeyLens \cup {0}, v \in ValueLens \cup {0} : k + v + 20 < U32

-----------------------------------------------------------------------------
(* MemcacheHeader: every setter of a length recomputes the length of the body *)

NewHeader == [keyLen |-> 0, extraLen |-> 0, bodyLen |-> 0, lastLen |-> 0]

updateBodyLen(h, len) ==
    [keyLen |-> h.keyLen, extraLen |-> h.extraLen,
     bodyLen |-> (len + h.extraLen + h.keyLen) % U32, lastLen |-> len]

\* Mutant: the remembered length is always taken for the whole, and is signed.
refreshBodyLen_signed(h) == updateBodyLen(h, h.lastLen - h.extraLen - h.keyLen)

\* Without an argument: what was stored last is taken for the whole body.
refreshBodyLen(h) ==
    updateBodyLen(h, IF h.lastLen > 0 THEN (h.lastLen - h.extraLen - h.keyLen) % U32 ELSE h.lastLen)

keyLen(h, u)   == refreshBodyLen([h EXCEPT !.keyLen = u % U16])
extraLen(h, u) == refreshBodyLen([h EXCEPT !.extraLen = u])
valueLen(h, u) == updateBodyLen(h, u % U32)

\* Mutant: the extras are added after the value.
Header_late(c, k, v) ==
    IF c \in SetCmds THEN extraLen(valueLen(keyLen(NewHeader, k), v), 8)
    ELSE valueLen(keyLen(NewHeader, k), v)

\* The header of a request, in the order in which the fields are assigned.
Header(c, k, v) ==
    CASE c \in SetCmds   -> valueLen(extraLen(keyLen(NewHeader, k), 8), v)
      [] c \in CountCmds -> extraLen(keyLen(NewHeader, k), 20)
      [] c \in FlushCmds -> extraLen(NewHeader, 4)
      [] OTHER           -> valueLen(keyLen(NewHeader, k), v)

\* The bytes that are sent behind the header.
BodySize(c, k, v) ==
    CASE c \in SetCmds   -> 8 + k + v
      [] c \in CountCmds -> 20 + k
      [] c \in FlushCmds -> 4
      [] OTHER           -> k + v

-----------------------------------------------------------------------------
VARIABLES
    sock,        \* null, open, or broken: the peer is gone
    pc,          \* idle, receive, body, failed (an assertion) or null (sock was null)
    cmd,         \* the command of the call under way
    n,           \* number of calls so far
    header,      \* the header whose body is to be read
    objs,        \* headers this call has read so far
    toServer,    \* requests on their way
    fromServer,  \* pieces of answers on their way
    results,     \* history: what the calls returned
    unsettled,   \* history: a quiet command was sent since all answers were last read
    raced,       \* history: a plain command was called while unsettled
    cut          \* history: receive() returned a part of a body

hist == <<unsettled, raced, cut>>
vars == <<sock, pc, cmd, n, header, objs, toServer, fromServer, results, hist>>

Answer(req, status, key, body) ==
    [n |-> req.n, op |-> req.op, status |-> status, key |-> key, body |-> body]

NoHeader == [n |-> 0, op |-> "NOOP", status |-> "OK", key |-> FALSE, body |-> FALSE]

Init ==
    /\ sock = "null" /\ pc = "idle" /\ cmd = "NOOP" /\ n = 0
    /\ header = NoHeader /\ objs = <<>>
    /\ toServer = <<>> /\ fromServer = <<>> /\ results = <<>>
    /\ unsettled = FALSE /\ raced = FALSE /\ cut = FALSE

Result(out, seen) == [n |-> n', cmd |-> cmd', out |-> out, objs |-> seen]

\* The key and the value of a command.
KeysOf(c)   == IF c \in NoKey THEN {0} ELSE KeyLens
ValuesOf(c) == IF c \in WithValue THEN ValueLens ELSE {0}

\* A call of a command begins: sock is connected if there is none.
Begin(c) ==
    /\ pc = "idle" /\ n < MaxCalls /\ c \in Commands
    /\ cmd' = c /\ n' = n + 1
    /\ raced' = (raced \/ (unsettled /\ c \notin Quiet \cup Until \cup {"QUITQ"}))

\* The request is written; a socket whose peer is gone may take it and lose it.
Write(c) ==
    /\ sock = "null" => c \notin NoConnect
    /\ sock' = IF sock = "null" THEN "open" ELSE sock
    /\ \E k \in KeysOf(c), v \in ValuesOf(c) :
         toServer' = IF sock = "broken" THEN toServer
                     ELSE Append(toServer, [n |-> n', op |-> c, header |-> Header(c, k, v),
                                            size |-> BodySize(c, k, v)])

\* A quiet command returns when it has been sent.
CallQuiet(c) ==
    /\ c \in Quiet /\ Begin(c) /\ Write(c)
    /\ results' = Append(results, Result("sent", <<>>))
    /\ unsettled' = TRUE
    /\ UNCHANGED <<pc, header, objs, fromServer, cut>>

\* The other commands wait for an answer.
CallWait(c) ==
    /\ c \notin Quiet \cup {"QUITQ"} /\ Begin(c) /\ Write(c)
    /\ pc' = "receive" /\ objs' = <<>>
    /\ UNCHANGED <<header, fromServer, results, unsettled, cut>>

\* sock.close(), sock = null; what was on the socket is gone.
Close == sock' = "null" /\ toServer' = <<>> /\ fromServer' = <<>> /\ unsettled' = FALSE

quitq ==
    /\ Begin("QUITQ") /\ sock # "null"
    /\ Close
    /\ results' = Append(results, Result("sent", <<>>))
    /\ UNCHANGED <<pc, header, objs, cut>>

\* noop, stats, quit and quitq do not connect: they use a null sock.
NullSock(c) ==
    /\ c \in NoConnect /\ Begin(c) /\ sock = "null"
    /\ pc' = "null"
    /\ UNCHANGED <<sock, header, objs, toServer, fromServer, results, unsettled, cut>>

\* connect() throws, or send() returns -1 and a MemcacheException is thrown.
SendFails(c) ==
    /\ Begin(c)
    /\ sock = "broken" \/ (sock = "null" /\ c \notin NoConnect)
    /\ results' = Append(results, Result("exception", <<>>))
    /\ UNCHANGED <<sock, pc, header, objs, toServer, fromServer, unsettled, cut>>

-----------------------------------------------------------------------------
(* receiveHeader(), and what each command does with the header *)

Return(out, seen) ==
    /\ UNCHANGED <<cmd, n, header>>
    /\ results' = Append(results, Result(out, seen))
    /\ pc' = "idle" /\ objs' = <<>>

Fail == pc' = "failed" /\ UNCHANGED <<cmd, n, header, objs, results>>

\* Mutants: the first answer is enough, for every command or for stats(); only
\* a success ends the wait.
LastAnswer_first(c, h) == TRUE
LastAnswer_status(c, h) == h.op = c /\ h.status = "OK"

\* receiveUntil() and stats() read on until they see this answer.
LastAnswer(c, h) ==
    \/ c \in Until /\ h.op = c
    \/ c = "STAT" /\ ~h.key
    \/ c \in Single \cup {"QUIT"}

\* Mutant: a plain command is expected to succeed.
Expected_ok(c, h) == c \in Single \cup {"QUIT"} => h.status = "OK"

\* The assertion on the answer of a plain command.
Expected(c, h) ==
    /\ c \in Single => h.op = c
    /\ c = "QUIT" => h.status = "OK"

\* INCR and DECR of a counter that is missing throw what the server says.
Outcome(c, h) ==
    IF c \in CountCmds /\ h.status = "KEY_NOTFOUND" THEN {"returned", "exception"} ELSE {"returned"}

\* Header h is complete; rest is what remains on the socket.
Received(h, rest) ==
    LET seen == Append(objs, h) IN
    \/ /\ ~Expected(cmd, h)
       /\ Fail
       /\ fromServer' = rest /\ UNCHANGED <<sock, toServer, unsettled>>
    \/ /\ Expected(cmd, h) /\ ~LastAnswer(cmd, h)
       /\ objs' = seen /\ pc' = "receive" /\ fromServer' = rest
       /\ UNCHANGED <<sock, toServer, unsettled, cmd, n, header, results>>
    \/ /\ Expected(cmd, h) /\ LastAnswer(cmd, h)
       /\ \E out \in Outcome(cmd, h) : Return(out, seen)
       /\ IF cmd = "QUIT" THEN Close
          ELSE /\ fromServer' = rest
               /\ unsettled' = (unsettled /\ cmd \notin Until)
               /\ UNCHANGED <<sock, toServer>>

\* The header of an answer without a body.
RecvHeader ==
    /\ pc = "receive" /\ fromServer # <<>>
    /\ LET h == Head(fromServer) IN
       /\ h.kind = "head" /\ ~h.answer.body
       /\ Received(h.answer, Tail(fromServer))
    /\ UNCHANGED <<raced, cut>>

\* The header of an answer with a body.
RecvHeaderOfBody ==
    /\ pc = "receive" /\ fromServer # <<>>
    /\ LET h == Head(fromServer) IN
       /\ h.kind = "head" /\ h.answer.body
       /\ header' = h.answer
    /\ pc' = "body" /\ fromServer' = Tail(fromServer)
    /\ UNCHANGED <<sock, cmd, n, objs, toServer, results, hist>>

\* assert( header.magic == Magic.RESPONSE ): these bytes are no header.
RecvGarbage ==
    /\ pc = "receive" /\ fromServer # <<>> /\ Head(fromServer).kind = "body"
    /\ Fail
    /\ UNCHANGED <<sock, toServer, fromServer, hist>>

\* The body: receive() is called once, and what it returns is taken for all.
RecvBody ==
    /\ pc = "body"
    /\ \E k \in {1, 2} :
         /\ k <= Len(fromServer)
         /\ Received(header, SubSeq(fromServer, k + 1, Len(fromServer)))
         /\ cut' = (cut \/ k = 1)
    /\ UNCHANGED raced

\* receive() returns 0: the peer is gone, a MemcacheException is thrown, and
\* sock is kept.
RecvClosed ==
    /\ pc \in {"receive", "body"} /\ sock = "broken" /\ fromServer = <<>>
    /\ Return("exception", objs)
    /\ UNCHANGED <<sock, toServer, fromServer, hist>>

Client ==
    \/ \E c \in Command : CallQuiet(c) \/ CallWait(c) \/ NullSock(c) \/ SendFails(c)
    \/ quitq \/ RecvHeader \/ RecvHeaderOfBody \/ RecvGarbage \/ RecvBody \/ RecvClosed

-----------------------------------------------------------------------------
(* The server *)

Error(req, status) == <<Answer(req, status, FALSE, TRUE)>>

\* The answers to a request: a quiet one is answered only if it fails, or if a
\* key was found.
Answers(req) ==
    CASE req.op \in GetQuiet       -> {<<>>, <<Answer(req, "OK", req.op = "GETKQ", TRUE)>>}
      [] req.op \in Quiet \ GetQuiet -> {<<>>, Error(req, "ITEM_NOT_STORED")}
      [] req.op \in {"GET", "GETK"} -> {<<Answer(req, "OK", req.op = "GETK", TRUE)>>, Error(req, "KEY_NOTFOUND")}
      [] req.op = "STAT"           -> {<<Answer(req, "OK", TRUE, TRUE), Answer(req, "OK", FALSE, FALSE)>>}
      [] req.op \in CountCmds \ Quiet -> {<<Answer(req, "OK", FALSE, TRUE)>>, Error(req, "KEY_NOTFOUND")}
      [] req.op \in Single \ CountCmds -> {<<Answer(req, "OK", FALSE, req.op = "VERSION")>>, Error(req, "ITEM_NOT_STORED")}
      [] OTHER                     -> {<<Answer(req, "OK", FALSE, FALSE)>>}

Pieces(answer) ==
    <<[kind |-> "head", answer |-> answer]>> \o
    IF answer.body THEN <<[kind |-> "body", answer |-> answer], [kind |-> "body", answer |-> answer]>>
    ELSE <<>>

Serve ==
    /\ sock = "open" /\ toServer # <<>>
    /\ \E ans \in Answers(Head(toServer)) :
         fromServer' = fromServer \o (IF ans = <<>> THEN <<>> ELSE Pieces(ans[1]))
                                  \o (IF Len(ans) < 2 THEN <<>> ELSE Pieces(ans[2]))
    /\ toServer' = Tail(toServer)
    /\ UNCHANGED <<sock, pc, cmd, n, header, objs, results, hist>>

\* The server, or the network, goes away with the requests not yet answered
\* and the rest of the answers.
Break ==
    /\ sock = "open" /\ sock' = "broken" /\ toServer' = <<>>
    /\ \E k \in 0 .. Len(fromServer) : fromServer' = SubSeq(fromServer, 1, k)
    /\ UNCHANGED <<pc, cmd, n, header, objs, results, hist>>

Next == Client \/ Serve \/ Break

Spec == Init /\ [][Next]_vars

\* A blocking receive returns when there is something to read or the peer is
\* gone, and the server answers; nothing makes a program call.
Fairness ==
    /\ WF_vars(RecvHeader \/ RecvHeaderOfBody \/ RecvGarbage \/ RecvBody \/ RecvClosed)
    /\ WF_vars(Serve)

FairSpec == Spec /\ Fairness

-----------------------------------------------------------------------------
(* Properties *)

Answering == [n : 0 .. MaxCalls, op : Command, key : BOOLEAN, body : BOOLEAN,
              status : {"OK", "KEY_NOTFOUND", "ITEM_NOT_STORED"}]

TypeOK ==
    /\ sock \in {"null", "open", "broken"}
    /\ pc \in {"idle", "receive", "body", "failed", "null"}
    /\ cmd \in Command /\ n \in 0 .. MaxCalls
    /\ header \in Answering /\ objs \in Seq(Answering)
    /\ \A i \in DOMAIN toServer :
         /\ toServer[i].n \in 1 .. n /\ toServer[i].op \in Command
         /\ toServer[i].header \in [keyLen : 0 .. U16 - 1, extraLen : {0, 4, 8, 20},
                                    bodyLen : 0 .. U32 - 1, lastLen : 0 .. U32 - 1]
    /\ fromServer \in Seq([kind : {"head", "body"}, answer : Answering])
    /\ results \in Seq([n : 1 .. MaxCalls, cmd : Command, objs : Seq(Answering),
                        out : {"sent", "returned", "exception"}])
    /\ unsettled \in BOOLEAN /\ raced \in BOOLEAN /\ cut \in BOOLEAN

\* The program settles quiet commands with GET, GETK or NOOP before it calls
\* another one that waits, and no receive() was short.
Disciplined == ~raced /\ ~cut

(***************************************************************************)
(* Every request is framed: the header, built by setters that recompute    *)
(* the length of the body from a remembered one (updateBodyLen), announces *)
(* exactly the bytes that are sent behind it.                              *)
(***************************************************************************)
RequestsFramed ==
    \A i \in DOMAIN toServer : toServer[i].header.bodyLen = toServer[i].size

(***************************************************************************)
(* A call of a disciplined program returns its own answer last, and before *)
(* it only answers to commands sent since a call last waited: nothing is   *)
(* reported to two calls, or to a later one than it was meant for          *)
(* (receiveUntil, receiveHeader: there is no matching but by order).       *)
(* Between its calls, with no quiet command outstanding, nothing is left   *)
(* on the socket for the next call to read.                                *)
(***************************************************************************)
AnswersOwn ==
    Disciplined =>
        /\ \A i \in DOMAIN results : results[i].out = "returned" =>
              LET r == results[i] IN
              /\ r.objs[Len(r.objs)].n = r.n
              /\ \A k \in DOMAIN r.objs, j \in 1 .. i - 1 :
                    results[j].out = "returned" => results[j].n < r.objs[k].n
        /\ pc = "idle" /\ ~unsettled /\ sock = "open" => toServer = <<>> /\ fromServer = <<>>

(***************************************************************************)
(* The assertions on magic, opcode and status never fail in a disciplined  *)
(* program, whenever the connection breaks.                                *)
(***************************************************************************)
AssertionsHold == Disciplined => pc # "failed"

(***************************************************************************)
(* A call that waits for an answer comes to an end, quiet commands before  *)
(* it or not: receiveUntil() and stats() never wait for an answer that     *)
(* has been read already.                                                  *)
(***************************************************************************)
CallReturns == pc \in {"receive", "body"} ~> pc \notin {"receive", "body"}
=============================================================================
