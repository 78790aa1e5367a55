# A TLA+ model of goughy/d

Three programs in D live in this repository: **http4d**, a library for HTTP
servers (with a Mongrel2 and an AJP front end and Lua server pages), a
**memcache** client, and **zmqc**, a command line tool for ZeroMQ sockets. The
Lua server pages are run by a copy of **Lua 5.1** that is kept and compiled with
http4d; it is by far the largest part of the source.

The modules here model the parts that carry the protocol logic, the concurrency
and the algorithms: the HTTP serve loop with its connections and processors, the
memcache client, and the core of the Lua runtime: collector, tables, calls and
coroutines, compiler and virtual machine, string matching. Paths below are
relative to `src/`; Lua files are in `http4d/src/luasp/lua-5.1/src`.

## 1. The system

### Components, their state and operations

| Component | Source | State | Operations |
|---|---|---|---|
| HTTP connection and parser | `http4d/src/protocol/http.d` 280-426, 780-1066 | per connection: socket, address (`ident`), `state` Headers/Body/Closing, `readBuf`, `writeBuf`, `currReq` | `read`, `write`, `add`, `close`; `findEndOfHeaders`, `parseHttpHeaders`, `onHttpData`, `toBuffer` |
| HTTP serve loop | `http.d` 430-620 | `pitem` (poll list), `ptmp` (the list being built), `httpConns`, `running`, statistics | poll, accept, read, dispatch, write, close, idle |
| Processors | `http.d` 622-760 | `hadData` (delegate), the thread's mailbox (tid) | `onRequest`, `onIdle` |
| Application thread, interrupt handler | `http4d/main.d`, `http4d/test.d` | requests it holds | answer a request; send `1` to stop the server |
| HTTP client | `http.d` 181-285, `client.d` | one blocking exchange | `httpClient` |
| Requests, responses, routers, URIs | `http4d/src/protocol/httpapi.d` | routes, first match wins | `getResponse`, `addHeader`, routers, `parseAddr` |
| Mongrel2 front end, ZeroMQ wrapper | `mongrel2.d`, `zsocket.d` | two sockets | receive, parse netstrings, dispatch, send |
| AJP codec | `ajp.d` | none: its server loop is commented out | encode, decode |
| Lua server pages | `luasp/process.d`, `luasp/http4d.d` | cache of compiled pages by file name and time | lookup, translate a template, run |
| Memcache client | `memcache/memcache.d` | `sock`; what is on it in both directions | 27 commands, plain or quiet |
| zmqc | `zmqc/src/zmqc.d` | a socket | copy between it and standard input or output |
| Lua collector | `lgc.c`, `lgc.h`, parts of `lapi.c`, `lstring.c`, `lfunc.c` | `gcstate`, colours, the lists `rootgc`, `gray`, `grayagain`, `weak`, `tmudata`, the sweep's place, the string table | step, full collection, barriers, stores, allocation, finalizers, `lua_close` |
| Lua tables | `ltable.c` | array part, nodes with their chains, `lastfree` | get, set, resize, rehash, next, length, clearing by the collector |
| Lua calls and coroutines | `ldo.c`, parts of `lvm.c`, `lapi.c`, `lstate.c`, `lbaselib.c` | per thread: value stack, CallInfos, `nCcalls`, `errfunc`, `errorJmp`, `status`; the C stack they share | call, tail call, return, error, `pcall`, `xpcall`, resume, yield, wrap |
| Lua compiler | `lparser.c`, `lcode.c`, `lopcodes.c`, checker of `ldebug.c` | `FuncState`: code, jump lists, registers, blocks, upvalues | one routine per production, one per code generator function |
| Lua virtual machine | `lvm.c`, `lfunc.c` | frames, registers, tables, closures, upvalues | one per opcode |
| Lua string matching | `lstrlib.c` | a match in progress; the place of `gmatch` and `gsub` | `find`, `match`, `gmatch`, `gsub` |
| Lua lexer, binary chunks, other libraries | `llex.c`, `lzio.c`, `ldump.c`, `lundump.c`, `l*lib.c` | - | - |
| Deimos headers | `deimos` | declarations of third party code | - |

### How they interact

The serve loop is one thread. `zmq_poll` with a timeout of zero reports events
for the listening socket and for every connection; the loop visits the items
one by one and *builds a new list while it walks the old one*: an item is kept,
rebuilt (asking for `POLLOUT` if there is output), or left out, and several
exits of the loop body, exceptions included, decide which. A request that
`read()` completes goes to a processor. `DelegateProcessor` calls the handler at
once and appends the response to a connection. `TidProcessor` sends the request
to another thread; the response comes back as a message, one of which `onIdle()`
takes per round, and is given to the connection with the remote address stored
in it. The interrupt handler sends the integer 1 to the same mailbox.

The memcache client shares a TCP stream with its server. Nothing but order
matches answers to requests, and a quiet command is answered only if there is
something to say.

A Lua page is a program: the parser turns it into code in one pass, with the code
generator patching jumps behind it; the virtual machine runs the code on the
thread's stack; calls, errors and coroutines cut and grow that stack together with
the C stack; and any allocation may let the collector do a step between two
operations of the program, while tables reorganise themselves under its hands.

### What is hard here

The list `hazards` of `PROJECT.json` names them line by line. The main ones:

* keeping `pitem`, `ptmp` and `httpConns` in step over every exit of the loop;
* responses written in parts while others are appended behind them;
* responses that arrive after the poll list was built, after their connection
  has gone, or after its descriptor has been given to somebody else;
* requests cut anywhere by TCP, pipelined, with bodies in the same or in a later
  segment;
* resets between any two steps: in the accept queue, between poll and write;
* `add()` overwriting the state of a connection that is closing or in the
  middle of a body;
* answers of quiet memcache commands left on the socket, short reads, and
  connections that break in the middle of an answer;
* stores between any two steps of the collector, finalizers that revive objects,
  weak tables, upvalues that are shared or still open;
* a table traversal whose key has been erased and collected, chains of colliding
  nodes that are moved, sizes found by halving and doubling;
* errors that skip the returns of any number of calls, limits that are raised
  while an overflow is handled, coroutines that resume each other;
* jump lists threaded through code that is changed later, registers freed in
  order, captured locals closed on every way out of a block;
* captures that are undone while a matcher backtracks, and empty matches.

## 2. Modules

```
HttpService             what a client may expect of the server
HttpConnection          operators: one connection, the parser, a response's bytes
  HttpServer            the loop, the processors, the kernel's sockets, the clients
    HttpServerProps     properties; implements HttpService
      MCHttpServer      instances for TLC
      HttpServerProofs  types and lists: the inductive invariant the others rest on
        HttpResponseProofs  whose a response is, whole responses, closing connections
          HttpRequestProofs   what the processor is given: the head of a request
            HttpOrderProofs     each request answered once, and in its turn; HttpService
MemcacheClient          the memcache client, its server and its socket, with properties
  MCMemcache            instances for TLC
  MemcacheProofs        framing of requests, types, own answers, assertions
LuaGC                   collector, barriers, stores, with properties
  MCLuaGC
LuaMap                  what a table promises
LuaTable                array and hash part; implements LuaMap
  MCLuaTable
LuaCall                 calls, errors and coroutines on both stacks
  MCLuaCall
  LuaCallFrameProofs    the C stack, the threads and their stacks of values
    LuaCallStepProofs   errors, luaD_pcall and coroutines keep the invariant
      LuaCallProofs     so does every program, and the properties follow
LuaCode                 code generator and code checker
  LuaParser             parser, which drives it
    LuaSemantics        what a program means, on its syntax tree
      LuaExecute        compile a program, run it, compare
        MCLuaExecute    the programs
LuaPattern              what a pattern means, and which match it prefers
  LuaMatch              the backtracking matcher and what is built on it
    MCLuaMatch          the calls
```

### HttpConnection

The byte stream is abstracted to tokens: one token is a line of a request or a
piece of its body, tagged with the client that sent it and the number of the
request. The parser's control is kept: what counts as the end of the headers,
what happens to a chunk that starts with an empty line (an `Error`, which
nothing catches), which Content-Length decides, and when the body is diverted to
a file. `read`, `add` and `write` map a connection record to the next one.
A response is two units, so that a `send` can take half of it.

### HttpServer

`pc` is the place in `httpServeImpl`: `poll` (the top of `while(running)`),
`item` (the loop over `pitem`), `dispatch` (inside `onRequest`), `write` (the
check for `POLLOUT`), `idle`, `done`, `crashed`. Between two steps anything may
happen outside: a client connects, sends a segment, closes, resets or reads; the
application answers; the interrupt handler sends its message. One action is one
branch of the loop body:

| Action | Code |
|---|---|
| `Poll` | `zmq_poll`, and the test whether any item needs a visit (532-539) |
| `ListenError`, `NoAccept`, `Accept`, `AcceptThrows` | the branch of the listener and `onAccept` (479-497, 550-564) |
| `CloseConn`, `ReadEOF`, `ReadException`, `ReadError`, `ReadData`, `SkipRead` | closing and `onRead` (500-520, 566-597) |
| `DispatchReply`, `DispatchNull`, `DispatchHttpException`, `DispatchException` | `DelegateProcessor.onRequest` and the `catch` blocks (583-597, 713-730) |
| `DispatchSend` | `TidProcessor.onRequest` (649-653) |
| `Write`, `WriteError`, `SkipWrite` | `onWrite` (510-513, 577-578) |
| `EndRound` | the new list replaces the old one (609-611) |
| `IdleSync`, `IdleEmpty`, `IdleShutdown`, `IdleResponse`, `IdleNull` | `onIdle` (655-678, 732-738) |

`dispatched` is a history variable: the requests that were handed to the processor.
`crashed` stands for an `Error` or a null dereference that nothing catches: the
repository is built without `-release`, so bounds checks and assertions are on.

### HttpService

What a client may expect, without connections, buffers, rounds or threads: it asks
(`Ask`), the application takes its requests once each and in turn (`Take`), and the
halves of the answers arrive: a first one only behind a whole answer, to a request
of the client that was taken and of which it has no answer yet (`Begin`), the second
right behind the first (`Finish`); with `InOrder`, in the order of the requests. The
refinement takes `asked` from how much of its stream the client has sent, `taken`
from `dispatched`, `InOrder` from the mode; `received` is the same.

### MemcacheClient

One `MemcacheServer` object, used by one thread. A call sends a request and
returns (`CallQuiet`, `quitq`) or waits (`CallWait`), in which case `RecvHeader`,
`RecvHeaderOfBody` and `RecvBody` are the `receive()` calls of `receiveHeader()`,
and `Received` is what `receiveUntil()`, `stats()`, `quit()` or the plain
commands do with the header. `SendFails`, `RecvClosed`, `RecvGarbage` and
`NullSock` are the ways it goes wrong. The header's length fields are translated
as the code computes them, modulo 2^16 and 2^32, with the remembered `_lastLen`.
The server (`Serve`) answers in order, decides whether a command succeeds, and
may vanish (`Break`) in the middle of an answer.

Three history variables classify what the program has done: `unsettled` (a quiet
command was sent since all answers were read), `raced` (a plain command was
called while unsettled), `cut` (a body was read short).

### LuaGC

The global state is one record `g`, and each C function is a function from it to
the next one, so that a handler that calls another composes with it.
A cell of the heap has a mark and the fields of its kind (table, userdata, string,
C and Lua closure, upvalue, prototype, thread). The collector's `singlestep` is the
action `Collect`; `FullGC` and `Close` are `luaC_fullgc` and `lua_close`. The
other actions are the stores, loads and allocations of `lapi.c`, `lvm.c` and
`ltable.c`, with the barriers they take, in every phase of the collector. A
profile says which kinds of object a heap may have, so that each heap stays small.

### LuaMap and LuaTable

`LuaTable` keeps the array part, the nodes with their `next` links, dead keys and
`lastfree`, and a traversal that remembers its last key only. `luaH_get`,
`luaH_set`, `newkey` (move of a colliding node, chain mended), `rehash`,
`computesizes`, `resize`, `luaH_next` and `luaH_getn` are translated operator by
operator; the collector clears entries between any two operations. `LuaMap` is a
map from keys to values in which one key changes at a time; the refinement maps
the table to what `luaH_get` answers for each key.

### LuaCall

Each thread has a stack of values, with the sizes and the limit the code keeps,
and a stack of CallInfos; all threads share the C stack `cs`, whose frames are the
activations of `luaV_execute`, `luaD_call`, C functions, `luaD_pcall` and
`lua_resume`. An error is a `longjmp`: it cuts `cs` to the frame `errorJmp` names.
A program is abstracted to whatever could be done next at the point it is at.

A handler of the code that calls C functions which call others is not one action:
the frames on `cs` say where every function in progress will go on, and `op` what
happens to the one on top.

| `op` | What is next | Actions |
|---|---|---|
| `run` | the program goes on: `luaV_execute` or a C function | `CallLua`, `CallC`, `CallObject`, `CallTM`, `TailCall`, `Capture`, `Return`, `Error`, `MemoryError`; `HostCall`, `PcallBody`, `XpcallBody`, `ErrorBody`, `YieldBody`, `CreateBody`, `Resume`, `Wrap`, `Callback`, `CallbackReturn` |
| `return` | a C function has pushed its `ret` results and returns to `luaD_precall` | `CReturns` |
| `after` | a call came back to the frame on top | `After` |
| `error` | `luaG_errormsg` looks for a handler | `Message` |
| `throw` | `luaD_throw` | `Throw` |

### LuaCode, LuaParser, LuaSemantics, LuaExecute

`LuaCode` is `lcode.c` on instructions `[op, a, b, c]`: jump lists threaded through
the code, `expdesc`s, registers, constants, and `luaG_checkcode`; a `lua_assert`
that fails clears `ok`. `LuaParser` is the recursive descent of `lparser.c` over
tokens. `LuaSemantics` does not look at either: it says on the syntax tree what
calls a program makes, what it returns and whether it ends with an error, given
the answers of the external function `f`. `LuaExecute` compiles (`Load`) and runs
the code, one action for each opcode, with `f` answering anything.

### LuaPattern and LuaMatch

`LuaPattern` gives the meaning of a pattern as the ordered sequence of its matches,
built from items; it has no pointers, no failure and no undoing. `LuaMatch` is
`lstrlib.c` on characters: `match`, `max_expand`, `min_expand`, captures opened and
undone, classes and sets read from the pattern's text, then `find`, `match`,
`gmatch` and `gsub`. A call of the last two is a sequence of steps, since `gsub` may
call back into Lua for each replacement.

## 3. Runs

Passing runs:

| Run | Question |
|---|---|
| `sync` | `DelegateProcessor`, every outcome of a handler, pipelining, a body above the limit and one that never comes, hang-ups, a send buffer of half a response: are lists and table in step (`PollListInSync`), is a request handled as it was sent (`HandledAsSent`), does every client get its answers in order (`AnsweredInOrder`), and does the server implement `HttpService`, that is, are requests taken once and in turn and are the answers received whole and the client's own (`ImplementsService`)? There are no resets and no requests cut in two here: what they do to the server is in section 5. Deadlock is checked, so the run also shows that the server never ends. |
| `async` | `TidProcessor`, one descriptor that two clients use in turn, answers in any order, null answers, exceptions, an empty line too many in front of a request, a body with its head, behind it or missing, resets, errors of the listener, shutdown: does every client get whole answers to its own requests, once (`ResponsesFramed`, `AnsweredOnce`), and is a closing connection left alone (`ClosingIsFinal`)? |
| `sync_live` | is every whole request answered, every hung-up connection reaped, every queued client accepted? |
| `async_live` | is an answer from another thread written, and does the shutdown message end the loop? |
| `memcache` | every sequence of three calls: framing, own answers to every call and nothing left on the socket (`AnswersOwn`), no failing assertion in a program that settles its quiet commands, and every waiting call returns |
| `lua_gc` | program and collector interleaved: is nothing reachable freed (`ReachableKept`), do the barriers keep colours and lists right (`MarksInStep`), do finalizers run once, for the dead only, and all of them at the end (`FinalizedRight`), does garbage go (`GarbageGoes`)? |
| `lua_table` | is a table a map, whatever is moved, resized or cleared (`ImplementsMap`), does a traversal survive erased and dead keys (`NextVisits`), is the length a border (`BorderFound`), is the array part as large as it should be (`SizesOptimal`)? |
| `lua_call` | errors, yields, tail calls and overflows at any point: are CallInfos, `nCcalls`, `errorJmp` and `errfunc` in step with the C stack (`StacksInStep`), is no local overwritten and no open upvalue dangling (`LocalsKept`), has every function the stack that its frame asks for, and do values stay below the spare slots at its end, also while a C function returns (`StackFits`), is a suspended coroutine clean (`SuspendedClean`)? |
| `lua_compile` | 10090 programs, compiled and run with every choice of answers: do they do what they mean and end (`RunsAsMeant`), do the assertions of compiler and machine hold (`AssertionsHold`), does the code pass `luaG_checkcode` (`CodeChecked`), is no captured register taken by somebody else (`OpenUpvaluesActive`)? |
| `lua_match` | 10047 calls: is the match found the one the pattern prefers (`FindMeans`), does iteration lose and repeat nothing (`HitsMeant`), does `gsub` keep the rest (`GsubText`), and do errors come of bad patterns only (`ErrorsMeant`)? |

Runs that show where the code parts from what it says (each is a finding):

| Run | What TLC shows |
|---|---|
| `close_drops_response` | a response with `Connection: close` is dropped: the check for `needsClose` comes before the write |
| `lua_nil_parameter` | `local function g(y) y = nil return y end` returns its argument: the assignment is the first instruction of the function, and `luaK_nil` takes all registers to be clean there, parameters too |

### Bounds

HTTP: two clients are the fewest that can be mixed up; one descriptor for both
(`async`) makes reuse certain, two make interleaving possible. Up to three requests
per client, so that there is one answered, one under way and one behind it. `SndBuf`
is half a response, so that every response is written in parts. `MaxRequestLen`
2 and `DivertLen` 1 give bodies that are kept and bodies that are diverted; no run
sends one beyond the limit, which ends the connection at once. The backlog
of 2 (100 in the code) holds both clients. `Stream` bounds what is sent, so the
state space is finite without a bound on steps. A read takes all that waits: in the
code at most `CHUNK_SIZE` (8096, `http.d`:331), so the model speaks of clients that have
no more than that under way. A longer input is cut at another place than where
a segment ends, which is what section 5 says of heads in two reads.

Memcache: three calls are a quiet one, another one, and one that reads; one command
of each kind, keys of length 1 and 2, values of length 0 and 3, and moduli 16 and 64
that all sums stay below, as they do in the code.

Collector: two or three cells besides the main thread and the globals, one profile
for each group of objects that barriers, weak tables, finalizers, upvalues or the
string table bring together; a barrier violation needs an old object, a new
one, and one that held it. `SweepMax` 1 (40 in the code) stops the sweep between any
two objects.

Tables: three integer keys and two others that collide in every size, and collide
with the integers in some; `MaxInt` 3 is 26 in the code. Sizes 0 to 4 of both parts
occur, with every step of growth between them.

Calls: two coroutines besides the main thread, so that one can resume the other
and be resumed by it; limits of 3 nested C calls (200), with room for 2 more while an
overflow is handled (25), and 5 CallInfos (20000), which are reached, as is the room
beyond the 3 calls. A stack of `BasicStack` 9 values (40), with `MinStack` 1 slot for a C
function (20) and `ExtraStack` 3 (5), so that the lists of up to three values that
`coroutine.resume` hands over need `lua_checkstack`, and fill the frame to its last
slot; functions have up to `MaxStack` 5 registers, and there are fewer than 7 CallInfos in
all when one is called. A callback stands for `gsub` with a function, as its
library function pushes the function and the capture before `lua_call`.

Compiler: Boolean expressions as the value of a local and as the condition of an
`if`: all of two `and` and `or` with a choice of constants, a local and a call, those of
two with `not` or a comparison, and all of three with `true`, `false` and a local or a
call. Of those of three, the 144 that section 5 says are compiled wrongly are conditions
only, the others values only. In an assignment, a `while`, a `repeat` and a `return`, one
operator, negated or not. Bodies of
up to three statements in every loop, loops in loops, argument and result lists of
every open and closed form, multiple assignments, constructors, arithmetic with
constants to fold. `MaxIndexRK` 2 (255) makes a fourth constant need a register and
`FieldsPerFlush` 2 (50) flushes constructors of three. `f` answers four times;
`MaxSteps` is never reached, which `RunsAsMeant` includes.

Matching: patterns of up to three items (two in front of a back-reference) on
subjects of up to five characters; `LUA_MAXCAPTURES` is 2 (32) so that the third
capture is an error.

`CHECK_DEADLOCK FALSE` is set where the system may stop: after shutdown or a crash
of the loop, when the memcache program makes no more calls, after `lua_close`, when
a Lua program, a call of the string library or the bounds of a model are at their
end.

Descriptors are a symmetry set in `sync` (its properties are about states and steps
and do not name one); the liveness runs use none.

### Fairness

`WF(Server)`: the loop never blocks, since `zmq_poll` and `receiveTimeout` return
at once. `WF(Handle)`: the application thread goes on with its requests.
`WF(Drain(c))`: the kernel delivers what was sent and a client reads it. Nothing is
assumed of clients sending, hanging up or connecting, or of signals. The liveness
runs leave out requests cut in two, bodies and resets: section 5 says what they
lead to. For memcache, a blocking `receive` returns when there is data or the peer
is gone, and the server answers. For the collector, `FairSpec` assumes that while
the program runs for ever it makes the collector go on for ever: `luaC_checkGC` is
in every allocation, and a program that allocates no more makes no garbage that
matters.

## 4. Proofs

All with TLAPS, for every value of the constants that the named assumptions admit.

| Theorem | Property | Hypotheses |
|---|---|---|
| `HttpServerProofs!TypeCorrect` | `TypeOK` | none |
| `HttpServerProofs!PollListCorrect` | `PollListInSync` | none |
| `HttpResponseProofs!ClosingCorrect` | `ClosingIsFinal` | `Mode = "async"` or `OwnAddress` |
| `HttpResponseProofs!ResponsesCorrect` | `ResponsesFramed` | `OwnAddress` |
| `HttpRequestProofs!HandledCorrect` | `HandledAsSent` | `WellFormed`, `WholeRequests` |
| `HttpOrderProofs!OnceCorrect` | `AnsweredOnce` | `WellFormed`, `WholeHeads`, `OwnAddress` |
| `HttpOrderProofs!OrderCorrect` | `AnsweredInOrder` | the same, `Mode = "sync"` |
| `HttpOrderProofs!ServiceCorrect` | `ImplementsService` | `WellFormed`, `WholeHeads`, `OwnAddress` |
| `MemcacheProofs!AllFramed` | `RequestsFramed` | none |
| `MemcacheProofs!ClientTypeCorrect` | `TypeOK` | none |
| `MemcacheProofs!AnswersOwnCorrect` | `AnswersOwn` | none |
| `MemcacheProofs!AssertionsCorrect` | `AssertionsHold` | none |
| `LuaCallProofs!StacksInStepCorrect` | `StacksInStep` | none |
| `LuaCallProofs!LocalsKeptCorrect` | `LocalsKept` | none |
| `LuaCallProofs!StackFitsCorrect` | `StackFits` | none |
| `LuaCallProofs!SuspendedCleanCorrect` | `SuspendedClean` | none |

### The serve loop

* **Types.** `TypeCorrect` holds for any clients, descriptors, requests, modes and
  handler outcomes, and wherever TCP cuts. It rests on the lemmas on a
  connection: `read`, `add`, `write` and `getResponse` take
  connections, requests and responses to such; in particular a request given to
  a processor has a request line, which `getResponse` relies on.
* **Lists.** `PollListInSync` is not inductive: it does not say that the item at hand
  belongs to a connection, that a request is there while it is dispatched, or that
  the two lists are disjoint, and a list that is in step in the middle of a round
  must be so split at the index. `IInv` adds these; `Sync(p, q, j, K)` says that
  the items built so far, the items from index j on and the keys agree. Four lemmas
  (`MergeSame`, `MergeDrop`, `MergeAccept`, `MergeDone`) are the four things the
  loop does with an item; every action is one of them or leaves the lists alone.
* **What a step does to a connection.** The later proofs do not go through the
  actions again. `Effects` says that a step reads a connection (`Reads`), gives it a
  response (`Adds`), writes (`Writes`), closes it (`Closes`), accepts one, or
  leaves the table alone, and each invariant has one step for each of these.
* **Closing.** `ClosingInv`: while a connection is dispatched it is not marked. In
  asynchronous mode no connection is marked when the next message is taken, because
  `receivedData` makes the following round visit every item; without that the list
  could be polled with a marked connection in it, and `add()` would take the mark
  away. In synchronous mode the handler's response goes to the first connection
  with the request's address, which is the one at hand only if addresses differ.
* **Responses.** `NetInv` says where a client is: in the accept queue, in the table
  or closed, and once only. `AddressInv` follows the address and the client's tag
  from the input through `currReq`, the application and the mailbox to the response.
  `FrameInv` says of each connection that what was received, is under way, and
  waits in `writeBuf` is one sequence of whole responses; the property alone
  follows from it but says nothing of the connection's record. `OwnAddress` (no two
  clients have the same remote address) cannot be left out: section 5 has what
  happens then.
* **Head of a request.** `StreamInv`: what waits to be read from a client is a part
  of its stream between two ends of segments. If requests are not cut
  (`WholeRequests`) it starts with a request, and `HeadIn` says what the parser
  finds in it; `HandledInv` carries this over `currReq`, the request at hand and the
  history. `WellFormed` says that a client's stream is a sequence of requests, each
  a line, at least the empty line, and a body only behind a Content-Length line.
  TLC shows that the theorem fails for requests that are cut (section 5).
* **Once, and in turn.** The properties speak of responses, and a response says
  nothing of the requests still to come. `HttpOrderProofs!OrderInv` adds to
  `StreamInv` three things. `FreshInv`: what is still to come of a client's
  stream is behind every request that was dispatched, and a request that waits for
  its body comes after all of those. It rests on `CutLemma`: between two segments a
  new request begins, or a body that was announced goes on, so `read()` never takes
  up a request that it has handed over already. `OnceInv`: a request that was
  dispatched is with the application, or its response is in the mailbox, or was
  given to the connection, and only one of these. `TurnInv` says with `Chain` that
  what a client has received, what is under way and what waits in `writeBuf` are
  in turn: all different, and with `DelegateProcessor` in the order of the requests.
  Bodies may be cut anywhere (`WholeHeads` allows it); heads may not, because then
  TLC finds a request that is handled twice (section 5).
* **The service.** `ServiceCorrect` puts these together: every step of the server maps
  to a step of `HttpService` or to none. Only three kinds of step are seen there
  (`StepIs`). A client that sends asks for its next request, or sends more of the
  last one, which is a stutter (`AskStep`). Handing a request to the processor is
  `Take` (`TakeStep`): `FreshInv` gives the turn, and `CameInv` (a request that waits
  for its body, or is dispatched, is one of which the client has sent something) that
  it was asked for. A client that receives is `Begin` or `Finish` (`ReceiveStep`), as
  `FrameInv` says which half it is, `TurnInv` that there was no such answer before,
  and `OnceInv` that the request was taken. Everything else, reads, rounds, crashes
  and resets included, is a stutter. TLC checks the refinement in the run `sync`; for
  `TidProcessor`, where answers come in any order, the theorem alone shows it.

### The memcache client

* **Framing.** For keys that fit in a `ushort` and bodies that fit in a `uint`, the
  order in which the setters are called leaves `_lastLen` at 0 until the value is
  set, and the length announced is the length sent, for all 27 commands.
* **Own answers and assertions.** `OrderInv` is what makes the order of answers
  enough. `Framing`: the pieces on the socket are headers followed by their bodies.
  `Wire`: what is on the way in either direction belongs to the call that waits, or
  to a quiet command before it if the call reads over such, and nothing is behind
  the answer that ends the call. `Settled`: between calls the wire is empty, but
  for quiet commands. `Later` compares the numbers of what is on the wire with
  those of the calls that have returned. All of it is said of programs that settle
  their quiet commands and whose bodies are not read short (`Disciplined`), as the
  properties are; TLC checks calls in threes, the theorems hold for any number.

### Calls, errors and coroutines of Lua

The four properties are consequences of one inductive invariant, `IInv`: the state is
`Good`, and `Ready` for what `op` says comes next. None of them is inductive, and they
need one another: that a caught error restores `nCcalls` needs that
`luaD_pcall` saved the right number; that needs that the frame it is saved in is the
one `errorJmp` names; and that, when coroutines resume each other, needs the order of
their frames on the C stack.

* **The C stack** (`Shape`). `CallsFrame` says which function may call which. The
  frames of a thread begin with the `lua_resume` that brought it in, below which it
  has none. From that `TopSegment` follows, on which every `longjmp` rests: the
  frames above the innermost `setjmp` belong to the running thread, and no `setjmp`
  of another thread is between.
* **Counting** (`Core`). `Calls`, `Infos`, `Catcher` and `HandlerOf` read from the
  first i frames what a thread's `nCcalls`, CallInfos, `errorJmp` and `errfunc` should
  be. `Runner` says that they are so for the whole stack, and `Saved` that each
  `luaD_pcall` saved what they were below it: a jump then restores them whatever was
  above. `Sleeper` is what a thread without frames is like: new, suspended in a C
  function that a chain of Lua functions called, or dead. `CorePush`, `CorePop`,
  `CoreTop`, `CoreCut`, `CoreLeave` and `CoreEnter` are the things that can happen
  to the C stack; every step is made of these.
* **The stacks of values** (`Fine`). `Nested`: the CallInfos of a thread follow one
  another, each called from above the base of the one below, and above its local if
  that is a Lua function. `Locals` and `Owned` are the property, and `Fits` the room
  the asserts ask for. `Caught`: the stack position that `luaD_pcall` saved is below
  all functions it called, so closing the upvalues from there on leaves the locals
  that live on. `Waits`: a thread that resumed another one has room for the
  message it gets if that dies. A thread that died of an error is `Dead`: its
  CallInfos are within the stack, but its locals may be overwritten (section 5).
* **What is next** (`Ready`). Before a C function runs, its arguments are there and
  `luaD_precall` has left room (`RunReady`); before `luaG_errormsg`, a message is above
  the base and above what a `luaD_pcall` saved (`Raised`). `nCcalls` is below the
  limit with the room for errors, except when the error is on its way: this is how
  the second limit of `luaD_call` is shown to hold. While a C function returns
  (`Returning`), the state was good before it pushed its results, and they are still
  within the stack; what `luaD_poscall` makes of them is a good state again.

Each operator of the model has one lemma: from a good state in which it may be called
it makes a state of the invariant (`PrecallInv`, `LuaDCallInv`, `CReturnInv`,
`LuaDThrowInv`, `LuaResumeInv`, `YieldInv` and so on); `NextInv` puts the actions together
from these. The proof also shows what the properties do not say: that an error never
finds the C stack without a `setjmp` (`HandlersInStep` has it), and that no stack
position, CallInfo or frame is read that is not there. The theorems hold for any
number of coroutines and any sizes and limits that `CallAssumption` admits; the two
bounds of the run, `MaxFrames` and `MaxTotal`, may be as large as one likes.

### Assumptions

`ConstAssumption` (the listener is not a connection's descriptor, and types),
`StreamAssumption` (what clients send are tokens with their own tag),
`LenAssumption`, `MemcacheAssumption` (lengths fit), `CallAssumption` (sizes and limits
are positive, a frame has registers for the calls the model makes, and the first
stack of a thread has room for a C function: `luaconf.h` and `lstate.h` have larger
numbers). TLC evaluates them in every
run. The hypotheses of the table are the theorems' own. The streams and addresses
of the run `sync` satisfy all of them, those of `async_live` the ones of
`OnceCorrect` and `ServiceCorrect`. The run `async` has addresses of their own
too, but a stream with an empty line too many, which `WellFormed` excludes: there
`AnsweredOnce` is checked for clients the theorem does not speak of.

### What is only model-checked

* Liveness (`EveryRequestAnswered`, `HungUpReaped`, `QueuedAccepted`,
  `ShutdownExits`, `CallReturns` and those of Lua): fairness is out of the
  prover's reach.
* The rest of Lua: collector, tables, compiler, virtual machine and string
  matching. Marking, parsing, matching, the chains of a table and the rehash are
  written as recursive operators, with which the prover loses its arithmetic, and
  what they compute needs an induction over data that it cannot do.
* `AnsweredOnce` for streams that are not `WellFormed`, such as one with an empty
  line between two requests, and the refinement of `LuaMap` by `LuaTable`, which
  depends on the chains of the table.

## 5. Observations without a run

Behaviours of the code that were met on the way, and that the passing runs
deliberately exclude or no comment of the repository contradicts.

HTTP and memcache:

* **Reused address.** `TidProcessor` finds the connection of a response by its
  remote address. If a client hangs up and another connection comes from the same
  address and port before the late answer, it gets that answer. The passing runs
  give each client an address of its own (`IdentOf`); with one for both,
  `ResponsesFramed` fails.
* **Pipelined body, asynchronous.** `add()` sets the state to Headers also while
  the body of the next request is awaited; the next chunk is then taken for a head,
  or, if there is no end of headers in it, the request is handed over without its
  body.
* **Error on write.** `send()` returning -1 is used as an unsigned length
  (`WriteError`): the server ends. So does a null response in asynchronous mode
  if there is a connection (`IdleNull`), and a chunk whose first line has no space (`ReadError`).
* **Headers in two reads** (`http.d`:363). The end of the headers is looked for in all
  that was stored, but only the last chunk is parsed. With `TidProcessor` and
  pipelining a request may even be handled twice: what was stored of an earlier
  chunk still has an end of headers, so that a part of a head is parsed as a
  request, and `add()` makes the connection wait for a head again, which then is
  taken from the rest. TLC finds it with heads of four lines that may be cut
  anywhere (`AnsweredOnce`); heads that arrive whole are not exposed to it.
* **A body and the next request in one chunk** (`http.d`:891). A request that comes with
  the head of another one is handled and takes that head for its data; the body
  of the second request comes next, and if there is a third one behind it in the
  chunk, that is handled with a head that starts with the body. `HandledAsSent`
  rests on requests that are not cut (`WholeRequests`), and the run sends such.
* **The handler's close** (`http.d`:982). If the request had `keep-alive`, the handler's
  `close` is the second value of the header and only the first is looked at.
* **Listener lost** (`http.d`:559). A reset in the accept queue makes the constructor of
  the connection throw; the rest of the branch is skipped, and with it the listener.
* **No request has a body** (`http.d`:894 and 946). A request that announces a body is
  not complete when its head was parsed, even if the body came with it: the bytes
  that came are not subtracted. It waits, and what arrives next goes to `onHttpData`,
  which casts the `string[]` of the header to a string, so that `to!ulong` throws
  whatever the length is: the connection is closed. A body above `DIVERT_REQUEST_LEN`
  throws at once if some of it came with the head. With `DelegateProcessor`, then, a
  request with a `Content-Length` above 0 never reaches the handler and is never
  answered; with `TidProcessor` it does if `add()` comes in between (see above). The
  model has all of this, and the runs `sync` and `async` send such requests; what
  is stated of requests that are handled says nothing of bodies.
* A request line without headers leaves its connection in state Body with no
  request, for good; a second request in the same segment becomes the data of the
  first; `num_connections` would be one too low, or wrap, once the listener is lost.
* **Quiet commands** (`memcache.d`:587). A quiet command that failed makes the next
  plain one read the failure as its own answer, and its assertion on the opcode fails;
  the passing run asserts it of programs that settle their quiet commands.
* After a connection breaks, the memcache client keeps `sock` and never connects
  again; `noop`, `stats`, `quit` and `quitq` use a null `sock` when called first.

Lua:

* `lua_setupvalue` (`lapi.c`:1072) takes the barrier on the closure, not on the
  upvalue: with an upvalue shared by two closures, a black upvalue may refer to a
  white value. The profiles let `debug.setupvalue` change only an unshared one.
* `lua_setfenv` (`lapi.c`:745) takes the barrier also when the object is a number or
  another value without an environment.
* The assertion of `luaC_barrierf` that the collector is not in its finalize phase can
  be reached with keys that `tmudata` revived.
* `lua_gc` with `LUA_GCSTEP` (`lapi.c`:925) may loop while a finalizer makes as much
  as the step frees.
* Resuming a coroutine that died of an error pushes a message on its stack without
  cutting it (`resume_error`), and may overwrite a local that a closure still refers
  to through an open upvalue. `LocalsKept` is about the other threads.
* A coroutine starts with `nCcalls` 0 (`ldo.c`:426), so that the limit of the C stack is
  per coroutine; the limit of CallInfos stays raised until a caught error shrinks it;
  resuming a coroutine that itself waits in a resume removes the arguments of that
  resume from its stack.
* `-nil` and `-true` compile to `OP_UNM` with a constant operand, which
  `luaG_checkcode` rejects. The programs of `lua_compile` have none.
* `((1 or false) and true) or false` is 1 and should be `true`, and with a false `x`,
  `((x and 1) or false) and 1` is `x` and should be `false`. `luaK_goiffalse` on `true`
  (`lcode.c`:570) and `luaK_goiftrue` on `false` (542) emit a jump, and `luaK_jump` (54) adds the
  jumps that wait for the next instruction to its list. Some of them carry a value that
  was meant to be dropped there. It takes three operators: an `or` whose first operand
  may be kept, under `and true`, under `or`, or the same with `and`, `false` and `or`
  exchanged; the last operator may also stand on the right. Which branch is taken is
  not affected. `MCLuaExecute!Wrong` names these expressions; over `nil`, `true`, `false`, 1
  and a call, TLC finds that of all expressions of three operators they are the only ones.
* `coroutine.resume` asks for room for the values it gets and no more (`lbaselib.c`:492).
  If they fill the frame, the status that it pushes in front of them
  (`luaB_coresume`) breaks the `api_check` of `lua_pushboolean` (`lapi.c`:45), which is off by
  default. It stays within the stack: `luaD_checkstack` always leaves one slot more.
* `gsub` ignores a capture that is not finished if its replacement is a string that
  does not name it, appends a NUL if the string ends in `%`, and a back-reference to a
  position capture never matches.

## 6. What is not modelled

Inside the modelled parts of http4d and memcache: `zmq_poll` failing, an `Error`
thrown by a handler, the `OwnerTerminated` exception in `onIdle`, use of a pointer
into `httpConns` after removal, the contents of requests and responses, the file a
body is diverted to, and in the memcache client the contents of objects, `cas` and
byte order, and a short read inside the 24 bytes of a header. The `ZmqProcessor` is
a stub in the code.

Inside Lua: memory accounting and the pace of the collector (a step may come
anywhere), and metatables of the base types; floating point keys; hooks,
`lua_cpcall`, and tail calls to C functions; metamethods, line numbers, error
messages and limits on counts in compiler and virtual machine, and the size hints of
`OP_NEWTABLE`. A string that names a field and a global of the same name
are one constant in the source and two in the model, and the generator of a `for`
loop is a C function.

Not modelled at all:

* HTTP client, routers, URIs, AJP codec: sequential code without state of its own;
  what they compute is the text they produce.
* Mongrel2 front end, ZeroMQ wrapper, zmqc: thin layers over libzmq, whose behaviour is
  not in the repository.
* Lua server pages: the template parser and URL decoding work character by character
  on the text of a page; the cache depends on the clock of the file system.
* Lua's lexer, binary chunks and the other libraries: conversions and sequential
  functions over the API.
* Deimos headers and the examples.

## 7. Plan

1. The Lua pages: the template parser as a state machine (termination: state `cr2`
   steps back and stays), the page cache with modification times.
2. `Mongrel2` with the ZeroMQ wrapper: its receive loop, `running`, the parser of
   netstrings and its failures.
3. `OnceCorrect` and `ServiceCorrect` for clients that send an empty line too many between requests.
