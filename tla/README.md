# A verification project for http-server-cpp

TLA+ models of the C++ HTTP server library in `src/` (namespace `http`), the TLC
runs that check them on small instances, and TLAPS proofs of what matters most
for every instance. `PROJECT.json` maps each definition to the lines it models.

## 1. Inventory

| Component | State | Operations | Talks to |
|---|---|---|---|
| **`Server`** (`server.cc`, `server.h`) | `sockfd_`, `running_`, `client_list_`, `wsRoutes`, the router, the local `closedSockets` of a turn | `run()`, `handleRequests()`, `handleListenSocket()`, `handleClientSocket()`, `performRequest()`, `sendResponse()`, `stop()` | the kernel's sockets; handlers by callback; `stop()` from another thread or a signal handler through `running_` and the descriptors |
| **`SSLServer`** (`sslserver.h`) | `ssl_clients_` (descriptor to `SSL*` and handshake flag), `ssl_ctx_`, `running_` | the same loop, `SSL_accept()` over several turns, `closeClient()`, `stop()` | OpenSSL; handlers |
| **`Worker`**, **`TaskManager`** (`worker.h`, `Server::repeatEvery`) | a table from ids to `std::jthread`, a mutex | `enqueue()`, `repeatEvery()`, destruction | handlers start tasks; tasks run on threads of their own |
| **Server-side `WebSocket`** (`websocket.h/.cc`) | a copy of a descriptor | `send()`, `read()`, `close()`, `isOpen()` | the loop's descriptors, which it closes behind the loop's back |
| **`Router`** (`router.h/.cc`) | a trie | `registerHandler()`, `match()` | `handleRoute()` |
| **`HttpClient`, `HttpsClient`, `Client`** (`client.h/.cc`) | a socket, an `SSL*` | `get/post/put/del`, `sendRequest()`, `readResponse()`, parsers | a server |
| **`WebSocketClient`** (`websocketclient.h`) | a socket | connect, handshake, send, read | a server |
| **`Request`, `Response`** | the parsed or built message | parse one `recv()`, `build()` | handlers, router |
| **`Logger`** (`logger.h`) | level, format, an output file under a mutex | `log()`, `setOutputFile()` ... | every component |
| **`utils`** | none | `getEnv`, `isSocketAlive`, `urlDecode`, `parseHexSize`, hashes, dates | every component |

### What is hard, and what makes each component correct

* **The event loop** keeps its own list of the sockets it owns, while the owner
  of a number changes under it: `accept()` hands the lowest free number out
  again in the same batch in which it was closed, WebSocket handlers and Close
  frames close numbers without telling the loop, and `stop()` closes them from
  another thread. Correct: no open socket is ever missing from the list; an
  event is handled for the connection it was reported for; each request is
  answered once, in order, on its own connection; only connections that ended
  are closed; whatever is sent is read; ended connections are closed; `stop()`
  ends the loop.
* **The TLS loop** has the same numbers as keys of a table of sessions, so that
  a session, its handshake flag and its socket may come apart; a session has
  data that `poll()` does not see; `stop()` in a signal handler frees sessions
  under the loop. Correct: each socket is served with its own live session after
  its own handshake; a session is freed once and not forgotten.
* **Tasks** are replaced under a mutex that is held while a thread is joined.
  Correct: two tasks of an id never run at once, none is lost, none outlives its
  table, calls return, destruction ends.
* **The router**'s matching never goes back, so registering a route may take
  requests from another, and a parameter's node has one name for all its routes.
  Correct: the most specific route that fits answers, a miss or a loss is due to
  shadowing alone, a route's handler finds its parameters.
* **The clients** guess the end of a response from a short `recv()` and free the
  `SSL*` on failure paths and again in the destructor. Correct: a response is cut
  or lost for no other reason; every socket and session is released once; a call
  returns.
* **The stream of a connection** is cut where the network likes, and one `recv()`
  is taken for one request or frame. Correct: a client that waits for its answers
  gets the right ones; a message that comes alone is served for what it is.
* **Feeds** are tasks that keep a copy of a `Response` or `WebSocket` and write to
  its descriptor number beside the loop, also when it is another's by then.
  Correct: a stream ends when its client is gone, its last subscriber is fed,
  nobody gets another's events but by inheriting a number.
* **`WebSocketClient`** keeps a number that it has closed. Correct: each connection
  has one user, who will close it, and loses nothing of what is sent to it.
* **The codecs** trust lengths on the wire. Correct: what one side encodes is what
  the other decodes, or it is refused.
* **The logger** reads outside its mutex what other threads change inside it.
  Correct: its settings agree under the mutex, a line that nobody disturbs is in
  the file that was open.

Every hazard is listed in `PROJECT.json` at the line where it bites, with the
properties that would catch it, or a note why none does.

## 2. Plan

| Order | Modules | Status |
|---|---|---|
| 1 | `EventLoop`, its abstract specification `ConnService`, `MCEventLoop`, `EventLoopProofs` | done |
| 2 | `Tasks`, its abstract specification `TaskSlots`, `MCTasks`, `TasksProofs` | done |
| 3 | `SslLoop`, its abstract specification `TlsService`, `MCSslLoop`, `SslLoopProofs` | done |
| 4 | `Router`, `MCRouter`, `RouterProofs`: the trie, against a reference matcher over the routes registered | done |
| 5 | `Client`, `MCClient`, `ClientProofs`: reading a segmented response; the life of sockets and sessions | done |
| 6 | `Logger`, `MCLogger`, `LoggerProofs` | done |
| 7 | `Feeds`, `MCFeeds`: composes the tasks (as `TaskSlots` promises them) with `EventLoop`; proofs in `EventLoopProofs` | done |
| 8 | `Wire`, `MCWire`, `WireProofs`: one connection's stream, cut and joined | done |
| 9 | `WsClient`, `MCWsClient`, `WsClientProofs` | done |
| 10 | `Framing`: the bytes of a frame's header; proofs in `WireProofs` | done |
| 11 | `Codecs`, `MCCodecs`: the encodings, as operators on sequences | done; recursive, so no proofs |

Every safety property of a passing run is also a theorem, but those of
`Codecs`, of which only the frames are proved (section 5).

Each run asks a question of its own. Where the code fails a claim in a way that
the condition of another property already says, there is no run for it; section 6
names those.

## 3. The modules

### EventLoop

| Model | Code |
|---|---|
| `owner[fd]`, `phase[c]`, `backlog`, `lsn` | the kernel's descriptor table, connections, accept queue and listen socket |
| `peer`, `sent`, `stalled` | a client: which side it has ended, the requests it has sent, whether it reads |
| `clientList`, `closedSockets`, `running`, `wsRoutes` | `client_list_`, the local `closedSockets`, `running_`, the `sockfd` of each of `wsRoutes` |
| `revents`, `lrev` | the `pollfd`s of this turn that the loop has not come to |
| `pc`, `sd`, `rd` | where the loop is; in `sendResponse()`, the descriptor and the connection it was when the request was read |
| `taken`, `out`, `upgraded`, `dispatched` | history: requests read, responses sent (by the index of their request), upgrades, routes whose handler has run |
| `stopPc`, `stopWs` | where the call of `stop()` is; the routes whose socket it has not closed yet |

A turn is `CheckRunning`, `Poll` (with `PollWake`, `PollExpire`,
`PollInterrupted` when it sleeps), `Accept`* `ListenDone`, one of
`HandleClient`'s actions per reported descriptor in ascending order (the order
of the `std::set`), and `EraseClosed`. `ClientFailed`, `RecvFailed`, `RecvEof`
and `RecvAgain` are the branches of `handleClientSocket()`; `PerformClose`,
`PerformFrame`, `PerformUpgrade` and `PerformHttp` those of `performRequest()`;
`HandshakeSent/Failed` and `ResponseSent/Failed` the outcomes of
`sendResponse()`, in which the loop stays while `send()` returns `EAGAIN`.
A frame goes to the first route that holds the descriptor it came from
(`RouteOf`, which is `getWsRouteBySocketId()`), and nothing resets the number of
a route: a subscriber that is gone leaves it behind (`LeftBehind`).
`StopBegin` .. `StopFlag` are `stop()`'s closes one by one, then its flag.

`ConnService` is the promise: every connection is served by itself, with no
descriptors and no loop. The refinement mapping hides everything but the
connection and defines `owed[c] == rd = c`.

### Tasks

`cpc`/`cid` say where each actor is in `enqueue()` or `repeatEvery()` and for
which id; `holder` the two mutexes; `entry` the two tables (`Managed` ids are
the `TaskManager`'s); `th`, `of`, `stop` each `jthread`'s place in its loop, its
id and its stop token; `closing`, `closeId` the destructors. `Enter`, `Lock`,
`Join`, `JoinSelf`, `Spawn`, `SpawnFails` are a call; `CheckStop`, `Return`,
`Wake`, `WakeStopped` a task; `CloseBegin` .. `CloseDone` destruction. A task's
function may itself call (`Nested`), as a handler given to `repeatEvery()` can,
and nothing keeps it from calling a table whose destruction has begun (`Dying`):
that call and the destructor, which takes no mutex, use the table at once, or
the table is gone. Such a data race is `Race`, after which nothing is known of
the process (`process = "undefined"`).
`TaskSlots` is the promise: an id is a slot for at most one live task, until a
task that still runs calls into a closed slot (`Forfeit`, which makes it `void`).

### SslLoop

`table` is `ssl_clients_`; `session[c]` the life of the `SSL` object made for
connection `c`; `hello`/`seen` the client's handshake flights sent and taken;
`taken`/`rest` the records read, and whether half of a long record is still in
the session. A session is `live`, `closed` by `WebSocket::close()` (which frees it,
while the entry of `ssl_clients_` goes on to point to it), `freed` by
`closeClient()`, or freed `twice`. `cur` is the descriptor and session
`handleClientSocket()` has in hand. The handshake's outcomes are `ShakeDone`,
`ShakeMore`, `ShakeFails`; a read's `ReadNothing`, `ReadFails`, `PerformClose`,
`PerformFrame`, `PerformHttp`, of which the rest of a record may look like any; a
write's `Switch`, `SwitchFails` (the 101), `Respond` and `Killed`, and until it
ends the loop stays at `handshake` or `respond`, for as long as the client has
stopped reading (`Stall` .. `Drain`). `Sweep` is the end of the turn. `Stop`
happens in one step between any two steps of the loop (see below): also between
the test of `running_` and `BuildPollfds`, whose list is then the number -1 alone
(`asleep`), and while the handler has a session in hand, which is then used after
it was freed (`UseAfterFree`).

`TlsService` is the promise to a connection, with no descriptors, table or loop: its
requests are taken in order and one at a time, after its own handshake; it is closed
after its peer has ended it and, if in order, all it sent is taken, or by a request
that may close it (`MayClose`: a Close frame, one that may reach a WebSocket handler,
or one of two parts, the rest of which may look like either), or
with all others by `stop()`. `Service` is the mapping: `hello` and `shaken` are all
flights of the handshake sent and taken, `down` is `stopped`. Unlike `ConnService` it
is implemented with WebSockets too, because the TLS loop looks at `POLLIN` alone.

### Router

`trie` maps each node to its parameter's name and its handlers by method; a node
is named by the edges from the root, so that the children of a `Node`
(`static_children` and `param_child`) are the nodes one edge longer. A
handler is the number of the call of `registerHandler()` that gave it.
`Renamed` and `PutHandler` are what a registration does to the nodes it passes
and to the last one (`try_emplace()`: a handler that is there stays). `Walk` is
`match()`, which takes the static child if there is one, else the parameter's,
and never goes back. `routes` is the reference: the calls made so far, whose
patterns `Fitting` compares with a request without any trie.

### Client

`pc` says where a call of `get()` .. `del()` is in `sendRequest()` and
`readResponse()`; `socket[i]`, `session[i]` are the life of the socket and of the
`SSL` object made in the `i`-th call of one client object, `ssl` is the pointer
`ssl_`. `ConnectFails`, `NewFails`, `HandshakeFails`, `SendFails`, `ReadFails`,
`ReadFailsTls` are the failure paths one by one: they differ in what they
release, which is what the module is about. `pc = "undefined"` is a session
freed twice. `Deliver` and `End` are the server. `Read` is one turn of the read
loop with its "heuristic end-of-stream", `Parses` what `parseResponse()` and
`parseChunkedBody()` make of what was read, `Destroy` the destructor.

### Logger

One step is one access to something that threads share: reading the level, the
flag or the stream's state, inserting a line, flushing, and, under `log_mutex_`,
opening, closing and setting. A use of the stream begins and ends (`Insert` ..
`InsertDone`, `FlushBegin` .. `FlushDone`, `CloseBegin` .. `CloseDone`,
`OpenBegin` .. `OpenDone`), and of uses that overlap nothing is promised: a line
may be whole, torn, doubled or missing. `began`, `spans`, `disturbed`, `mixed`
are history, to say which lines were undisturbed.

### Feeds

`Feeds` extends `EventLoop` with tasks that write (`feeds`), as the `/stream`
handler of `examples/server` starts them with either of the two tables:
`Subscribe` is a request whose handler calls `repeatEvery()`, `Replaced` the
table's replacement of a task (what `TaskSlots` promises), `Write` one call of
the task: `WroteSome` and `Wrote` are `send()`'s outcomes, `WroteNothing` a number
that is closed or a client that does not read, and `Ends` what the table does
about a failure. Every step of `EventLoop` is a step of `Feeds`.

### Wire

A message is a sequence of parts (request line, headers, body; first byte and
rest of a frame), and `PerformRequest(n)` is `performRequest()` with the next `n`
parts of the stream: `Looks` is what `getWebSocketFrame()` makes of the first
byte, `Parses` what `Request` makes of the bytes (a request, an upgrade, or nothing
with a method; a body or the rest of a frame that comes first, `Opaque`, may be
each), `Body` what it takes for the body. `CloseFrame`, `DispatchWebSocket`,
`Handshake`, `HandleRoute`, `NoRequest` are its branches; the last one answers if
the server has pre- or post-routing handlers that write whatever the request
(`hooks`), since they run for every `recv()`. An answer to bytes that are no request
of the client's is `Stray`.

### WsClient

Objects (`life`, `fd`, `connected`), each on a thread of its own (`call`), and the
process's sockets (`sock`), whose numbers the kernel hands out lowest first.
`HandshakeSends`/`HandshakeReads`, `SendMessage`, `Receive`/`ReceiveReads`,
`ReadsNothing`, `Disconnect`, `Destroy` are the calls, `Reply`, `Push`, `End` the
servers. `got` and `skipped` count the pieces of a server's stream.

### Framing

The header of a frame in bytes, as `WebSocketClient::sendMessage()` (`ClientHeader`)
and `WebSocket::send()` (`ServerHeader`) write it for a payload of `n` bytes, or a
client that masks; and `readFrame()` of a header when `size` bytes of the frame are
there. A length is joined byte by byte (`Join`) and added to the header's modulo
`SizeLimit`, the `2^w` of `size_t`. The payload is only a length.

### Codecs

Operators on sequences of characters, named as the functions they stand for:
`parseHexSize`, `parseChunkedBody` (modulo `SizeLimit`), `base64_encode`,
`urlDecode`, `parseQueryString`, `getEnv`, `createClient` (an `HttpClient` for
every protocol), `Format`, and `build` with the calls of a `Response`. `MCCodecs`
grows the inputs and holds the references they are compared with. Chunk sizes are
written in full or with `2^w` added (`WrappedChunk`), which `parseHexSize()` drops.

### Abstractions

* In `Wire` a cut falls between parts. A cut inside the headers is taken for one
  before them, as no empty line has come with it; one inside a body or a payload
  for one before it, what follows being `Opaque` all the same. The payload of a
  frame, unmasking, what a handler reads of bytes out of the middle of a message,
  and the body of a request that was found in a body are left out.
* In `SslLoop` `closeClient()`, the end of a turn and `stop()` are one step each;
  `SSL_accept()` never wants to write (its flights fit the socket's buffer); and
  `errno` is not followed, so that the retries of a write which failed for another
  reason than `EAGAIN`, after an earlier `EAGAIN`, are left out.
* In `Codecs` a chunk whose size is so large that the *end* of the chunk wraps is
  left out: `parseChunkedBody()` may then read the same chunk for ever.
* In `Feeds` a write takes one step; the loop and the tasks share no lock, so the
  order of whole writes is the only interleaving. (Two threads writing one
  response each on one socket may also mix their bytes when the buffer is full;
  that is left out.)
* In `Logger` a read of the flag or the stream's state is atomic. Timestamps
  (`localtime()`'s shared buffer), the order of lines on the console, and the
  text are left out.
* In `Codecs` a character is a symbol; hashes, dates, MIME types are left out.
* In `Client` bytes are counted in units: one for the headers, two for a chunk
  (its size, its data), one for the last chunk. A timeout of the socket
  (`SO_RCVTIMEO`) may come at any moment at which there is nothing to read; in
  `HttpsClient` it is `WANT_READ`, and the loop reads again. Left out: `socket()`
  failing (nothing has been done by then), certificates, `SIGPIPE` in the client's
  own `send()`. URLs and ports (`ClientFactory`) are in `Codecs`.
* In `Router` the parts of a path are what `splitPath()` sees; the query string
  is left out. Nothing is registered while requests are served, as in every
  caller, so registration and matching have no interleavings.
* In `EventLoop` a request is what one `recv()` returns (one or two `SSL_read()`s
  of a record in `SslLoop`); `Wire` is about what happens when it is not. A
  client's requests are given a kind: what a handler does with one is a matter of its kind (`get`: it writes a body; `quiet`: it writes
  nothing). A client speaks HTTP until it has the 101 and WebSocket after it.
* The plain server is the build without `HTTP_OPENSSL_SUPPORT`; with it a
  `WebSocket` of the plain server carries a null `SSL*`.
* Left out: `poll()` failing with anything but `EINTR` (`break`), exceptions out
  of handlers, the stack that the recursion of `sendResponse()` takes, partial
  writes (they end in one delivery or in a failure, so that no property sees a wrong
  offset into the response), HTTP text, logging.
  `sendResponse()` passes `MSG_NOSIGNAL`; `WebSocket::send()` and `SSL_write()` do
  not, and nothing ignores `SIGPIPE`: a write to a connection that is gone may end
  the process (`KilledBySend`, `KilledBySend101`, `Killed`).
* `poll()` in the kernel keeps a reference to a file another thread closes:
  closing a descriptor does not wake it (`Wakes`). In the model a listen socket
  closed under a sleeping `poll()` accepts nobody.
* In signal mode the handler suspends the loop's thread. The plain server's
  `stop()` is taken apart into its closes in both modes. `SSLServer::stop()` is
  one step, because nothing but clients runs meanwhile, and their steps commute
  with it; by another thread it is a data race on `ssl_clients_` and is not
  modelled. `examples/rest/src/main.cc:16` calls it from a SIGINT handler.
* `stop()` before `run()` has set `running_` is overwritten by it. The constant
  `StopEarly` admits that; the tests' callers wait for `is_running()` first, and
  so do the runs.
* In `Tasks` time is left out: an interval ends at some moment.

## 4. The runs

Bounds are constants of the modules, named there and set in the `.cfg`s.

| Run | Question | Bounds |
|---|---|---|
| `EventLoop_plain` | Without WebSocket routes, with `stop()` in a signal handler at any moment: is `client_list_` exactly the open sockets between turns, are events fresh, requests answered once and in order, does the loop implement `ConnService`, is everything read if clients read in the end, and does `stop()` end the loop? Yes. | 2 clients, 2 requests each, 2 descriptors, one client may stop reading for a while |
| `EventLoop_ws` | With WebSocket routes whose handlers send, close, or call `isOpen()`, and `stop()` by another thread: do open sockets stay listed, are ended connections closed and closed descriptors delisted in the end? Yes. Does the route of a path's only subscriber hold its descriptor and come first with it, and does no frame go to another path's handler? Yes, unless a subscriber that is gone has left the number in that other route. | 2 clients on **one** descriptor, so that each reuse happens; 2 WebSocket paths; one client sends 2 requests, the other one |
| `Tasks_calls` | Callers, tasks that call, also while their table is destroyed, failing thread creation, destruction: is none lost from its table, do calls return unless tasks call, does destruction end, is `TaskSlots` implemented, until a task that still runs calls into a dying table? Yes. | 2 callers, 2 ids (one in each table), 4 threads: enough for a replacement of a replacement in both tables |
| `Ssl_loop` | TLS, WebSockets that handlers and Close frames close, `stop()` at any point: has each socket its own live session, is none lost, used after it was freed, or freed twice, is `TlsService` implemented, and, if clients read in the end, is what arrives read, what is left of a record read once anything follows it, and are ended connections closed? Yes, with the exceptions the properties name. | 2 clients on **one** descriptor, one client with 2 records, upgrades of 2 parts and others of 1, one client may stop reading for a while |
| `Router_routes` | After any three registrations: does every request get the most specific route it fits, is one missed only where another route shadows it, and are a route's parameters bound unless they are renamed? Yes. | 2 methods, 2 texts, 2 names, paths of up to 2 parts (empty ones too), every path as a request |
| `Client_calls` | HTTP and HTTPS clients against a server that sends, ends and breaks as it likes, any step failing: are responses cut or lost only where the read heuristic explains it, are sockets and sessions released and freed once, do calls return? Yes, with the exceptions the properties name. | buffer of 3 units, responses of up to 7 (two full buffers and a rest), 3 calls of one object |
| `Client_free` | Is no session freed twice? **No**: a failed handshake frees it, and `closeSocket()` again. | `https`, 2 calls |
| `Logger_files` | Threads that log, change the level and the file: are undisturbed lines kept, and is each line in a file that was open during its call? Yes. | 3 threads, 2 files, 2 levels, 2 lines, 2 changes |
| `Feeds_streams` | Event streams whose clients read slowly, leave, and whose numbers are handed out again, with either table: do streams of lost clients end, is the last subscriber fed, does nobody get another's events but by inheriting a number? Yes. | 2 clients, one stream each, 2 descriptors, no `stop()` |
| `Wire_segments` | Requests and frames cut and joined in every way, with and without routing handlers that write: are a client's answers its own when it waits for each, up to the first stray one, and is a message that comes alone served for what it is? Yes. | 3 messages of any kinds, a buffer of 6 parts (one and a half messages) |
| `WsClient_calls` | Objects that share numbers, with servers that switch, refuse, push, close and reset: has each connection one user, and is what is received without a gap after the handshake? Yes. | 3 objects, 2 descriptors, one piece after the greeting |
| `Codecs_inputs` | Is what one side encodes what the other decodes, or refused, and is what a program says what is done? Yes, within the conditions the references state. | inputs of up to 6 symbols; `size_t` of 22 bits, so that sizes of 6 hexadecimal digits wrap |

Why these bounds are enough: each hazard of the loops needs at most two
connections on one number (the old and the new owner), one batch with an event
for each, and one request before and one after. A third client adds only a longer
queue. A frame goes astray when its sender has a number that a lower route still holds,
which one descriptor and two paths show; two subscribers at once are the theorem's
(`SoleSubscriberStaysRouted`). The rest of a record may look like any kind, so
which record is long does not matter. For tasks, two callers and a task that calls are three parties at one
mutex, and a table has no relation between ids but the mutex. Two routes are the
shadowing and the shadowed one, a third may be refused or of another method; two
parts are a place where they part and one after it. A client's pointer `ssl_`
relates one call to the next at most, and a third call shows what the second left.
A logger's line is spoiled by one other use of the stream, and a third thread may
hold the mutex meanwhile. On the wire a cut or a join concerns two messages, and
the third is served after it. Two objects can fight for a number that a third has
left. The codecs' boundaries (the length codes 125/126/65535, the width of
`size_t`, one symbol too few or too many) all lie within the inputs.

Deadlock is not checked, because each system may really stop: the loop returns
or the process exits, clients have sent all their bound allows, a blocked
`poll()` or `recv()` waits for nobody, a nested call may wait for ever, an object
has made all the calls the bound allows, a router has all its routes. Where
something must go on, a liveness property says so instead.

What holds in one server and not in the other: with WebSocket routes the plain
server takes `POLLNVAL` of a stale entry for a failure of the number's *new*
owner and closes it, so `ListMatchesSockets` and what `ConnService` promises are
claimed there only without WebSocket routes. The TLS server looks at `POLLIN` alone,
and `TlsService` holds with WebSockets. That each request is answered once and in
order (`AnsweredOnceInOrder`) holds in the plain server with them as well.
What `SessionsKept` leaves out is the same Close frame, or the rest of a record that
looks like one: the session of the closed socket is lost when the number is handed
out again.

### Fairness

* `LoopSpec`: weak fairness of the loop's thread and of the thread in `stop()`:
  both are threads of the operating system that never wait for a lock.
* `FairSpec` adds that a client that does not read does so in the end. That is
  not the server's to promise: without it `sendResponse()` never returns to the
  loop and nobody else is served, so `EveryRequestRead` needs it.
* `SslLoop!FairSpec`: the loop's thread runs, and a client that has stopped reading
  reads again in the end, for the same reason: the loop repeats a write that would
  block (`sslserver.h:366-370`) and serves nobody else meanwhile, so without it
  `DataRead` and `EndedConnectionsClosed` fail for all the others.
* `PollExpire` is part of the loop's fairness only when `POLL_TIMEOUT` is set.
* `Tasks!FairSpec`: each thread is scheduled, so a task's function returns and a
  sleep ends. Taking a mutex is weakly fair only: no property needs more, since
  a run has finitely many calls (the bound on `Threads`).
* `Client!FairSpec`: the thread in a call runs, and the timeouts of its socket
  expire. The server is obliged to nothing.
* `Feeds!FeedsSpec`: the loop and each task are scheduled, and a client that does
  not read does so in the end, as in `FairSpec`. (Weak fairness of each task, by
  its descriptor, is all a thread that never waits for a lock needs.)
* Clients of the servers are never obliged to send, to end, or to finish a handshake.
* `Logger`, `Wire`, `WsClient`, `Codecs` and `Router` state no liveness: the first
  three wait for others that owe them nothing, and the others do not wait.

## 5. What is proved

All theorems hold for every value of the constants that satisfies the named
`ASSUME`s of the module (`NoneAssumption`, `FdsAssumption`, `PathsAssumption`,
`KindsAssumption`, `OpsAssumption`, `BoundAssumption`, `ModeAssumption`;
`ActorsAssumption`, `IdsAssumption`; `ClientAssumption`; `SslAssumption`;
`LoggerAssumption`; `TablesAssumption`; those of `Router`, `Wire`, `Framing` and
`WsClient`): any number of connections,
descriptors, routes, requests, callers, threads, ids, calls, files and objects,
any size of buffer and responses, any cutting of a stream. TLC evaluates the assumptions in
every run. The `Plain` theorems assume `WsPaths = {}` besides, which is what they
are about.

| Theorem | Statement |
|---|---|
| `TypeCorrect` | `Spec => []TypeOK` |
| `OpenSocketsStayListed` | `Spec => []OpenSocketsListed`, WebSockets and `stop()` included |
| `PlainListMatches`, `PlainEventsFresh`, `PlainOnlyEndedClosed` | the server without WebSocket routes: `ListMatchesSockets`, `EventsFresh`, `OnlyEndedClosed` |
| `SoleSubscriberStaysRouted` | `Spec => []SoleSubscriberRouted`: a route points at its only subscriber, and is the one found for it, unless a lower route holds a number left behind |
| `StraysOnlyByLeftNumbers` | `Spec => []DispatchedToOwnRoute`: frames go to another path's handler by a number left behind only |
| `PlainImplementsService` | the server without WebSocket routes implements `ConnService` |
| `AlwaysAnsweredOnceInOrder` | `Spec => []AnsweredOnceInOrder`, with any routes, WebSockets and `stop()` |
| `FeedsRunTheServer` | a server with feeds is the server of `EventLoop`: `FeedsSpec => Spec` |
| `EventsAlwaysOfOwnStream` | the feeds: the action property `EventsOfOwnStream` |
| `NoTwoTasks`, `NoTaskLost`, `NoTaskOutlives` | `OneTaskPerId`, `LiveTasksListed`, `NoTaskOutlivesTables` |
| `TablesImplementSlots` | the tables implement `TaskSlots`, a promise void only by a running task's call on a dying table |
| `SessionAlwaysOfSocket`, `NeverUsedAfterFree`, `HandshakeAlwaysFirst`, `SessionsAlwaysKept` | the TLS server: `SessionOfSocket`, `NoUseAfterFree`, `HandshakeFirst`, `SessionsKept` |
| `TlsImplementsService` | the TLS server implements `TlsService`, WebSockets and `stop()` included |
| `SocketsAlwaysReleased`, `SessionsAlwaysReleased`, `AllAlwaysReleased`, `FreedTwiceOnlyOnFailure` | the clients: `SocketsReleased`, `SessionsReleased`, both, `FreedOnceUnlessFailed` |
| `CutAlwaysAfterShortRead`, `WholeAlwaysReturned` | what the clients read: `CutOnlyAfterShortRead`, `WholeReturned` |
| `TrieIsOfItsRoutes` | the router: its trie is what the registrations so far have made (`RouterInv`) |
| `BestRouteAlwaysAnswers`, `MissesAlwaysShadowed`, `ParamsAlwaysBoundUnlessRenamed` | the router: `BestRouteAnswers`, `MissesAreShadowed`, `ParamsBoundUnlessRenamed` |
| `RegistrationAlwaysShadows` | the router: the action property `RegistrationShadowsOnly` |
| `SettingsAlwaysAgree`, `StreamSpoiledOnlyByOverlap` | the logger: `SettingsAgree`, `SpoiledOnlyByOverlap` |
| `LinesAlwaysWhereOpen`, `UndisturbedLinesAlwaysKept` | the logger's files: `LinesWhereOpen`, `UndisturbedLinesKept` |
| `LockstepAlwaysMatched`, `OwnRecvAlwaysServed` | the stream of a connection: `LockstepMatched`, `OwnRecvServed` |
| `ClientFramesRead`, `ServerFramesRead` | a frame of any length that 64 bits can hold and a `size_t` can count (of the server: of two bytes) is read to that length once all of it is there, and is refused wherever it is cut |
| `OneUserAlways`, `AlwaysReceivedWithoutGap` | the WebSocket clients: `OneUserPerConnection`, `ReceivedWithoutGap` |
| `TypeCorrect` (of `WsClientProofs`) | the WebSocket clients: `TypeOK` |

The argument for the loop has four layers, each inductive relative to the ones
before it:

1. `TypeInv`: `TypeOK` and `InFlight`: no more requests are taken than were sent,
   and in the two states of `sendResponse()` `sd`, `rd` name a request in flight.
2. `ListInv`: every open socket is in `clientList`, and what is in
   `closedSockets` is closed; `closedSockets` is empty while descriptors are
   handed out. `OpenSocketsListed` alone is not inductive: `EraseClosed` would
   remove an open socket. While the clients are handled, each step only closes
   (`OnlyCloses`), and so do the steps of `stop()`.
3. `SocketInv`: a connection is behind at most one descriptor, and accepted when
   it is; the backlog holds each queued connection once.
4. `PlainInv` (no WebSocket routes): a listed descriptor is open or reported in
   `closedSockets`, no event is a `POLLNVAL`, and events are fresh.

`OwedInv` adds for the refinement that nothing is owed between requests, and that
the connection being answered still has the descriptor the answer goes to; each
step of the loop is then a step of `ConnService` or a stutter.

`AnswerInv` is `AnsweredOnceInOrder` with what it takes to be kept when an answer
is appended, connection by connection (`Told`): while the last request taken is being
answered (`InHand`), every answer so far is of an earlier one, except that a handshake
has its 101 already when its handler speaks (`Twice`). It rests on `InHandInv`
(between requests nobody is being answered, and the descriptor an answer goes to is
still the connection's own unless `stop()` has closed it) and on `Lasts`:
what was sent stays sent, who is upgraded, reset or cut by `stop()` stays so, so that
an excuse for a missing answer (`Excused`) is never withdrawn.

`RouteInv` is what `SoleSubscriberRouted` and `DispatchedToOwnRoute` rest on: a
connection's own handshake is the only step that gives a route to it, because it asks
for one upgrade at most (`UpgradeInv`), and one that `accept()` has still to return has
asked for none (`NewPlain`); so the route of a sole subscriber holds its descriptor
(`SoleSubscriberHeld`), and a number in any route is a subscriber's own or one it has
left behind (`RoutesTaken`), which is all that can come before it in the search. It
holds with any routes, Close frames and `stop()`.

The feeds are proved about in the same module. `FeedsStep` shows that a task's write
is to the server a stutter, or a client that stops reading, so that the invariants of
the loop hold beside any feeds. `FeedInv` adds that a feed's connection still has its
descriptor or is gone, and that who has asked for a stream has no feed of another's
on its descriptor. `EventsOfOwnStream` looks at the steps that write only; what keeps
it true is the replacement in `Subscribe` and that a number changes hands through
`close()` and `accept()` alone (`NextKeeps`).

For tasks, `TaskInv` is `TypeOK`, `LiveTasksListed`, `CallInv` (who is past `lock`
holds the mutex of its id's table, and at `spawn` the thread it found there is
over) and `CloseInv` (destruction overlaps no call, and is done only when the
tables are empty). `OneTaskPerId` follows from `LiveTasksListed`: two live tasks
of an id would be the same entry. A nested call that meets a dying table ends
there, in `Race`; what the proof shows of it is that the caller is a task that
still runs, because a caller from outside is waited for by `CloseBegin`
and `CloseManager` and keeps out after.

For the TLS server, `SslInv` relates the three tables that change at different
moments. `TableInv`: no session has two entries, an open socket's entry has its
own live session, and what is in the queue of `accept()` has no entry yet.
`TurnInv`: until `stop()`, what is reported, marked dead, or in hand is open, and
only one of the three; without it `Sweep` might free a session again that the
handler has freed, or one that is still in hand. `StopInv`: after `stop()` nothing
is open, and the session in hand is freed (which is why the loop's next use of
it is undefined). `FreeInv`, for `NoUseAfterFree`: a session that a handler has
closed, and a handshake that a handler is about to get, are of a record that may
reach a handler, and it is the last one taken, because a closed socket is read no
more; what is left of a record is of the last one too. Only such a session is freed
twice, and only by `stop()`. `HandshakeInv`: a flag is true of its own
entry's session. `KeptInv`: a live session is behind its own open socket, or a
Close frame was the last thing read for it. `ServedInv` is what the refinement of
`TlsService` needs besides, because the promise speaks of connections and the loop of
descriptors: a connection is accepted exactly if it has a descriptor; who has sent a
record has sent all of its handshake; who is marked dead until the end of the turn has
ended, and was read to the end if it did so in order (so `Sweep` may close it); and
what is being answered is a record that was taken.

For the clients, `ClientInv` is `TypeOK`, `SocketInv` (a socket is open in its
own call, or its read has failed), `SessionInv` and `FreedOnceUnlessFailed`.
`SessionInv` says where the pointer `ssl_` may point between the steps of a call:
to the live session of this call once `SSL_new()` has made it; else to nothing, to
a session freed when sending failed (whose pointer stays), or to one a failed read
has left. Without it nothing tells which of two `SSL_free()`s is the second.
`BytesInv` says that a call still reading has read full buffers only; so what is left
modulo the buffer's size when it returns is the length of its last read
(`ShortReadShows`), which is what the end of a response is guessed from.

For the router, `RouterInv` describes the whole trie by the registrations made: its
nodes are the places the patterns lead through and no others (`Grown`), closed under
prefixes (`Nodes`); a handler at a node is the first call that ended there with its
method (`Handled`); a parameter's node has the name given by the last call through it
(`Named`). It is the strengthening all four properties share, none of which says what
the trie holds where no request goes. `StepsDefine` shows by induction on sets of
positions what the recursive functions of `splitPath()` and `match()` compute one
position at a time (`SplitParts`, `WalkUpto`), and `WalkPasses` that a walk which
does not fall off the trie spells, at each place, the text if the trie has it and
else a parameter. Whether a request's walk leaves a route that fits it is then seen
at the first place where they differ, which is what `Shadows` says.

For the logger, the settings change only under the mutex and in an order in which
each step of the holder knows what the stream is (`ConfigInv`), whatever `log()`
does beside it; and a stream goes into error only when it is used while closed or
by two at once (`StreamInv`). Where lines may be is `SpanInv`: what is in the buffer
belongs to a call during which every file the buffer can still reach was open or
opening. That is stronger than `LinesWhereOpen`, which says nothing of the buffer, and
it rests on who is in a call (`LineInv`) and on what is in the sequences (`EntryInv`).
`KeptInv` follows an undisturbed line through its call: nowhere before it is
inserted, then once and whole in the buffer or in the file that was enabled, and
once in that file alone when the call is over.

On the wire, `LockstepInv` says that, as long as no answer was stray (`NoneStray`),
the beginning of a request is in the channel only while its client waits for that
answer, and that nothing of a later message is behind it. (What is left of earlier
ones may be before it, and an answer to that is stray.) So a `recv()` that begins
with it holds parts of no other request. Who has sent a stray answer always has
(`StrayStays`), so nothing need be said of what comes after.
`ServedInv` needs no lockstep: what is in the channel and what was read is of messages
that were sent (`PartsSent`), frames come on upgraded connections only
(`FramesUpgraded`), and each `recv()` that held one whole message has had its
effect, which no later step undoes (`WholeServed`).

`Wire` takes for granted that a frame is told whole from cut; `ClientFramesRead` proves
it of the bytes. Two bytes of a length joined to what is above them give the length
back (`JoinBytes`, of 16 bits at a time), and no sum wraps below `SizeLimit`
(`Remainder`), so two or eight bytes give back every number that has no more
(`EightBytes`); `HeaderRead` is then one argument for all three forms of a header,
masked or not. The hypothesis `n + 14 < SizeLimit` is that the frame and the longest
header can be counted at all: such a frame cannot be in memory otherwise.

For the WebSocket clients, `UserInv` says that whoever believes to be connected
has a connected socket and has it alone, and that every connected socket has such
an object. It is inductive because only an unconnected socket can be connected and
only its holder closes it. `GapInv` adds the accounts of each connected object: what
was read of its socket is what it skipped and what it got, in order; before the
handshake's `recv()` that is nothing, and a socket that is not connected has been read
by nobody (`Unread`), so that who connects it starts from nothing.

Only model-checked: all liveness (fairness and `ENABLED` are beyond the prover);
and `EncodedComesBack` and `SaidIsDone` of `Codecs` but for the frames. Its operators
are recursive: what they compute for every input would need inductions that the provers
cannot instantiate.
(For the router, whose recursion goes along one sequence, such an induction is done
by the least element of a set of positions.) `RegistrationShadowsOnly`, `OneTaskPerId`,
`NoTaskOutlivesTables`, `SettingsAgree` and `SpoiledOnlyByOverlap`, and `OnlyEndedClosed`
and `HandshakeFirst`, which the promises imply, are proved and in no run.

## 6. Where the code and its words differ

One violation run, `Client_free`, against a comment of the client, which is quoted
in `PROJECT.json` under `findings`: a failed TLS handshake frees its session, and
`closeSocket()` frees it again.

The others have no run of their own. They show as conditions of properties that
hold, or in what a model's step does:

* `WebSocket::close()` "cleans up SSL resources if needed" (`websocket.h:147`), but
  `ssl_clients_` keeps the pointer: `stop()` frees that session again, every time a
  handler has closed a WebSocket whose number was not handed out since (the first
  condition of `NoUseAfterFree`, which says that nothing else is freed twice).
* The rest of a TLS record longer than the read buffer waits for the client's next
  one (`sslserver.h:148` says the handler reads the incoming data): the second part
  of `DataRead` asks for no more than that it is read then.
* `SSLServer::stop()` between the test of `running_` and the list for `poll()`
  leaves the loop asleep for ever (`asleep`), where `server.h:121` says that it stops
  the loop. The TLS server has no property that it ends.
* `Request` is documented to be given a complete request (`request.h:26`) and is
  given what one `recv()` returned. A body that arrives alone is answered if it
  begins with a request line, and any remainder if a routing handler writes content
  whatever the request (as those of `test/server_test.cc:464` and `:560` do): a client
  that waits for each answer gets one too many. `LockstepMatched` holds up to the
  first such `Stray` answer.
* `createClient()` makes an `HttpClient` for every protocol (`client.h:565`), `https`
  included, where `client.h:505-506` and `:591` say that the type depends on it.
* `getEnv<int>` takes `"-"` for 0 (`utils.h:139`), where `utils.h:77-78` promises the
  default when the conversion fails (the condition of `SettingRead`).
* A route keeps the number of a subscriber that is gone, and takes the frames of the
  number's next owner from the route that owner has subscribed to, if it comes
  before it (the condition of `SoleSubscriberRouted` and `DispatchedToOwnRoute`).
* A task that calls `repeatEvery()` while its table is destroyed races with the
  destructor (the second part of `NoTaskOutlivesTables`, `Forfeit` in `TaskSlots`).
* A Close frame, or a handler's `close()`, leaves a closed descriptor in
  `client_list_` (`ListMatchesSockets` holds without WebSockets only).
* `stop()` from another thread does not wake a sleeping `poll()`, so that it ends
  the loop only with `POLL_TIMEOUT` set, and it does not close the client sockets,
  which `server.h:121` says. `StopEndsLoop` is checked with a signal handler.
* A route's handler loses its parameter when another route names it otherwise
  (the condition of `ParamsBoundUnlessRenamed`).
* One client that does not read stops the service of all, in both servers
  (`EveryRequestRead` and `DataRead` are checked under `FairSpec` only); an empty
  response is no response
  (`AnsweredOnceInOrder` asks for an answer only where `HasBody`); a task that
  replaces itself waits for itself (`CallsReturnUnlessNested`).
* The clients guess the end of a response (the conditions of
  `CutOnlyAfterShortRead` and `WholeReturned`) and may wait for a silent TLS
  server for ever (`CallsReturn`). `BaseClient::post()` and `put()` build a
  request with the body and then send another one without it
  (`client.cc:24`, `:47`), where `client.h:619` says "with body data".
* A URL without `://` loses its first two characters, a port that is no number is
  80 for `https` too (`createClient`).
* A WebSocket frame of the server above 65535 bytes has no length (`FramesRead`
  says up to where they are read); `WebSocket::read()` returns the first frame of
  a `recv()` only, and again at each call: of merged frames the others are lost.
* A request in two segments is parsed as two and answered as the first half only,
  two requests in one segment are one (the conditions of `OwnRecvServed`).
* `stream()` writes the head of a response before every event. A task of
  `TaskManager` goes on when its client is gone, and a WebSocket's failed `send()`
  is `-1`, which counts as a success in `Server::repeatEvery()` too: such feeds
  write to whoever inherits the number (the condition of `EventsOfOwnStream`).
* `build()` leaves `Content-Length` in the headers, so that a second message built
  of the same `Response` declares the first one's length (`LengthTrue` says of every
  message which length it declares: that of the first one that was counted).
* A `WebSocketClient` that was never connected leaves its socket open; after
  `disconnect()` its `connect()` may use a socket that another object has made
  since; what arrives in the same `recv()` as the 101 is lost.
* A line logged while the file is changed may be lost or torn, and the stream may
  stay in error (the conditions of `UndisturbedLinesKept`).

## 7. What is not modelled

* The bytes of HTTP and of TLS beyond the codecs of section 3: the wording of
  status lines and headers, default content types, the map of request headers.
* SHA-1 and the WebSocket key (no client checks it), dates, ETags, MIME types,
  command-line arguments: pure functions without a boundary of their own.
* `processWebsocketHandshake()` without a `Connection` header (`server.cc:362`, where
  `end()` is dereferenced): the models' upgrades carry it.
* `WebSocket::writeFrame()`: private, and called by nothing.
* Static files: opening and reading files. That `mimeType().value()` may throw,
  and exceptions out of handlers generally, end `run()` and are left out.
* `SSLServer::stop()` by another thread: a data race from its first access on.
* The certificate handling of `HttpsClient` and of `SSLServer`.
* The examples and tests: callers of the library, from which the models' inputs
  are taken.
