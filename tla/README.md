# A verification development for golapis

golapis embeds LuaJIT in Go and runs Lua code, from the command line or for
HTTP requests, with the asynchronous interface of lua-nginx-module. This
directory holds TLA+ models of the program, TLC configurations that check them
on small instances, and TLAPS proofs that hold for every instance.

Paths below are relative to `src/golapis/` unless they say otherwise.

## 1. The system

### Components

| component | state | operations | hard behaviour |
|---|---|---|---|
| **Event loop, threads, timers** (`golapis.go`, `lua_thread.go`, `sleep` and `timer.at` in `bindings.go`) | `eventChan` (buffered, 100), `pendingTimers`, `threadWg`, `stopping`, `running`; per thread its status and coroutine; per timer a goroutine and a `cancelChan`; per caller a response channel of capacity 1 | `Start`, `Stop`, `Wait`, `Close`; `RunFile`, `RunString`, `RunEntryPoint`; the six event handlers; `sleep`, `timer.at`, `debug.cancel_timers`, every asynchronous call | the loop posts to its own full channel; a stop races expiring and cancelled timers; the counter behind `Wait`; responses on bounded channels; restarts |
| **TCP connection pool** (`tcp_pool.go`, parts of `tcp_socket.go`, `drainTCPPools`) | per key a list and a size; per entry a state word, a watcher goroutine, `done`, `broken`, a read deadline shared with the socket | take (connect), park and evict (setkeepalive), watch, drain | four parties race for an entry; deadlines overwrite each other; the event loop waits for a watcher |
| **User coroutines** (`lua_thread.go`, `coroutine.*`) | per thread `curCo`, `coOp`, a tree of coroutine contexts, registry references | create, resume, yield, status, wrap, close | asynchronous yields from inside nested coroutines; yields that fail at a C boundary after the bookkeeping was changed |
| **TCP cosockets** (`tcp_socket.go`) | `conn`, `connected`, `closed`, `gen`, busy flags, owner thread, read buffer | connect, send, receive, receiveany, close, setkeepalive, gc | results of operations that arrive after the socket was closed; what is left of a chunk, and the pooled buffer it is in |
| **UDP cosockets** (`udp_socket.go`) | `conn`, `connected`, `closed`, `gen`, `timeout`, `localAddr`, owner thread; in the kernel the datagrams, an ICMP error and the read deadline | setpeername, bind, settimeout, send, receive, close, gc | a dial that ends after its socket was finalized; deadlines that stay behind; ICMP errors; datagrams that are cut |
| **HTTP request and response** (`request.go`, `http.go`, `bindings.go`) | accumulated headers, status, `HeadersSent`, cached body | first write, header and status assignment, `exit`, `ReadBody`, `location.capture` | errors after output has begun; limits |
| **HTTP server and shutdown** (`http.go`) | server, `requestWg`, shutdown channels | serve, signal, shutdown, `Wait`, `Stop` | waits that have no bound; a WaitGroup that is added to while it is waited for |
| **Conversions** (`util.go`, `lua_batch.go`, `lua_helpers.h`, parts of `bindings.go` and `udp_socket.go`) | none beyond a call | escape, unescape, parse a query, `get_headers`, encode and run a batch, turn Lua values into text | boundaries, round trips, the order of Go's maps, tables that contain themselves, two languages that must agree on a format |
| **HTTP client** (`bindings.go`, `http.lua`) | none beyond a call | `http.request` with sources, sinks and redirects | failures between the source, the server and the sink |
| **Hashes, base64, time, entry points, command line** | none of their own | calls of the Go library | |
| **Outside** | LuaJIT, `net`, `net/http`, the Go runtime | | used by what they promise |

### How they interact

One goroutine, the event loop, owns the Lua state. Everything else reaches it
by an event: callers send a run event with a response channel and wait; the
goroutine of an asynchronous call sends a resume event with its result; the
goroutine of a timer sends a fire event; `Stop` sends a stop event. While Lua
code runs inside a handler, the other goroutines go on. Sockets and the pool
are called by Lua code, on the loop; pool watchers run beside it; `Stop` drains
the pool from the owner's goroutine. `golapis.exit`, headers and output touch
only the request of the running thread.

### What makes the parts correct

* Loop: every accepted call is answered once, after its thread is over; a
  yielded thread is woken once; a timer fires once or is dropped by `Stop`,
  never both; the counter behind `Wait` is exact; when `Wait` has returned
  there is nothing left; after `Stop` no handler runs; nothing deadlocks.
* Pool: one party owns a connection at any time; a socket gets only an open
  connection whose watcher is gone, whose deadline is clear and on which the
  watcher saw nothing; every connection is closed once; the size holds; a drain
  leaves nothing; the loop is never held up until an idle timeout.
* Coroutines: `curCo` is the coroutine that runs; the chain of parents ends at
  the entry coroutine; values go to the coroutine that waits for them.
* TCP sockets: no result of an old operation reaches a closed socket; no byte of
  the stream is lost, doubled or reordered, and only what follows a line may be
  spoilt.
* UDP sockets: one socket or one dial will close each connection; traffic goes to
  the peer that was asked for last; datagrams keep their boundaries and their
  order; who has set a timeout gets an answer.
* Conversions: nothing is lost, doubled, reordered or made up, and what was cut
  off is reported.
* HTTP client: nothing is sent unless the body is complete, and the sink is
  called only with a complete answer.
* HTTP: the status and headers are sent once, before the body; a body over the
  limit is never delivered.
* Server: shutdown loses no accepted request and ends within its time limit.

## 2. The modules

| module | models | size of the instance |
|---|---|---|
| `TaskService` | what the event loop promises: tasks that begin, suspend, go on, end and are answered; a stop that drops timers | |
| `StateLoop` | the event loop; implements `TaskService` | |
| `MCStateLoop` | instances of `StateLoop` for TLC | 2 calls and 1 timer, 1 call and 2 timers |
| `StateLoop_proofs` | proofs about `StateLoop` | any |
| `ConnService` | what the pool promises: a connection is new, used, idle, leaving or closed | |
| `TcpPool` | the pool of one key; implements `ConnService` | |
| `MCTcpPool` | instances of `TcpPool` for TLC | 2 connections |
| `TcpPool_proofs` | proofs about `TcpPool` | any |
| `CoroutineStack` | what `coroutine.*` promises: a stack whose top runs, suspended as a whole by asynchronous calls | |
| `Coroutines` | the scheduler in `resumeInternal` and the calls that drive it; implements `CoroutineStack` | |
| `MCCoroutines` | instances of `Coroutines` for TLC | 3 or 4 coroutines |
| `Coroutines_proofs` | proofs about `Coroutines` | any |
| `ByteStream` | what the receive methods promise about a connection | |
| `TcpSocket` | TCP cosockets: methods, goroutines, callbacks, finalizer, pool; implements `ByteStream` | |
| `MCTcpSocket` | instances of `TcpSocket` for TLC | 1 or 2 sockets, 1 connection, 2 bytes |
| `TcpSocket_proofs` | proofs about `TcpSocket` | any |
| `DatagramService` | what receive of a UDP socket promises about a connection | |
| `UdpSocket` | UDP cosockets: methods, goroutines, callback, finalizer, what the kernel keeps; implements `DatagramService` | |
| `MCUdpSocket` | an instance of `UdpSocket` for TLC | 1 socket, 2 connections, datagrams of up to 2 bytes |
| `UdpSocket_proofs` | proofs about `UdpSocket` | any |
| `Response` | what golapis promises about the response to a request | |
| `HttpExchange` | requests, their bodies and responses, subrequests; implements `Response` | |
| `MCHttpExchange` | instances of `HttpExchange` for TLC | 2 exchanges |
| `HttpExchange_proofs` | proofs about `HttpExchange` | any |
| `HttpServer` | requests, the signal, the waits of `StartHTTPServer` and the end of the process, over `TaskService` | |
| `MCHttpServer` | instances of `HttpServer` for TLC | 1 or 2 requests, 1 timer |
| `HttpServer_proofs` | proofs about `HttpServer` | any |
| `UriCodec` | `escape_uri`, `unescape_uri`, the parser of query strings | |
| `LuaBatch` | the encoder in Go and the interpreter in C of batches, and the users of it | |
| `RequestHeaders` | `get_headers` and the lookup in its table | |
| `LuaOutput` | Lua values as text, for `say`, `print` and `send` | |
| `HttpClient` | `http.request`: wrapper, redirects, sink | |
| `LuaCalls` | calls of these functions, and what they promise | |
| `MCLuaCalls` | bounded inputs for TLC | see the table of runs |
| `LuaCalls_proofs` | proofs about batches, arguments, escaping, headers, output and the HTTP client of `LuaCalls` | any |

Each component has a module of its own. They meet where one promises something
to another, and there the abstract module stands in: the connections of
`TcpSocket` come and go in the pool as `ConnService` lets them, and the threads
of `Coroutines` and `HttpExchange` are run one at a time, in any order of
events, as `TaskService` lets them. `HttpServer` has an instance of
`TaskService` inside: its requests are calls of the event loop. The sockets take
the same from the event loop: a goroutine posts one resume event, and the Lua
thread handles it, alone, at some later moment. The five modules of conversions
are operators without state; `LuaCalls` calls them.

### StateLoop and the code

The variables carry the names of the fields they stand for: `eventChan`,
`pendingTimers`, `threadWg`, `stopping`, `status`, `responseChan`. Others:

* `posting`: the goroutines that are about to send an event. `time.Sleep` or the
  network operation ends at an arbitrary moment, so an element of `posting` may
  be sent at any time there is room.
* `loop`: where the loop is. `lua` is a call of `lua_resume` on behalf of a
  thread; `reply` and `close` are the rest of a handler. The order matters: a
  handler of a run event closes the thread and then responds
  (`golapis.go:405-415`, `:375`), the handler of a resume event responds and
  then closes (`golapis.go:500-511`).
* `timerGo`, `cancelled`: a timer's goroutine in its `select`, and whether its
  `cancelChan` is closed.
* `ctl`: the goroutine that calls `Start`, `Wait`, `Stop` and `Close`, with
  `Stop` in its three steps (set `stopping`, cancel, send).
* `waited`, `dropped`: history, read by no action.

A thread has the name of the caller or timer that it runs for. Lua code is a
free choice between yielding (`SleepZero`, `StartAsync`), creating timers,
cancelling them and ending; nothing else of it touches this state. An event
that is sent with `select`/`default` is `PostOrSpawn`; one sent by a goroutine
is `Spawn`. `Done` models the panic of a negative WaitGroup counter, which ends
the process.

`ProcessSpec` is a state that is started once, as `src/main.go` and
`StartHTTPServer` do; `EmbedSpec` adds `Start` after `Stop`, which the library
allows and `tcp_socket_test.go:1214` does.

### TcpPool and the code

One pool is modelled; the pools of other keys share only the lock and
`tcpPoolsClosed`. An entry's fields are indexed by its connection, because a
connection has one live entry: it is parked again only after the watcher of its
last entry has closed `done` (`HandedOver` states this). `claim` is
`entry.state`, with the name of the winner of the swap as history. The list is a
set `listed` with its order `newer`. Critical sections under `tcpPoolsMu` are
atomic; what the code does after unlocking (waking and waiting, closing the
evicted entry, starting the watcher, closing drained entries) are steps of
their own. The watcher is step by step what `watch` does:

    start -> arm -> recheck -> read -> clean or dirty -> off
                                               \-> unlink -> close -> off

`aged` is the clock passing `expiresAt`, `spoke` anything the peer does to an
idle connection, `unfit` the history of what watchers saw.
`Dialed` and `SocketCloses` stand for the rest of the cosocket; the socket may
leave any read deadline behind when it parks its connection.

### Coroutines and the code

One `LuaThread`. `known`, `coRef`, `parent` and `coStatus` are the fields of the
coroutine contexts in `coCtxByState`; `curCo`, `coOp`, `status` and `exited`
those of the thread. `lua` says where control is:

    off -> run -> yield | ok | error -> (scheduler) -> run | back -> off

A call of Lua code (`CallResume`, `CallYield`, `CallAsync`, `CallExit`,
`Return`) sets the fields that the Go function sets and gives up control; then
one of the branches of `resumeInternal` (`ServeResume`, `ServeYield`,
`ServeAsync`, `ExitYield`, `DoneChild`, `DoneEntry`) runs, alone, with what it
finds in these fields. `asked` and `got` are history: what each coroutine last
asked for, and what it was handed. A message has a kind and a coroutine, which
is all that tells one value from another here.

`Spec` is Lua code that yields where it may. `SpecInC` adds calls made inside a
C function that cannot be yielded across: `coroutine.resume`, `coroutine.yield`
and `exit` have already changed the fields when `lua_yield` raises its error,
and the code may catch it (`ResumeInC`, `YieldInC`, `ExitInC`).

### TcpSocket and the code

The flags of a socket carry their names (`conn`, `connected`, `closed`, `gen`,
`connecting`, `reading`, `readBuf`, `reusedTimes`); `reused` is the count in the
pool's entry. `op` is the goroutine of an operation and
then its resume event; an `OnResume` callback is one action
(`ConnectResumes`, `ReceiveSucceeds`, `ReceiveFails`). A byte is its position
in the stream of its connection, so a buffer is an interval and "the next bytes
and nothing else" can be said; `lineEnds`, chosen at the start, says where the
peer's line feeds are.

What stands at a position need not be what the peer sent. When a chunk goes on
behind a line, the goroutine's event holds a slice of its buffer
(`tcp_socket.go:825`), and the goroutine gives the buffer back to
`socketBufPool` when it ends (`:811`); the callback copies the slice only when
the event loop comes to it (`:852`). `BufferReused` is a receive of another
socket, TCP or UDP, that gets the buffer from the pool meanwhile and writes into
it: any of these positions then have foreign bytes, any of which may be line
feeds. Since the write and the copy may also happen at once, without any order
between them, any subset of what was overwritten may be in the copy, and the
action may be taken for any subset. `PutsBack` is the copy: `foreign` and
`strays` say from then on which positions of the connection are spoilt and where
the socket finds line feeds instead. `ByteStream` promises what remains: lengths,
order and places of all receives, and that only a receive of a line spoils bytes,
and only such as follow its line.

`OtherParks` and `PoolCloses` are the other users of the pool and its
watchers. `ReadChunk` is one call of `Read`, which returns any number of
the bytes that have arrived; `ReadFails` is its end, timeout or error.
`Gc` is the finalizer: a method that yields may have been called on a socket to
which nothing refers (`MayForget`), so it can run during an operation.

### UdpSocket and the code

The flags carry their names. `link` is what the kernel keeps of a connection: the
datagrams that wait (`inbox`, by their lengths), an ICMP error that has not been
reported (`refused`), the read deadline, and the two ends, peer and local
address. `op` is the goroutine of an operation and then its event. setpeername of
an address or a path dials at once (`SetPeerNow`), that of a name in a goroutine
(`SetPeerDials`, `Dialed`, `SetPeerResumes`). `Receive` starts a goroutine, which
sets or clears the deadline and then reads (`StartsRead`, `ReadTakes`,
`ReadTimesOut`, `ReadFails`); its event has no callback, so what it read is handed
over whatever has become of the socket. Timeouts are in tenths of a millisecond, so that
one below a millisecond, which the conversion to an integer makes none, is among
the inputs. There are no busy flags in this code: the owner is suspended during an
operation, and other threads are refused. `asked` (what the last setpeername
asked for) and `result` are history.

### LuaCalls and the code

What these functions answer depends on their arguments alone, so a behaviour is one
call (`GetArgs`, `Escape`, `PushBatch`, `Say`, `Fetch`, ...), and each property
compares the answer with a second definition that is written another way: the
code goes through a string from left to right, the reference says which positions
are parts, keys and escape sequences; the code walks through tables, the reference
speaks of the paths in them; the code writes and reads bytes, the reference performs the
operations on a stack.

* `UriCodec`: strings are bytes; `UnescapeURI` and `Decoded` are the two decoders of
  `util.go`, one for `unescape_uri`, one for arguments.
* `LuaBatch`: the buffer is a sequence of bytes with integers in two's complement,
  lowest byte first (`Le`, `ReadFrom`). `Run` is the interpreter of `lua_helpers.h` on a stack of Lua values; it can
  run off the end or meet an unknown operation (`Short`), and then is not `ok`. That the
  stack holds what an operation takes is not checked, by the interpreter or here. The
  operations that `pushQueryArgs` and `location.capture` make of their data are here too.
* `RequestHeaders`: a name is its words, what stands between them and its spelling,
  which is all that the normalization and the metatable of the result look at.
* `LuaOutput`: tables are in a heap, so that they may contain each other. `lua_objlen`
  returns any border of a table with holes (`Borders`); `send` uses it, `say` does not.
* `HttpClient`: the source ends well, with an error or not at all, the server
  answers with redirects and then with something else, the sink fails at its data or
  at its end. A url that is missing, and a url or method that `http.NewRequest`
  refuses (`bindings.go:924`, `:950`), are found after the source has been read, and
  nothing is sent.

### HttpExchange and the code

An exchange is a request, its thread and the writer of its response. `stage`
follows the thread, `via` says who asked: a client or a capture through the mux
(both end in `HTTPHandler`, writing to a `ResponseWriter` or a recorder), or a
capture without a mux, where a goroutine posts the run event itself and reads
the thread's buffer afterwards. `status`, `headers`, `sent` are
`ResponseStatus`, `ResponseHeaders`, `HeadersSent`. `map` is what `Header()` of
the writer returns, and `head` what the writer took of it at its first
`WriteHeader`; they part when a thread fails after output, because `http.Error`
(`HttpError`) then changes the map, replacing and deleting some headers
(`Displaced`) and adding those of its page (`PageHeaders`), though the head is out.
`page` says that it wrote its page. A client gets `head` (`OnTheWire`); a capture
through the mux gets the recorder's status and text but its live map (`Captured`,
`bindings.go:1081`), so that of a subrequest that failed after output the capturing
thread sees the status and text of the code, followed by the page, under headers of
which the page has replaced some; a capture without a mux gets status 500, the
error and no headers. `Response` promises just that, way by way. Output is
counted in calls. `bodyRead`, `bodyData` and `bodyErr` are the cache of
`ReadBody`; data is its length, and `GetBodyData` is what `get_body_data(max_bytes)`
returns of it. An error that Lua code catches changes nothing,
so only uncaught ones (`Fail`) and `exit` are actions.

### HttpServer and the code

`http` follows a request through `net/http`: its connection is accepted, it is
being read, its handler runs, it is finished. `logHTTPRequests` counts it
(`Handle`), `HTTPHandler` posts it to the event loop (`Post`) and waits for the
response; a request for a static file posts nothing. Threads and timers are
tasks of `TaskService`, whose actions appear here with `looping`, which says that
the event loop has not handled the stop event. A subrequest is part of the
thread that waits for it: `location.capture` goes through the mux without
`logHTTPRequests`, so that it is not counted.

`shutdown` is the signal goroutine, `main` is `StartHTTPServer`:

    serving -> shutting -> counting -> draining -> stopping -> over
               (Shutdown)  (requestWg)  (lua.Wait)  (lua.Stop)

`server.Shutdown` closes the listener and returns when no connection is active or
when its timeout has passed. `woken` says that the counter which `main` waits for
has been zero since the wait began: `Wait` of a `sync.WaitGroup` looks at the
counter again then and panics when it is in use again (`crashed`). `late` is
history: requests counted after that wait.

## 3. What TLC checks

Symmetry is used only in runs without fairness. The systems may stop for good
(nobody has to make a call), so deadlock is not an error; what must go on is
stated by the liveness properties.

| run | question | bounds | result |
|---|---|---|---|
| `loop_process` | one `Start`, any interleaving, `Stop` at any moment: are responses, events and the counter exact, does `Wait` mean done, is a dropped timer silent, is every step one of `TaskService`; is every call answered unless the state is stopped, does `Stop` return and every timer fire or get dropped (`EndsReached`)? | 2 calls, 1 timer, channel of 1, 1 yield per thread; 66 thousand states | holds |
| `loop_restart` | does "cleaning up timers without firing callbacks" survive a restart? | 1 call, 2 timers, channel of 2, 2 starts | violated: see below |
| `pool` | four parties, any interleaving, stop, restart and close: does a socket get a connection that nobody else has, closed once at the end (`KeptAlone`), are list, size and drain exact (`PoolExact`), and is every step one of `ConnService`; do connect and setkeepalive return and does an unfit connection leave the pool, without any assumption that time passes (`PoolMoves`)? | 2 connections, sizes 1 and 2; 142 thousand states | holds |
| `co_lua` | resumes, yields, asynchronous calls, exits and ends nested in any way: do values reach who waits for them, is the thread woken once, are references exact and a thread closed only at its end, what does `coroutine.status` say, and is it a stack? | entry and 3 coroutines, 2 resume events; 14 thousand states | holds |
| `co_sleep_in_c` | does `sleep` still wait when a resume or yield failed inside a C function before? | entry and 2 coroutines | violated: see below |
| `tcp` | two sockets, the finalizer, the drain and the pool over one connection, with buffers that are reused too early: is it owned once and does a closed socket stay empty (`OwnershipExact`); is what was read in exactly one place, nothing unread parked, no flag left set and the count of reuses that of the connection (`KeepsItsOwn`); is every receive one of `ByteStream`? | 2 sockets, 1 connection, 2 bytes, all modes; 3.5 million states | holds |
| `tcp_line_rest` | does receive return bytes that the peer of its connection sent? | 1 socket, 1 connection, 2 bytes, line and any | violated: see below |
| `udp` | one socket that is connected, bound, closed and finalized in any order while datagrams and ICMP errors arrive: will somebody close every connection, and does traffic go to the last peer from the bound address (`RightPeer`); is every receive one of `DatagramService`; does an operation that need not wait for the network end (`Answered`)? | 1 socket, 2 connections, an address, a name and a path, datagrams of 0 to 2 bytes, receives of 0 to 3, timeouts of 0, half and 1 ms, 2 datagrams waiting; 665 thousand states | holds |
| `http_exchange` | two requests, one of which may capture the other either way, set, write, exit, fail and read bodies: is the head what Lua set, a body whole, do clients and captures get what was made, and is every step one of `Response`? | 2 exchanges, 2 headers, one of which the error page replaces, status 404, limit of 1 byte, bodies of 1 and 2, 1 output; 3.4 million states | holds |
| `shutdown` | a signal at any moment, `Shutdown` that returns or times out: is `requestWg` exact, is what was counted answered before the loop is told to stop, does the process end? | 2 requests, 1 timer; 5 thousand states | holds |
| `shutdown_in_flight` | is no request cut off by the end of the process, even if `Shutdown` times out? | 2 requests, 1 timer | violated: see below |
| `lua_calls` | do escaping, arguments, headers, batches, output and the HTTP client do what they promise, put in other words? | query strings of up to 5 bytes over the 7 that the parser tells apart, all bytes and texts of up to 4 for escaping, 300-byte strings and integers of 1 to 3 bytes of either sign in batches, header sets in all orders, two tables with holes and cycles, all ways a source, server and sink end with up to 6 redirects, urls that are refused; 237 thousand states | holds |

Why the bounds are enough to meet the interesting cases: a channel of capacity 1
is full as soon as one event is queued, so both branches of every
`select`/`default`, blocked callers, a blocked `Stop` and goroutines that wait
for room all occur (a violation would need fewer events than in a channel of
100, not more). Two timers (`loop_restart`) let one be dropped while the other
fires; two calls (`loop_process`) let one thread run while another is suspended.
That events stay exact and a stopped state quiet across restarts is not a run of
its own: it is proved for any number of them (`EventsStayExact`, `QuietAfterStop`).
One yield per thread is enough to pass through every handler and back. Two
connections with a pool of one give an eviction while a watcher or a drain
competes for each; with sizes of one and two the pool also grows. A third
connection, so that an eviction must choose, is covered by the proofs, which
hold for any number.
Four coroutines give a chain of three resumes with one more to choose. Two
bytes give a line feed before, between and after what a call asks for, chunks
of one and two, and a buffer that holds less, as much and more than wanted; a
third byte adds no new relation between buffer, request and arrival. With two
sockets and one connection every pair of parties meets over it, and the second
socket can take what the first has parked; a second
connection matters only for what a socket keeps of the first. Of that the run sees
the buffer, since a socket without a connection must keep no bytes; that the count
of reuses does not survive a connection that was dialled is proved (`KeepsOwn`), for
any number, and not run. UDP sockets share nothing
with each other (there is no pool), so one is enough; with two connections it can
leave one for the other while a dial, a datagram or an error of the first is under
way, and two datagrams waiting show their order. Receives of 0, 1 and 3 bytes with
datagrams of up to 2 are out of range on both sides, too small and too large.
The inputs of `lua_calls` hold every case that the code tells apart: a query of 5
bytes has room for two parts with an escape sequence at any place and cut anywhere, four longer ones add
repeated and empty keys; a limit of 1 for the depth of tables is passed with two tables; six
redirects are one more than the default. Of two exchanges either may capture the
other; the headers `h` and `html` are one that the error page leaves alone and one
that it replaces by `plain`. A status above 599, which exit refuses, is in the
proofs and not in the run; one output each is followed by what the handler writes at the end, so that
a head is asked for twice; a chain of captures repeats the same step. A limit of 1 is met by bodies
of exactly the limit and of one more. Two requests give one that is counted
while the other is late, and the timer gives work that outlives its request.

Fairness. `loop_process` assumes weak fairness for each step of the loop, each
goroutine, each step of `Stop` once begun, and the return of callers: the Go
scheduler runs whatever can run, an asynchronous operation ends (it has a
timeout or a result), a delay passes. Weak fairness of a channel send that
competes with others for room is what Go gives: blocked senders are served in
the order in which they came. Nothing is assumed about Lua code beyond that it
gives up control: the bound on yields stands for code that does not run for
ever. `pool` assumes weak fairness of the watchers, of the drain and of a
call already begun; not that time passes or the peer does anything.
`HttpServer` assumes that the goroutines of the server, of the signal and of
`StartHTTPServer` go on; strong fairness for the beginning and the continuation
of a task and for the stop event, because the loop is not always free, and its
channel is served in order; and for `shutdown` that the Lua code of a task ends
(`EndingSpec`). `udp` assumes weak fairness, per socket, of its dial, of its read
and of its resume event: goroutines run, the clock reaches a deadline that was
set, a resolver answers, the loop handles its channel. It does not assume that the
network delivers anything, that Lua code calls or that the collector runs;
`Answered` speaks of the operations that must end without that. `lua_calls` has no
fairness and needs none.

### The findings

`loop_restart`: the comment on `Stop` (`golapis.go:236`) says that timers are
cleaned up without firing callbacks. The stop event removes pending timers, gives
their coroutine reference back and takes them off `threadWg`. But a fire event
may already be queued behind it, and a timer goroutine that is woken by
`Stop` may look at `stopping` only after the next `Start` has reset it
(`bindings.go:2007`). Either way the new event loop runs the callback of a
timer that was cleaned up, on a coroutine whose reference was given back, and
`thread.close` takes it off `threadWg` once more.

`co_sleep_in_c`: `coroutine.resume` and `coroutine.yield` set `curCo`, `parent`
and `coOp` before the C wrapper yields. Inside a C function that cannot be
yielded across, such as a comparator of `table.sort`, the yield raises an error,
and nothing takes the fields back. If Lua code catches the error and then
sleeps, the scheduler takes the yield of `sleep` for the resume or yield that
was not made, and `sleep` returns before its time.

In the same way the scheduler can find a `curCo` that does not match and give the
thread up. The thread is closed, with its status still `running`, and the check
"cannot resume closed thread" looks at `curCo.co`, which `close` does not reset:
a resume event that comes later reaches `lua_resume` with a coroutine whose
reference was given back. `ClosedStaysClosed` is violated under `SpecInC` for
this reason; it is proved for `Spec`.

`shutdown_in_flight`: the comment at `http.go:195` says that Shutdown has stopped
accepting new work, so that in-flight Lua work can finish before the loop is
stopped. That holds when `Shutdown` returned without an error. When it timed out,
the error is logged, and the connections it left are still there: a request that
is still being read is handed to its handler after both waits, and the loop stops
under it. If its `requestWg.Add` falls between the `Done` that wakes `Wait` and
its second look, `Wait` panics. `WorkFinished` says exactly what is left of the
promise: whatever was counted in time is answered, timeout or not. In the same
place `ShutdownTimeout`, "max graceful shutdown wait" (`http.go:46`), bounds
`server.Shutdown` only: the waits for the counted requests (`:191`) and for the
Lua state (`:197`) have no bound, which is why `ShutdownEnds` needs Lua code that
ends.

`tcp_line_rest`: a socket reads a chunk that goes on behind its line. What follows
should be kept for the next call: `tcp_socket_test.go:1025-1027` sends
`line1\nextra` and says that the receive of a line "over-reads chunks and leaves
"extra" in sock.readBuf". But the slice that the callback copies into `readBuf`
belongs to a buffer that is back in `socketBufPool` by then, and a receive of any
other socket may have read its own bytes into it. The next receive returns these,
as many as the peer had sent; if they hold line feeds, lines end at other places.
The test has one socket, so nobody takes the buffer. `KeepsPromise` says how far the
damage goes: never to the line itself or to what was delivered before it, nor to
another connection, and a connection is parked only when nothing spoilt is left
unread (`ParkedRead`).

Stale documentation, for which there is no run: `src/README.md:321` and `:322` say
that setkeepalive is a stub and that getreusedtimes is always 0. The code parks
connections and counts their reuses, and `tcp_socket_test.go:812-822` expects so;
`ReuseCounted` follows the code and the tests.

Besides, an error page of a subrequest reaches a capture through the mux in the
headers, as told above; no document speaks of it. A TCP connection whose `send` has
failed half-way can be parked by setkeepalive, which looks at unread data only.

Some corners that the models describe and that no document speaks of: a negative
`max_headers` of `get_headers` is not an unlimited one but drops the Host header,
unreported (`Allowed` in `LuaCalls`); a header whose own name has an underscore
is found under its lower-case name only, since every other spelling is looked up
with a hyphen (`HeadersExact`); a part of a query string without a
key counts towards `max_args` though it is dropped (`Admitted`); what `send` of a
table writes ends at the border that Lua picks, and `send` of a table that
contains itself does not return; a UDP timeout below a millisecond is none.

## 4. What is proved

The proofs hold for any finite sets of callers and timers, any channel capacity
above 0, any bounds (`TasksAssumption`, `BoundsAssumption`), any finite set of
connections and any set of positive pool sizes (`ConnsAssumption`,
`SizesAssumption`). Pool sizes below 1 are refused by setkeepalive, and
`make(chan, 100)` gives the capacity, so the code meets them.

`StateLoop_proofs`, for `EmbedSpec` (restarts included): `TypeCorrect`,
`EventsStayExact`, `ResponsesExact`, `QuietAfterStop`. None of
these is inductive alone. The invariant `IInv` adds

* `Control`: what the loop is doing for a thread agrees with the thread's status
  and with what `Stop` has done so far;
* `Senders`: which goroutine can still hold which event;
* `Owed`: for each call, where the one thing that will lead to its response is:
  with the caller, in a run event, in the running thread, in a resume event or
  in the response channel.

The channel is a sequence, and the argument is about the set of events under
way; the lemmas at the top of the module (`SendAdds`, `ReceiveRemoves`, ...)
cross over once, and one lemma per action preserves `IInv`.

The second half of `StateLoop_proofs`, for `ProcessSpec` (one start), proves `WorkExact` (the
counter is the number of open threads and pending timers), `WaitIsDone`, both
together `WaitStaysExact`, and `DroppedStayDropped`. These are false with
restarts, as `loop_restart` shows.

`TcpPool_proofs`, for `Spec`: `TypeCorrect`; `HandsOverExactly` and `ClosesOnce`,
together `KeptAlways`; `ListsExactly`, `StaysWithinSize` and `DrainsCompletely`,
together `PoolStaysExact`. The
invariant says, of every pooled entry, who owns it and where that owner is:

* `Ownership`: a claim has exactly one holder (the taker inside connect, the
  evictor inside setkeepalive, the drain's list, the watcher that won), and the
  holder's program counter names the entry; a watcher may still be running only
  while its entry's connection is in the pool or has been closed by someone else;
* `Remains`: a connection that a party has let go of, or that its watcher has
  reported, is in a state in which nobody will give it to a socket;
* `ListExact`, `WithinSize` and `Drained`, which are inductive together with
  these.

`WithinSize` is the one part about a number: `PartFits` and `ClaimFits` show with
the library's facts about finite sets that unlinking keeps it and that claiming
the least recently used entry makes room for one.

The last part of `StateLoop_proofs` and of `TcpPool_proofs` proves the refinement
`KeepsPromise` (`PromiseKept`): under the invariants above, every step is
a step of `TaskService` or `ConnService`, or changes nothing there. One lemma says
which variables the abstract state of a task or a connection depends on, one that
a step that touches a single task or connection moves it, and then there is one
lemma per visible action.

`DrainsCompletely` is about `NothingLeft`: after a drain, nothing is in the pool
but what a party on its way to close it still holds.

`Coroutines_proofs`, for any finite set of coroutines, any bound on resume events
(`CosAssumption`, `WakesAssumption`) and code that yields where it may (`Spec`):
`TypeCorrect`, `AnswersArrive`, `WokenOnce`, `ThreadsCloseCleanly`,
`ClosedThreadsStayClosed`, `ChainHolds`, `StatusTold`, `Refinement`. The invariant
adds to these

* `Control`: where control is, against the status of the thread, `coOp` and
  `exited`;
* `Requests`: when Lua code has yielded, the fields that the scheduler is about
  to read agree with what the running coroutine asked for; this is what breaks
  inside C functions;
* `Waits`: a coroutine that is normal waits in a resume of the one whose parent
  it is, so what ends or yields is handed to who asked for it.

The second half of the module is about all coroutines together. `Stack` of
`Coroutines` computes the stack along the chain of parents. `IsStack` says instead
what a sequence is that is the stack: it begins with the entry, ends with `curCo`,
and each coroutine is the parent of the next. There is at most one such sequence,
its members differ, so that it is no longer than there are coroutines, and
`Stack` is it (`AncestorsAre`, `StackIs`: with recursive functions, by the least
number for which they would differ). That the stack exists is itself invariant
(`Chained`): a resume puts one on top (`Pushes`), a yield or an end takes the top
off (`Pops`), and other steps leave it alone (`Stays`). From that follow what
`coroutine.status` says (`StatusTold`) and that every step is one of
`CoroutineStack`, or none (`Refinement`).

`TcpSocket_proofs`, for any sets of sockets and connections, streams of any length,
with line feeds anywhere, and any sizes and modes (`SocketsAssumption`,
`BytesAssumption`, `ModesAssumption`): `TypeCorrect`, `Ownership` for
`OwnershipExact`, `KeepsOwn` for `KeepsItsOwn`, and the refinement of `ByteStream`
(`Refinement`). The invariant has a part per socket and one per connection:

* `FlagsFit`: `connecting` and `reading` say what is under way, unless the finalizer
  came first; a socket without a connection keeps no bytes;
* `DialFits`: a connect under way is of the generation of its socket, which has no
  connection, and brings one that was never used;
* `ReadFits`, `BufFits`: the positions between what Lua code has received and what
  `Read` has returned are with the goroutine, its event or the buffer of the one
  socket, and are the next ones, whatever stands there by now; after the finalizer, a
  goroutine reads from a connection that is closed;
* `Spoilt`: foreign bytes of an event stand behind its line and not beyond what was
  read, which is why `ByteStream` sees them follow a line;
* `AnswerFits`: what a receive holds is less than what was asked for while it reads
  (`Lacks`), and just that once it succeeds (`Fills`);
* `ConnFits`: a new connection was never used, a parked one was read to the end, and
  foreign bytes stand only where `Read` has been;
* `Owned`, `ReadersApart`: `OwnershipExact` said owner by owner, and at most one
  receive per connection.

Most of the argument is that the step of one socket cannot disturb the others:
`StepKeeps` asks of an action only that it takes, parks or closes connections that
are its own or nobody's. A receive of a line ends at the first line feed, which
exists because a set of positions has a least one.

`UdpSocket_proofs`, for any sets of sockets, connections and addresses, any sizes,
timeouts and bound on waiting datagrams (`SocketsAssumption`, `PeersAssumption`,
`SizesAssumption`, `LimitsAssumption`): `TypeCorrect`, `TheRightPeer` for
`RightPeer`, and the refinement of `DatagramService` (`Refinement`). The invariant
has the same shape:

* `PeerFits`, `DialFits`: a socket's connection, or the one that its dial will bring,
  goes to the peer that was asked for last, unless the finalizer came first;
* `ReadFits`, `AnswerFits`: a receive reads from the connection of its socket, or
  from one that the finalizer has closed, and a deadline is set only for a receive
  with a timeout;
* `Held`, `ReadersApart`, `ShutIsEmpty`: one holder per open connection, one read per
  connection, and nothing in a connection that is not open.

`ReadersApart` is what the refinement needs: with two reads on a connection the
order of datagrams would be lost.

`HttpExchange_proofs`, for any set of exchanges, statuses from 200 to 999, any
headers, lengths and limit (`ExchangesAssumption`, `StatusesAssumption`,
`LimitAssumption`, `BoundAssumption`; the status setter refuses anything else
but informational statuses, which are left out): `TypeCorrect`, `HeadsHonest`,
`BodiesWhole` and the refinement `PromiseKept`. The invariant adds

* `Progress`: an exchange that has not begun is untouched, and it has a result
  once its thread is over;
* `Calls`: a thread waits for one subrequest at a time, so that a capture that
  returns resumes the thread that waits for it;
* `Writers`: a buffer has no head, other writers have no output before their
  head, and a handler that is done has written a head, and after an error the
  page;
* `Maps`: the writer's header map is what was flushed (`Flushed`), or that with the
  error page's headers over it.

`AnswerGiven` is the heart of the refinement: after the handler's last step the
writer holds what the code said and, if it failed, the error page: for a client
behind the head that went out, for a capture through the mux with the page's headers
mixed into the map, for a capture without a mux alone.

`HttpServer_proofs`, for any finite set of requests and any timers apart from
them (`TasksAssumption`): `TypeCorrect`, whose heart is that `requestWg` is the
number of handlers, and `FinishesWork`. The invariant adds

* `Served`: what `net/http` knows of a request against its task in the event loop;
* `Ordered`, `Lasting`: how far `StartHTTPServer` is says how `Shutdown` ended;
* `Lates`: after the wait only late requests have a handler, which takes a
  timeout;
* `Over`: with nobody late, work that is over stays so.

`LuaCalls_proofs` proves the six properties of `LuaCalls` for all inputs.

`ClientIsHonest`, for any source, sink and limit, and any answers of a server that
does not redirect for ever (`FetchesAssumption`): `Do` follows redirects by
recursion over the number of answers, so `RedirectsAre` and `Settled` say by
induction along the answers what it has after each, and the rest is cases of the
wrapper and the sink.

`BatchIsFaithful`, for every batch whose operands have the types of the encoder's
parameters (`ProgramsAssumption`). Nothing but the buffer connects the encoder in Go
with the interpreter in C, so the proof is about bytes:

* a number is read back as it was written (`LeIs`, `ReadsBack` and one lemma per
  type): the quotients by 256 that the encoder drops are those that the
  interpreter builds up again, from the last byte, which carries the sign;
* what is in a buffer stays where it is when more is appended (`Extends`), so an
  operation can be read in the final buffer;
* per operation, what the encoder appends is decoded to the same operation with the
  same operands, and the interpreter goes on just behind it (`Means`, one lemma per
  operation, and `StepIs`);
* along the operations, the interpreter's state after the first n is the end of their
  bytes and the stack they were meant to leave (`BatchRuns`).

`EscapesAreUndone`, for every text of bytes (`TextsAssumption`). Both functions go
through a text and append, so the proof lays the results out:

* `Laid`: the parts that a function appends lie one after the other in what it
  returns, and nothing else is there; of `EscapeURI` each part is the byte or its
  percent sequence (`IsEscaped`, `Shown`), of `UnescapeURI` a byte or what a
  complete sequence stands for;
* `PartRead`, `UnescapeUndoes`: from the end of the text to its start (`DownTo`),
  what follows a part decodes to the rest of the text, so that the part decodes to
  its byte and then the rest;
* `Rank`: a position of the text is the place of its part in the result, which
  turns "in this order" into an order of numbers.

`HeadersAreExact`, for every request as `net/http` makes it (`RequestsAssumption`:
names in canonical form, each with a value, `Host` apart), every limit and every
order in which Go may go through the map:

* `Sums`: what the lines of a set of headers add up to. A sum over a set is the
  choice of an order; that it does not depend on it is `SumsAdd` and `OneLess`;
* `Loop`, the invariant of the loop over the headers: of those met the table has
  the first lines (`Part`), under a key of their own (`KeysDiffer`), of the others
  none, and the count is that of the lines in the table, at the limit only
  if the loop has cut or all are there;
* `HostTaken` adds the line of `Host` to that, which a negative limit leaves out;
* `SpelledOut`: however a name with a hyphen is written, `__index` makes the same
  key of it.

`TablesAreExact`, for every query, limit and captured response, and every order in
which Go may go through the maps. A query is a text of bytes whose batch has a number
of operations that fits into 32 bits (`QueriesAssumption`: at most five for a byte;
the defaults `DefaultMaxHeaderBytes` and `DefaultClientMaxBodySize` of `http.go`
allow a megabyte), a response has texts whose lengths do (`CapturesAssumption`): the
encoder writes both as `uint32`. The reference speaks of sets of positions in the
text, the code of lists and stacks, so the proof goes through three layers:

* from the text to the list: `Fields` is the invariant of the split at `&`, one byte at
  a time; the fields that are not empty are just the `Parts` (`FieldIsPart`,
  `PartIsField`), and `Parsed` is the invariant of the loop over them: the arguments so
  far are the parts so far up to the limit, and a cut is reported once one more is met
  (`ArgsParsed`, `ArgsAdmitted`);
* from the list to the values: the n-th argument is the part that n parts begin up to
  (`NthRanks`), so that the bucket of a key has its arguments in the order of the
  parts (`Gathered`, `KeyBucket`), and what is to lie in the table for the key is what
  `ArgsTable` says (`EntryValue`, `ArgsTableIs`);
* from the values to Lua: `Leads(ops, u, v)` says that operations lead from the stack
  `u` to `v`; it is put together for one argument, one key and all keys in their order
  (`ElementsLead`, `EntryLeads`, `LeadsAll`), `Filled` being the table after the first
  keys. Each operation has the types of the encoder and there are few enough of them
  (`BucketFits`), so that `BatchRuns` above gives the same stack for the bytes that are
  pushed (`LedLeaves`). The table of a response is built in the same way
  (`HeadersSet`, `CapturePushed`).

`OutputIsWhole`, for any arguments, any heap of finite tables (`OutputsAssumption`)
and any limit of depth; the tables that `send` gets have no cycle
(`SendsAssumption`: a table has a higher rank than those in it), since the call would
not return. The code recurses over tables, the reference speaks of paths through
them, which may be as wide as the longest table (`Width`):

* `AtIs`, `AtOn`, `AtOff`: where a path leads to is a recursion along it; a path from
  a list that begins with a table leads where the rest of it leads from the elements
  of that table (`StartsTable`), and no further from anything else (`StartsPlain`);
* `Meant`: a text that has the values on the paths in the order of the paths
  (`Enumerates`), or the error and a value that is refused. It is put together for
  values side by side (`ThenMeans`) and for a table around them (`TableMeans`);
* `ListMeans`, along the list, inside of `TablesTell`, along the levels of tables that
  are left: the code's text of every list is meant;
* `SortedIs`: the sorted leaves of the reference are those of the text;
* `AtType`: the rank falls along a path, so that no path of `send` is longer than there
  are tables, and the levels that its model counts never end.

The inductions are over numbers, in the form that the provers can do: the set
of the numbers for which a statement fails would have a least one (`UpTo`). A
recursive function is found by proving that a function solves its equation, and
that any other one that does is equal to it (`Solves`).

The proofs found mistakes that the runs had not shown: two definitions
(`SetPeerResumes` of `UdpSocket`, `Exchange` of `HttpClient`) had a `CASE` with
guards that overlap, where TLC takes the first, and `ClientHonest` bounded the
requests sent by the limit of redirects plus one, which a negative limit makes
less than the one that is sent.

Only model-checked:

* everything temporal beyond that (`CallsAnswered`, `EndsReached`, `PoolMoves`,
  `ShutdownEnds`, `Answered`), since liveness under fairness is out of the prover's
  reach.

## 5. What is not modelled

* An asynchronous call (`sleep`, `connect`, ...) inside a C function that cannot
  yield: the goroutine has been started, and the error that `lua_yield` raises
  unwinds Go frames, which has no defined outcome.
* The saved originals under `coroutine._*`, which bypass the scheduler.
* TCP sockets: the bytes themselves (only which positions are spoilt and where the
  line feeds are), `send` (it changes what the peer sees and nothing of the socket),
  timeouts as numbers, the stripping of carriage returns, calls
  refused because another thread owns the socket (they change nothing), TLS. A
  dial that ends after `Stop` leaves its connection open: its event is never handled.
* UDP sockets: what is in a datagram that is sent (what becomes of a Lua value is in
  `LuaOutput`), errors of the network other than one that answers a
  datagram, the counter that makes the local path of a unix domain socket unique,
  a timeout so large that its conversion overflows. The event loop is running:
  a dial that ends after `Stop` leaves its connection open, as with TCP.
* Conversions: how numbers are written, keys of a table that are not strings where
  names are expected, `say` without a request to write to, `golapis.var`, the pool
  of batches.
* HTTP client: the headers and methods that are copied, the timeout, TLS, and whether
  an error comes at once or with an event; a
  redirect may lead anywhere.
* Responses: statuses below 200, which `net/http` sends as informational
  responses; the wording and canonical form of headers. While `read_body` reads
  a slow client's body the event loop waits; time is not in the model.
* Two concurrent calls of `Stop`, and use of a state after `Close`, which nothing
  in the repository does. A call that begins while another goroutine is in `Wait`:
  `HttpServer` shows what `sync.WaitGroup` does then; `StateLoop` takes `Wait` as
  one step.
* The server: a listener that fails, which ends the process, and the statistics
  for the log.
* Panics of Go code other than the negative counter; a panic ends the process.
* LuaJIT itself, garbage collection of unreferenced coroutines, `net` and
  `net/http`, the file server, the command line's options, tools under
  `src/cmd`, `src/examples`.
* Callers that are still waiting when `Stop` ends the loop stay blocked; the
  model shows it (`CallsAnswered` needs its second disjunct), no document
  promises otherwise.

## 6. Plan

Modelled: the event loop, the pool, coroutines, both kinds of cosockets,
requests and responses, the server, and the conversions and the client in
`LuaCalls`; and, but for liveness, every property that holds is proved. What could
be added is in section 5: TCP `send`, TLS, and `golapis.var`.
