# A TLA+ model of c-http-server

The server is a small HTTP/1.1 server in C: a process with one event loop per
thread, edge-triggered epoll, keep-alive and pipelined connections, `sendfile()`
bodies and a signal-driven shutdown. This directory models it, from the bytes of
a request to the exit status of the process, checks it with TLC on small
instances, and proves with TLAPS, for every instance, all of it but liveness.

## The system and its parts

| part | source | state | operations | modules |
|---|---|---|---|---|
| connection | `event_loop.c` 194-243, 369-701 | `connection_t`: parser, `write_buf`, file body, `pending_input`, `awaiting_writable`; its socket and epoll registration | read, parse, prepare, flush, block, resume, finish, close | `Replies`, `Connection` |
| event loop | `event_loop.c` 201-243, 713-970 | the connection list, the batch of events, timer, own descriptors, heap | set up, wait, dispatch, accept, sweep, tear down | `EventLoop` |
| worker pool | `worker_pool.c` | `worker_t` array, threads, listen sockets | count, create, listen, run, join, free | `WorkerPool` |
| process | `main.c` | shutdown eventfd, signal handlers, exit status | start, signal, close, return | `WorkerPool` |
| request parser | `http_parser.c` | `http_request_parser_t` | init, execute, should keep alive | `HttpParser`, `ByteFeed`, `ChunkFeed`, `RequestGrammar`; where it stops: `Connection` |
| router | `event_loop.c` 247-319 | none | match a route, look a file up, choose a status | `StaticPaths`, `FileServing` |
| static files | `static_files.c` | the document root, the descriptor of a lookup | decode, join, open, verify, stat, close | `StaticPaths`, `PathMeaning`, `FileServing` |
| response heads | `event_loop.c` 321-362 | none | format | their length: `Replies` |

They interact like this. `main()` opens the eventfd, installs the handlers and
calls the pool; the pool creates threads, each of which opens a listen socket
and calls `event_loop_run()`; the loop owns its connections. Loops share no
variable but the eventfd, which the signal handler writes and nobody reads; they
do share the descriptor table of the process and the file system. A connection
is touched only by its loop's thread, but its socket is shared with the client
and the kernel, and that is where the interleavings are: between any two system
calls bytes arrive, buffers drain, peers vanish.

What is hard about this code, and what the properties are aimed at:

- edge-triggered epoll: an edge is reported once, so work left behind is lost;
- a response that blocks halfway, with more requests already read behind it;
- descriptors and heap objects with many exits, in several threads at once;
- a parser that stops and resumes at any byte, with a limit on every field;
- paths decoded, cut and joined by hand, and a file system that changes between
  two system calls on the same path;
- one thread walking a batch of events that its own actions make stale;
- a clock in whole seconds and a sweep on a timer of its own;
- partial failure during startup, and a signal at any moment of it.

`PROJECT.json` lists the hazards line by line with the properties against them.

## Modules

**`Replies`** abstracts what travels on a connection. The client's stream is a
sequence of bytes, each either inside a request or ending one. The ending byte
carries what the server will do about the request: malformed or not, keep-alive
or not, file or not, the length of the head as `snprintf()` reports it, the
length of the body. A reply byte is (request, part, index). `RepliesInOrder`
defines, without any of the server's state, what a correct output is. The
content of paths, headers and bodies is abstracted away; whether a request is
answered by a file and how long its head is are free.

**`Connection`** is one `connection_t` with its socket and epoll registration.
A step of the loop thread is the code between two system calls, and `pc` names
where it is; the client sends, half closes, resets and drains in between, and
a served file may shrink. `chunk` is the pair (`data + offset`, `len`) of
`process_input()`, buffers are intervals of stream positions. `EPOLL_CTL_MOD`
polls again, as in the kernel; `epoll_wait()` re-polls what it reports.
Errors of `read`, `write`, `sendfile` (reset), of both `EPOLL_CTL_MOD` calls
and a `sendfile()` end of file are all there. `open_files` is the set of requests
whose file is open: `prepare_response()` is handed an open file by the router,
gives it to the connection, or closes it if the head did not fit.

**`HttpExchange`** is what a connection promises: bytes come in, more of the
right answers go out, one side ends it. `Connection` implements it with
`stream` and `out` mapped to themselves and `open` to `pc # "closed"`.

**`EventLoop`** is one `event_loop_run()`: the seven setup calls and their error
paths, batches of at most `MAX_EVENTS`, accept with its outcomes, the doubly
linked list with its link fields, the sweep with its cursor, the teardown. A
connection is in the list before `EPOLL_CTL_ADD` is tried; when that fails (`pc
= "unregistered"`) `close_connection()` takes it out again. A handler is reduced
to its outcomes for the loop: it closes, or it moves bytes or not, sets
`last_activity` or not, blocks or not. An event for a connection that was freed
is undefined behaviour: `pc = "undefined"`, after which nothing is claimed.
`touched`, `moved`, `stale` and `gave_up` are history variables.
`config->shutdown_fd` is a descriptor, as `main()` always passes one. Time
passes in ticks, `TicksPerSecond` of them to the second that `time()` counts;
the wall clock may be set while the loop sleeps, to any offset in `Skews`, and
`MaxJump` is how far two of its settings are apart.

**`LoopContract`** is `event_loop_run()` for its caller. `EventLoop` implements
it and `WorkerPool` uses its transitions.

**`WorkerPool`** is `main()`, `worker_pool_run()` and the threads. Every call
that may fail does, but `pthread_join()`: its errors are for threads that are
not joinable or would wait for themselves, and the pool joins each thread it
created once, so the branch at `worker_pool.c` 250-255 is never taken. The two
environment variables that hold numbers hold any number or none. Before the
handlers are installed a signal kills; afterwards it posts to the eventfd if
that is open.

**`HttpParser`** is the parser as operators: the record `http_request_parser_t`,
one operator per case of the `switch`, and `step`, one turn of the loop in
`http_parser_execute()`. A byte is known by the character classes it is in, and
the words the code spells out (`GET`, `HTTP/1.1`, `Connection`, `close`,
`keep-alive`) are constants: sets of byte sequences of any length, one per
spelling. `is_valid_version()` is membership in the domain of `Versions`. Of
`note_connection_header()`, the outer loop is the recursive function in `Scan`;
its inner loops, which only move a pointer past a run of characters, are the
position they stop at (`Past`, `Trimmed`).

**`ByteFeed`** is what `http_parser.h` promises of it: bytes are eaten one by
one, and after a request a fresh parser goes on. **`ChunkFeed`** is how
`event_loop.c` really drives it, in chunks as `read()` returns them, with the
second look at a byte (`advance = 0`) as a step of its own, and implements
`ByteFeed`. `done` is mapped to the offset of the current request, `fed` to the
bytes of it the parser is past, and a parser about to look at a byte again to
the one before its first look. **`RequestGrammar`** says what a request is, and
what it asks of the connection, without a state machine: lines, fields, tokens.
`CallsAreRight` of `ChunkFeed` is stated in its terms.

**`StaticPaths`** is the half of `static_files.c` that touches no file, on byte
codes: one behaviour takes the path of one request through `route_request()`,
the loop of `decode_path()` byte by byte, the loop of `join_under_root()`
segment by segment, and what `static_file_open()` does before `open()`. `answer`
is what comes of it: a built-in route, 400 (`"invalid"`), 404 (`"missing"`) or
the name in `fs_path`. `is_within_root()` is an operator. **`PathMeaning`** says
what a path means without a loop: which positions begin a byte or an escape,
which pieces between slashes count, which bytes of them make up the name, and
what it is for a canonical path to be below another.

**`FileServing`** is the other half, with several workers: accept, route, then
`open()`, `readlink()` of `/proc/self/fd/N` and `fstat()` as separate steps,
`prepare_response()` and the flush, over one descriptor table. Between any two
steps a name may be made to lead elsewhere and an inode may move into or out of
the root. Any free descriptor may be returned, any call may fail. `found` and
`body` are history variables.

## Runs

| run | instance | shows |
|---|---|---|
| `connection` | 5 requests, stream of 3 bytes; fair | replies in order, input conserved, blocked writes armed, files closed, no edge lost; implements `HttpExchange`; every request answered, gone clients closed |
| `event_loop` | 3 connections, batches of 2 | exact list, live cursor, drained accept queue, no leak; implements `LoopContract` |
| `event_loop_time` | half-second clock, timeout 2 s, 1 address, 2 clients, the wall clock set back by half a second; fair | how late and how early a sweep can be; shutdown ends the loop, queued clients are accepted |
| `parser_chunks` | 883 streams: two pipelined requests, everything one replaced or inserted byte away from them, and one header too many; chunks of 1 to 6 | buffers hold, cuts do not matter (`ByteFeed`), every call reports what the grammar says of the stream, no spinning |
| `parser_grammar` | all strings up to 19 bytes that the parser goes along with, 8 byte classes | it completes exactly on requests, gives up exactly when none can come, and `Connection` headers and versions decide as the grammar says |
| `static_paths` | all paths of `/` and up to 4 units, and shorter ones that begin otherwise; roots `/e` and `/`, buffers of 7 | the name opened is the one meant and only goes down; containment; what is routed |
| `file_serving` | 2 workers, 3 connections, 4 descriptors, 2 files and a directory behind one name | one owner per descriptor, what is served was checked, 405 means found |
| `worker_pool` | up to 3 workers, fair | shared state outlives workers, orderly exit; a signal ends the process, a dead pool exits |
| `event_loop_dangling` | violation | see Findings |
| `event_loop_slow` | violation | see Findings |
| `event_loop_status` | violation | see Findings |
| `parser_later` | violation, the instance of `parser_grammar` | see Findings |

Bounds. The replies of the connection run need 1 to 3 bytes against a socket
buffer of 1 and `sendfile()` chunks of 1, so heads and bodies block at every
point. Three stream bytes are three pipelined requests,
or fewer in pieces; with reads of up to 3 they arrive together or apart, so two
requests can wait behind a blocked one and be stashed twice. One head just
fits; another, of a request that is answered by a file, is exactly
`RESPONSE_BUF_SIZE` and does not fit with its NUL. Three connections have a head, a middle and an
end; batches of 2 leave events on the ready list. The time run allows 8
half-seconds: a timeout, a sweep interval and a whole period more, from either
phase of the second, with the half-second by which the clock is set back; one
address makes the second client meet a failed allocation, two clients leave one
in the accept queue. Nothing breaks in that run (`MaxBroken` is 0): a hang-up
closes its connection as a handler may, and a broken descriptor of the loop's own
leads to the teardown as a failed `epoll_wait()` does, so both effects are there
without it. The wall clock is never set in the other runs. Addresses
are symmetric in `event_loop`, descriptors, regular files and the connections of
one worker in `file_serving`: nothing but identity is asked of them.

The parser's limits are 2 to 5, each reached and crossed by some stream; a
version is one byte or two instead of eight, which shortens the strings and
loses nothing, since only what it is known as matters; 1.0, 1.1 and 2.0 are
known. `parser_chunks` needs long streams and few of them, `parser_grammar` all
strings and short ones; 19 bytes hold two `Connection` headers. The units of a
path are single bytes, `ee`, the escapes `%2e`, `%2F` and `%00`, and a lone `%`,
so that escapes are whole, cut short and adjacent; 7 bytes of buffer are filled
exactly and overflowed by both loops. Four descriptors cannot serve three
sockets and two files, so the table fills up in the middle of lookups. One name
is enough because a lookup uses one.

`MaxStream`, `MaxTime`, `MaxArrivals`, `MaxBroken`, `MaxBytes` and `MaxUnits` are
bounds of the models and of nothing in the code.

Deadlock is checked in every run of the connection, the loop, the pool and the
files; a closed connection, a returned loop and an ended process stutter
explicitly. It is not checked where the model ends with its input: the parser at
the end of its stream or after its last request, and the paths.

Fairness. Weak fairness of the loop thread's steps: the thread is scheduled,
its sockets are non-blocking, and `epoll_wait()` returns while something is
ready. Weak fairness of `main()` and of each worker thread in the pool, and of
the parser's own steps in `parser_chunks`: it is a loop without a system call.
Nothing is assumed of clients, signals, failures or the clock;
`EveryRequestAnswered` and `GoneClientIsClosed` have as a hypothesis
(`ClientKeepsReading`) that again and again the client has drained all that was
sent, or has reset the connection, or the server has closed it.

## Findings

- *A swept connection's event is still in the batch* (`event_loop_dangling`).
  The timer's event may come before the event of a connection in one batch. The
  sweep frees the connection if it has been idle for the timeout, and the loop
  then handles its event. The comment in `close_connection()` says `close()`
  suffices.
- *A slow download is swept* (`event_loop_slow`). Progress of a blocked
  response does not set `last_activity`. The comment in `main.c` says a client
  on a slow link is never punished.
- *-1 from a loop that ran* (`event_loop_status`). `event_loop.h` reserves -1
  for a loop that could not be set up. `LoopContract` allows it, as the code does,
  and so the status that `ExitIsOrderly` says the pool returns follows `served`,
  which such a loop leaves false, where `worker_pool.h` 27 says 0 if at least
  one worker ran.
- *A later version is not persistent* (`parser_later`). `http_parser.h` 113-114
  says that HTTP/1.1 and later persist by default;
  `http_parser_should_keep_alive()` asks for major version 1, and
  `is_valid_version()` accepts any digit. `Persists` of `RequestGrammar` is as
  the header has it. `PersistsAsAsked` leaves out exactly the requests for which
  the two differ (`LaterByDefault`: a major version above 1 and no known
  `Connection` token), `PersistsAsDocumented` does not and is violated.

Three more places where the code is not what a comment says. The properties that
hold are stated as the code has them:

- The sweep's timer is monotonic and its `time()` is not: a connection stays, or
  goes early, by as much as the clock was set. The comment on the sweep interval
  (`event_loop.c` 38-40) bounds the delay by that interval alone; `NoLinger` and
  `SweepNotEarly` have `MaxJump` in their bounds.
- Blanks between the colon and the value of a header count against no limit, so
  a line may be of any length without being rejected, where `http_parser.c` 245
  and `tests/test_http_parser.c` 231-233 say that the limit catches a value that
  never ends. `IsHeader` of `RequestGrammar` measures the value without them.
- `path_is()` says that "routing only cares about the path portion"
  (`event_loop.c` 246) and takes a fragment for part of it, where
  `decode_path()` ends the path at either: `/hello#x` is not the route `/hello`
  but is looked up as the file `/hello`. `RoutesTo` and `Live` of `PathMeaning`
  have the two ends as the code has them.

## Proofs

Every theorem is about the same definitions the runs check, for all values of
the constants that satisfy the named assumptions of the module.

**Connection.** `ConnectionProofs` holds for every set of requests, every buffer
size, chunk size and stream length; the assumptions are
`RepliesAssumption` and `ConnectionAssumption`, which only give the constants
their types and say that the fixed 500 text fits its buffer and that a
malformed request opens no file.

It first proves `Spec => []IInv`. `IInv` is `TypeOK`,
`InputConserved`, `BlockedWriteConsistent`, `FilesOwned` and `NoLostEdge`,
strengthened by two conjuncts. `Shape` ties each place in the code to what holds
there: counters in range, no response pending where a new one is prepared, mask
and flag for the place. `EdgeKept` says that an edge found by the
`EPOLL_CTL_MOD` back to `EPOLLIN` stays on the ready list while
`flush_pending_write()` works through the stashed input; without it `NoLostEdge`
is not inductive, because that handler returns without reading to `EAGAIN`.
There is one lemma per action and one step per conjunct.

Its second half adds `Sync`, which relates the last byte sent to the request
being parsed or answered and to the counters of the pending response. Output
grows only by `write()` and `sendfile()`, and the appended bytes follow the last
one in the sense of `Follows`. From it follow `AnswersAreInOrder`
(`Spec => []AnswersInOrder`) and `Refinement` (`Spec => ImplementsExchange`).

**Parser.** `ChunkFeedProofs` holds for every alphabet, all limits and all
streams; `HttpParserAssumption` says how the character classes relate (no class
holds CR or LF, names hold no blank and no colon) and that a header line has room
for one byte and its NUL. `IInv` has the positions in order, `Good` (the fields
are typed and within their buffers, and a header under way has a name within its
line), and that a byte is looked at again only in `HEADER_VALUE`, inside a call,
and is no blank. With the last conjunct the two looks are together one `Eat` of
`ByteFeed`, which is what `ChunksDoNotMatter` (`Spec => ImplementsByteFeed`)
comes down to; without it the second look could be anything.

`GrammarProofs` shows that the state machine and the grammar agree, for every
alphabet, every set of words and every limit. Its further assumption
`GrammarAssumption` says that the separators are different characters, that a
method, a path and a version can be spelled at all, and that no token means two
things. `Shape` is the inductive invariant: for each of the parser's states it
says which string was fed so far, by its parts. A complete line and its break
are a prefix that never changes again, with as many headers as `header_count`
says; the line under way is a method, a method and a path, and so on, with what
the buffers hold as its last part; in `ERROR` the string is `Hopeless`, a prefix
of no request. There is one lemma per state, and what the machine knows by its
state is turned into a statement about positions by lemmas on where the lines of
a string end. `AcceptsExactlyRequests` is `Spec => []CompleteIsRequest`;
`RejectionIsFinal` says that no continuation whatever makes a request of rejected
input; `RejectsInTime` is `Spec => []GivesUpInTime`, for which a shortest ending
is shown to complete each state's string.

`PersistenceProofs` shows that the answer of `http_parser_should_keep_alive()`
is the one the request asks for (`PersistsAsItAsks`, `Spec =>
[]PersistsAsAsked`), the default of a version after 1.x apart, under the same
assumptions. Two things make it hard. One is the scan of a header's value, a
recursive function where the grammar has a set of pieces between commas and the
last one of them. `ScanFindsLast` bridges them without induction over data: a
function that answers every position by the last known token at or after it is
shown to satisfy the equation of `Scan`, so `Scan` satisfies it as well, and if
it differed from that function anywhere it would differ at a last position,
whose next turn is right. The other is that the parser looks at one line at a
time and the grammar at all of them. `Remembers` is the inductive invariant: for
each of the parser's states it says what `version`, `header_line`,
`header_name_len` and `connection_directive` hold of the bytes fed so far, the
directive being that of the last known token up to the last finished line. It
needs that a token once found is the same token of every longer input
(`NotedKept`), and that the tokens of a line, with the blanks before its value
dropped by the copy into `header_line`, are those of the value (`HeaderNoted`).

`ReportsAreTrue` (`Spec => []CallsAreRight`) puts the three together and is what
`event_loop.c` relies on: under `GrammarAssumption`, for every stream and every
way it is cut into reads, a call reports COMPLETE exactly at the end of a
request, the connection then persists as that request asks (with the same
exception), and after ERROR no further byte of the stream would have made a
request. The theorems of `GrammarProofs` and `PersistenceProofs` are taken over
through the refinement mapping of `ImplementsByteFeed`, with their assumptions
proved from those of `ChunkFeed`.

**Paths.** `PathProofs` holds for every path, every `PATH_MAX` and every set of
roots in canonical form, which is what `realpath()` returns; `HELLO` is any
string without a question mark. `DownInv` says that while the name is being
joined it is the root or a canonical path below it, and that what was decoded has
no NUL. From it follow `OpenedNamesGoDown` and, with no loop involved,
`WithinIsExact`: a prefix that ends at a slash is the same as having the
ancestor's segments. `MeantInv` relates each loop to `PathMeaning`: `decoded`
spells the bytes whose starts the first loop has passed, `fs_path` is the root's
prefix and then the bytes of the segments the second loop has taken, in order.
A step adds exactly the next start, or the next segment with the slash before
it. The set of what is passed grows by its new greatest element, and the
position of a byte in the output is the number of starts up to it; that is where
the counting in `Listed` comes from. The three ways out are the first malformed
escape, the first `..` and the first byte or segment too many, and each is shown
to be what `IsMeant` decides on (`NamesAreMeant`).

**Files.** `FileServingProofs` holds for any workers, connections, names, inodes
and descriptors. `IInv` is `TypeOK`, `Own`, `Control` and `Checked`. `Own` is
ownership in both directions: what a variable holds is open and stands for the
right thing, what is open is held. `Control` says which of a worker's variables
mean something at which place, and that a connection holds a file only while it
is being flushed or is blocked. `Checked` carries what `readlink()` saw to the
response.

**Pool.** `WorkerPoolProofs` holds for any `MAX_WORKERS`, any CPU count and any
environment. `IInv` adds to `TypeOK`: nothing runs before the pool
(`NothingYet`), the array and the eventfd exist where they are used
(`Lifetimes`), the flags of a worker agree with its thread (`Flags`), the loops
over workers have done their part below `i` and nothing above it (`Progress`),
and how the process can have ended (`Ending`).

**Event loop.** `EventLoopProofs` holds for any set of addresses, batch size,
timeout and setting of the clock. The list is the difficulty. Handlers, cursor
and sweep need its order only: `Linked` says that there is a rank for each
address by which the live ones are sorted, with head, `next` and `prev` being
the first, the one after and the one before. Insertion gives the new connection
a higher rank than all, removal needs no new ranks. `QueueIsSeen` follows the
edge of the listen socket from ready list to batch to accept loop,
`SetupProgress` the setup call by call, and says what each place of the loop
finds: the listen socket registered, an empty batch before the wait, and a
connection at the head of the list that a failed registration can take out.
`LoopMeetsContract` is `Spec => ImplementsContract`.

Its second half proves `NoLinger` and `SweepNotEarly` for any resolution of the
clock, timeout and interval, and however the clock is set. `TInv` adds to
`IInv`: `last_activity` is the time of the last activity by one of the clock's
settings, rounded (`Stamps`); the timer's next expiry is at most a period away
and its event, while on its way, is as old as the expiry (`TimerRuns`); and every
connection that should be gone is about to be swept, either because a sweep is to
come or because it is at or behind the cursor in the order of the list (`Swept`).
Two rounded times and two settings of the clock then cost less than a second and
at most `MaxJump`, which is all the arithmetic there is. It also proves
`EveryConnectionIsListed` (`Spec => []ListIsExact`): the invariant is that the
live connections are spelled out by a sequence that the links follow both ways,
and `list_insert()` and `list_remove()` put one in front of such a sequence or
take one out of it.

Only model-checked: the liveness properties (`EveryRequestAnswered`,
`GoneClientIsClosed`, `ShutdownEndsLoop`, `QueuedClientsAccepted`,
`SignalEndsProcess`, `DeadPoolExits`, `AllIsParsed`), because fairness is defined
by `ENABLED`, which is out of the prover's reach; and the absence of deadlock, for
the same reason. Every invariant and every refinement that a passing run checks
is also proved.

## Not modelled

- The text of responses and logs: `build_response()`, `build_file_response_head()`
  and `content_type_for()` choose and format words that nothing in the program
  reads again. Their length matters and is modelled.
- TCP below the socket, including replies destroyed by the reset that follows
  `close()` with unread input: what the kernel does there is not in this code.
- A client that sends as fast as the loop reads, which keeps
  `handle_client_readable()` from returning; the code sets no bound, and a model
  with bounded streams cannot show it.
- How `SO_REUSEPORT` spreads connections over the workers, which the kernel
  decides.
- Loops, pool and files in one state space: they are composed through
  `LoopContract` and through the outcomes of handlers and lookups, and the product
  of the modules is out of TLC's reach.
- The tests, benchmarks and scripts, which are not part of the server.
