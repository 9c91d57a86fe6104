# A TLA+ model of http-server-from-scratch

The repository is a small HTTP/1.1 server in C: one thread, one `poll` loop, a
fixed pool of connections, each a state machine driven by readiness. This
directory holds models of its parts, the TLC runs that check them on small
instances, and proofs, checked by TLAPS, that their safety does not depend on
the sizes the runs chose.

Source paths below are relative to the repository's own `src/` unless they name
another directory.

## The system

| Part | State | Operations | Interacts with |
|---|---|---|---|
| Event loop (`HttpServer.c`) | the `pollfd` of the listener and of each slot | `server_run`: check the router, poll, accept, step each ready slot, compute its events, close | steps connections; asks `conn_phase_event` what to wait for |
| Networking (`Networking.c`) | the client set: slots free (`fd == -1`) or in use | `client_set_add_new`, `add_to_client_set`, `connection_init`, `connection_close` | called by the loop; initialises a connection |
| Connection (`Connection.c`) | phase, keep-alive, request counter, body framing, three buffers, per-phase scratch (a union), stream source | one step function per phase, repeated by `connection_step_process` while the phase changes | the socket, the parsers, the router, the response serialiser, the arena |
| Request parsing (`HttpRequest*.c`, `HttpHeaders.c`, `parser.c`) | the parsed request | `request_parse` and what it calls | reads `req_buf` |
| Body framing (`HttpBody.c`, `ParseResult.c`) | chunk decoder; bytes received or consumed | `conn_recv_body_cl`, `conn_recv_body_chunked`, `chunk_advance`, `transfer_encoding_parse`, `uint_parse` | reads into `req_buf`, decodes into `body_dechunked` |
| Responses (`HttpResponse.c`) | send cursor | `response_serialize`, `response_send`, `chunk_frame` | `resp_buf`, the socket |
| Router (`HttpRouter.c`) | the route table | `router_has_duplicate_routes`, `route_lookup` | handlers, the registry |
| Content registry (`HttpRouter.c`, `Dictionary.c`) | files registered under urls, with their stamps and tags | `content_registry_add_file`, `content_registry_add_dir`, `content_registry_lookup` with its reload | the file system |
| Arena (`Arena.c`) | offset into a slot's backing memory | allocate, mark, rewind | buffers of a connection, scratch of a request |

What is hard here. The thread is single, but the peer, the kernel and the file
system are concurrent with it: bytes arrive in any fragments and at any moment
of a step, a send takes any prefix, a peer shuts down or resets between two
calls, a file is replaced between `stat` and `fread`. `poll` reports what the
socket would do and knows nothing of bytes already in `req_buf`: a step that
returns with work it could do on those leaves the connection asleep. Requests
are pipelined: the bytes behind a body belong to the next request, and `req_buf`
is shifted under offsets that were computed before. A connection is kept alive,
and its slot is later handed to another client: what is not reset is inherited.
A response can be streamed from a source that must be released on every way
out, and whose context lives in memory that is rewound between requests. Two
scanners find the end of a request head, each in its own way. `PROJECT.json`
lists each of these under `hazards` with its line and the properties that would
notice.

What makes each part correct:

- Connection: every index inside its buffer; the next request begins where the
  last one ended; no lost wake-up; no mutual wait; responses in order, once each,
  none after an announced close; a source released exactly once.
- Event loop and networking: no descriptor leaks or is closed twice; a slot is
  stepped only for what its own connection waits for; clients are refused only
  when the pool is full; whoever is ready gets a turn.
- Body framing: the decoder neither reads nor writes outside what it is given,
  and always makes progress or asks for more.
- Request parsing: exactly the well-formed heads that fit are accepted, what is
  kept is what was sent, both scanners agree on where the head ends, and every
  loop ends.
- Router: no duplicate passes the startup check; the first matching route
  answers; a 405 lists the methods of the path.
- Registry: no answer is older than its request, a 304 is given for current
  copies only, one tag names one body.
- Arena: blocks are disjoint and inside the backing; the rewind takes back the
  scratch and nothing that is still used.

## Modules

| Module | Models | Uses |
|---|---|---|
| `Connection` | one slot: the connection's state machine, the event loop as far as it concerns that slot, the client and the socket | `HttpBody`; implements `Session` and `Slot` |
| `HttpBody` | `crlf_find`, `uint_parse`, `chunk_advance` as operators | |
| `Framing` | which clients frame their requests as the protocol asks, and where in such a client's stream a connection stands | `Connection` |
| `Session` | what a slot promises its client, without buffers or phases | |
| `Slot` | what the event loop and one connection owe each other | |
| `Server` | the loop over the listener and all slots, the client set, descriptors | implements `Slot` once per slot |
| `HttpRequest` | `conn_recv_header`, `request_parse`, `transfer_encoding_parse`, loop by loop | |
| `Router` | the startup check and the choice of an answer, loop by loop | |
| `Registry` | the content registry against files that change | |
| `Arena` | allocation, scratch, stream contexts and the rewind in one slot | |
| `MC*` | the instances TLC runs | the module of that name |
| `*Proofs` | inductive invariants, and the theorems that follow | the module of that name |
| `ConnectionProofs` | also what holds when a step of `Connection` returns: no lost wake-up, the contract of `Slot`, the order of answers | `Connection` |
| `FramingProofs` | that a connection keeps its place in a stream, and the promise of `Session` | `ConnectionProofs`, `Framing` |
| `HttpHeadProofs` | what `HttpRequest` makes of a head: its verdict, the reason of a refusal, the parsed request | `HttpRequestProofs` |

The composition is by contract. `Connection` in detail and `Server` for many
slots do not fit into one state space; `Slot` is what each assumes of the other,
and each is shown to implement it: `Connection` by the run `conn_slot`, every
slot of `Server` by the run `server`, and both by proofs, for buffers of any size
and any number of slots.
The verdicts `Connection` takes from the parser are what `HttpRequest` computes;
the answers it leaves open are those `Router` and `Registry` choose between; the
buffers it takes for granted are those `Arena` hands out.

### Connection

One action is one pass of the innermost loop of a step function: at most one
`recv`, `send` or `pull`, and everything the code does up to the next one. The
client's actions interleave between them, which is as fine as the peer can
interfere with the thread.

| Action | Code |
|---|---|
| `HeaderComplete` | `step_header_read` once the terminator is in the buffer, with every refusal in the order of the code |
| `HeaderRecv` | a pass of `conn_recv_header` without a terminator |
| `Send100` | `step_send_100` |
| `BodyClComplete`, `BodyClRecv` | `step_body_cl_read` with `conn_recv_body_cl` |
| `BodyChunked` | a pass of `conn_recv_body_chunked` with `chunk_advance` |
| `ResponseBuild` | `step_response_build`; which handler answers, buffered or streamed, and whether the response fits are open |
| `ResponseSend` | `step_response_send` |
| `StreamSend`, `StreamPull`, `StreamDone` | the phases of `step_response_send_stream` |
| `PollWake` | `poll` reports the slot and `server_run` steps it |
| `Accept` | `client_set_add_new` into this slot, with `connection_init` |
| `Arrive`, `Shut`, `Reset` | the client and the network (external) |
| `Halted` | an assert has ended the process, or the bounded run is over |

`slot` says where the one thread stands as far as this slot is concerned:
`stepping` inside `connection_step_process`, `parked` in `poll`, `free` with
`fd == -1`, `dead` after a failed assert. `Advance`, `Park` and `Close` are the
three ways out of a step function. The fields of `Connection` (the struct) are
variables of the same name; the union `st` is a record whose `arm` says which
member is live, so that reading the wrong member is an error TLC reports.

Bytes are strings. A header block is one string, its name, and `Requests` says
what the parsers find in it; the blank line, size lines and chunk data are kept
byte by byte because the readers look at them. `req_buf` is a window
`base + 1 .. base + size` of the client's stream, which is exact because the
code only appends at its end and moves its tail to its front. `base` is thus
the position on the wire of the request in the buffer, and a response remembers
it (`resp.pos`).

`wire`, `answers`, `released` and `uses` are history: what the peer has of the
current response, which requests have been answered, and how far a waiting
client may go on.

`Session` is the promise to the client: the requests of a stream are answered
in the order of their positions, each once; an answer that announces the close
closes; at most `HTTP_MAX_REQUESTS` answers. `Connection` implements it with
`answers` mapped to position and announcement. `Slot` is the promise to the
loop: a connection that waits for input has read all there was.

What the server can promise depends on the client. `Framing` says which clients
frame their requests as the protocol asks: `WellFramed(c)` holds of a stream of
requests one behind the other, each of which

- ends its head with a blank line;
- is refused by `request_parse` or for its missing Host, or
- has a body of the announced length: of as many bytes as its Content-Length
  says, or of chunks that follow one another up to an empty one;
- fits `req_buf`, and its decoded chunks `body_dechunked`, if the connection is
  to be kept alive after it; and
- does not ask for that if its body is refused (`Kept`, `BodyRefused`), which is
  the case of `find_close.cfg`;

and whose client waits only where a `100 Continue` is owed to it. Nothing is said of
how the stream is cut into fragments, of the lengths of sizes, extensions and
trailers as far as the code accepts them, or of what follows a request that ends
the connection. A chunked body is described by the set of positions where its
chunks begin, closed under going on to the next, so that no definition recurs.

### Server

One action is one system call or one turn of a loop: `Poll` fills `revents`,
`client_set_add_new` takes one client, `Skip`, `StepBegins` and the two
`StepEnds` move the scan from slot to slot. `readiness` is what the kernel would
report of each client's socket; it changes at any moment, so what `Poll` saw can
be old when the scan gets there. `open` is the set of descriptors the process
holds and `refused` a history. What a step does is left to `Connection`: it ends
by closing, or by parking with `POLLIN` or `POLLOUT` and that readiness used up.

`Faults` turns on failing `accept`, failing `fcntl`, and clients that leave the
queue of the listener at any time ("abort"), between `poll` and `accept` too.
`Endless` are clients whose streamed response may never block and never end.
`ClientsAreTaken` and `ReadyIsStepped` name what may keep the one thread for ever:
such a response (`InEndlessStep`), and an `accept` whose client is gone
(`BlockedInAccept`); nothing else does.

### HttpRequest

A byte is a string that names its class; words the code compares as a whole are
one byte (a known method, a version, `transfer-encoding`, `chunked`). A pointer
into the request is an index. Every action is one pass of a loop or one call
between loops: `RecvBytes`, `RecvEnds`, `TooLarge` and `HeadReceived` are
`conn_recv_header`; `method_parse`, `uri_start`, `UriByte`, `UriEnd` and
`version_parse` are `request_line_parse`; `LineEnd`, `header_line`, `KeyByte`,
`value_start`, `ValueByte`, `ValueEnd` and `HeadersEnd` are the header loop;
`NextField`, `CodingElement` and `CodingsEnd` are the loop over
Transfer-Encoding. The properties compare the outcome with `WellFormed`,
`RequestLine`, `HeaderLines` and `DocumentedVerdict`, which say what a head or a
list of codings is without a cursor.

### Router, Registry, Arena

`Router` runs the two loops of `router_has_duplicate_routes` with their indices
(`route_count - 1` on `size_t` included: for a router without routes the outer
loop counts through all of `size_t` before it ends; that its index is an `int`,
which overflows on the way, is left out), then answers requests: registered
content, the loop of `route_lookup`, or an error. `merged` is whether the build
has one object for the literal `"GET"`, which the check compares by pointer.
`checked` is false for a program that calls `route_lookup` itself.

`Registry` splits a load into its `stat` and its `fread`, with files replaced or
removed between them. A file has a version, an `mtime` in whole seconds and a
size; the tag is the pair of the last two. `Policies` says what writers of files
leave unchanged: in "later second" every replacement has a later `mtime`, in
"other stamp" it differs from every earlier one in `mtime` or size, in "any" in
nothing. `cache` is the copy a client holds, whose validators it sends.

`Arena` keeps the blocks that were handed out, so that two which overlap can be
seen to. Offsets and sizes wrap at `SIZE_MAX + 1`. `Bases` are the addresses the
backing of a slot may have.

Operators whose comment begins with "Mistake" belong to no action. Each shows a
slip in the operator after it, and `PROJECT.json` names the property that
notices when it takes that operator's place.

## Runs

| Run | Checks | Bounds and size |
|---|---|---|
| `conn_slot` | `IInv`, `TypeOK`, `OffsetsInBounds`, `SendCursorInBounds`, `ProducerHeldWhileStreaming`, `FramesReachTheWireWhole`, `ParkedOnlyWhenBlocked`, `NoMutualWait`, `ImplementsSlot` | every client of the catalogue on a fresh slot, and pairs of a smaller set one after the other; all faults; 337 thousand states |
| `conn_session` | `BufferStartsAtNextRequest`, `ImplementsSession` | pipelines of up to four requests with resets, blocked sends and failing sources; 146 thousand states |
| `conn_live` | `EventuallyServed` | one client at a time, blocked sends; 46 thousand states |
| `server` | `TypeOK`, `OpenIsHeld`, `RefusedOnlyWhenFull`, `ImplementsSlots`, `ClientsAreTaken`, `ReadyIsStepped` | two slots, three clients, one of them endless, a backlog of two, failing `accept` and `fcntl`, clients that leave the queue at any moment; 135 thousand states |
| `registry` | `TypeOK`, `NoStaleAnswer`, `NotModifiedIsCurrent`, `EtagNamesBody` | one file in any of the four modes, four versions, two sizes, three seconds, six kinds of conditions, failing `malloc`, `open` and scratch memory; 487 thousand states |
| `router` | `TypeOK`, `DuplicatesAreRefused`, `OwnRouteAnswers`, `FirstMatchAnswers`, `AllowIsExact` | all tables of up to three routes over two paths and three methods, all registries, a list of two methods; 55 thousand states |
| `arena` | `TypeOK`, `BlocksDisjoint`, `ScratchIsRewound`, `ContextIsAlive`, `AlignedBaseIsSafe` | a `size_t` of four bits, every size, alignments up to 8, an aligned and a misaligned backing; 89 thousand states |
| `parsing` | `TypeOK`, `ScansAgree`, `OkIsWellFormed`, `RequestIsHead`, `RefusalIsTrue`, `CodingsAsDocumented`, `ParseEnds` | 18,286 texts in every fragmentation; 538 thousand states |
| `find_assert`, `find_resend`, `find_body`, `find_three_routes` | one property each, violated | see Findings |

Why the bounds are enough to be interesting:

- `req_buf` of `Connection` holds 18 bytes, enough for two small requests and too
  small for one long header block, one long chunked body and one Content-Length
  body of 15 bytes; `body_dechunked` holds 2, one less than the largest chunked
  body; `resp_buf` holds 3, so that a pulled block of 1 or 2 bytes fits with its
  frame and one of 3 does not. `HTTP_MAX_BODY_LEN` is 16, which a length of two
  decimal digits can exceed and a chunk size of one hexadecimal digit cannot.
- Three requests per connection: the client `OneTooMany` of `conn_session` sends
  four, so that the limit is reached with a request left over in `req_buf`; and
  two clients are enough for anything the slot inherits, since nothing survives
  two hand-overs that does not survive one.
- `MaxWire` bounds the bytes that partial sends may put on the wire for one
  response. It matters only for buffered responses, where the cursor starts
  again at each wake-up and the wire grows without limit (`find_resend`);
  everywhere else `wire` equals the cursor. `MaxBlocks` bounds the blocks of a
  streamed body, `MaxUses` the clients.
- Three clients for two slots: the pool is full, a client waits in the queue,
  and one is refused.
- In `parsing` the arrays hold 4 bytes of path and of query, 3 of a key, 5 of a
  value and 2 headers beside their NULs, and `req_buf` 22 bytes; the texts have
  every target of up to six bytes, every request line of five words, every short
  header line, every way to end a head early, late or not at all with what may
  follow it, and every list of codings of up to five bytes.
- `MaxVersion`, `MaxTime` and `MaxRevals` bound the files' history: four
  versions are the registered one, the one `stat` sees, the one `fread` reads
  and one after it.
- A list of two methods in `router` is outgrown by three routes of one path.

`conn_session` leaves out clients that are refused after `keep_alive` has been
set: there the code does not keep the promise (`find_close.cfg`). The clients it
has are well framed in the sense of `Framing`, which TLC checks whenever it
loads `MCConnection` (`SessionClientsFramed`). `registry` leaves out replacements
that leave the stamp unchanged (`find_same_second.cfg`).
`NotModifiedIsCurrent` speaks of a lone `If-Modified-Since` only under "later
second", as a date cannot tell two versions of one second apart.

### Fairness

`conn_live` assumes `LiveSpec` of `Connection`:

- weak fairness of the steps and of `PollWake`: the loop in `server_run` polls
  for ever and steps every slot poll reports, which is `ReadyIsStepped` of
  `Server` where no other client keeps the thread (in an endless response, or in
  `accept` by leaving the queue).
- weak fairness of `Accept` and `Arrive`: the client connects and sends on as far
  as it may. It shuts its side only when it has its answers; were it obliged to
  earlier, its shutdown would wake a connection that was wrongly put to sleep.
- strong fairness of sends that take all that is offered. A peer that reads
  frees the buffer of the kernel again and again. Weak fairness would not do, as
  the connection leaves the sending step after each blocked send. This is more
  than the code needs in the streamed phases, where progress adds up, and exactly
  what it needs in `step_response_send`, which starts each attempt over.

Faults other than blocked sends are left out there: a reset ends the promise.

`server` assumes weak fairness of each action of the loop, which is one thread
that goes on whenever it can; that a step of a client outside `Endless` ends;
and that `accept` does not fail for ever (strong fairness of taking a client,
because every failure goes back to `poll`). Clients are under no fairness: one
that left the queue need not be followed by another, and the step of the
`Endless` client need not end, since `step_response_send_stream` returns only
when a send would block. Both are in the run. A ready connection is stepped
unless one of them keeps the thread for ever; a client that waits in the queue
keeps `accept` from blocking, so only the endless response can keep it there.
TLC refutes `ReadyIsStepped` as soon as either exception is taken out of it.

`parsing` assumes weak fairness of the parser's actions alone: once a head has
been received nothing more is asked of the client.

## Proofs

`ConnectionProofs` proves `Spec => []IInv` for every buffer size that satisfies
`SizesAssumption`, every catalogue of requests, every set of clients, any number
of requests per connection and of clients per slot. From it follow `TypeOK`,
`OffsetsInBounds`, `SendCursorInBounds`, `ProducerHeldWhileStreaming` and
`FramesReachTheWireWhole`. None of these is inductive alone. That the index of
the chunk reader stays in the buffer needs the type of the union's live member
and that the decoder's input was non-empty where it says so (`ChunkAdvanceOK`);
that a response starts with a cursor below its size needs that the serialisers
return something; that a new client does not inherit a stream source needs that
a slot is free only in `CONN_CLOSED` or before its first use (`ControlOK`), and
that a source is held only while streaming. The proof has one lemma per action;
`ErrorReplyPreserves`, `DispatchPreserves`, `ParkPreserves`, `ClosePreserves` and
`AnswerSentFacts` stand for the ways a step function can end. The module begins
with the operators of `HttpBody`, for every input and every
`HTTP_MAX_BODY_LEN >= 15`: `crlf_find` returns an offset inside its input,
`uint_parse` accepts nothing above its limit, and, in `ChunkAdvanceOK`, a call of
`chunk_advance` consumes no more than it is given, writes no more than it is
allowed to, leaves a decoder in `CHUNK_DATA` only with bytes to wait for, and
reports `PARSE_OK`, on which the caller loops, only after it has consumed
something.

The second half of the module proves, for the same constants,
`ParkedOnlyWhenBlocked` and `ImplementsSlot`. The argument is one lemma per action: a step goes on, closes,
fails an assert, or parks, and if it parks to read then its last `recv` would
have blocked, and it has left everything else as it was (`StepEnds`); so what
it found out before that `recv` is still true in `poll`. For the chunked reader
this needs `IncompleteStep`: a decoder that asks for more has done nothing, or
has eaten all there was of a chunk's data, and then the next call without input
does nothing (`NoDataStep`). While the connection is parked only the client moves, and it
does not touch `req_buf`. The module also proves `AnsweredInOrder`: the answers on
a connection are those of requests at ever later positions of the stream, and
once a handler has answered a request it is not answered again. Its invariant
adds that a response is built from a header block that is in the buffer
(`HeadHeld`) and that every answer lies behind `base` (`AnswersBehind`).

`FramingProofs` proves that these positions are where requests begin. Its
invariant `FramingInv` says of a connection with a well-framed client, phase by
phase, where in the stream it stands: between requests `base` is where the next
one begins (`BetweenRequests`); from the end of the head until the response is
built the fields `req`, `body_start`, `body_len`, `body_coding` and `keep_alive`
are those of the request at `base` (`HeadFields`); the chunk decoder, in each of
its phases, is in a chunk of the body or between two (`ChunkPos`), and has
written no more than the body's data before it (`DecodedTo`);
`next_req_offset` is where the body ends (`BodyFollowed`); and a response that
will not close the connection is sent with its request left behind (`Replying`).
There is one lemma per step (`HeaderFollows` to `SendingFollows`). They rest on
what the scanners find in a window: a terminator, a CR LF or a size line that is
complete in `req_buf` is the one in the stream (`HeadInWindow`, `LineInWindow`),
and so a call of `chunk_advance` with whatever has arrived moves from one place
of the body to another (`DecoderFollows`). This takes no induction over the
chunks, because `ChunkPos` names the chunk the decoder is in and the set of
chunks is closed: the induction is the one over the steps. That the decoded
bytes fit `body_dechunked` is a count: they are among those of the stream before
the cursor, each of which is written once (`DecodedGrows`).

Three properties follow.

- `NextRequestFirst`: `BufferStartsAtNextRequest`, unless the client gave up
  before it had sent all (`CutShort`). When it does so within a body and
  `keep_alive` is set, the error response is not the end, and what is left of the
  body is read as a request once more before the connection closes.
- `NeverWaitForEachOther`: `NoMutualWait`. A client waits at the end of a head. A
  connection that is parked there has found nothing to go on with
  (`ParkedOnlyWhenBlocked`), so it is not in the header phase, where the head is
  complete; nor in a body, since that head would then be the one of a later
  request, behind a body that is all there.
- `SessionImplemented`: `ImplementsSession`, if "shut" is not in `Faults`, so that
  every client sends all it has, or is gone. Clients may reset, sends may block
  and sources may fail.

Each is proved twice. For the first client of a slot (`uses <= 1`, or
`MaxUses <= 1`) nothing more is assumed. For any number of clients there is the
hypothesis `[][CleanHandOver]_vars`: the first request of each client must not
depend on the `keep_alive` and `body_len` that `connection_init` takes over from
the client before. The hypothesis is needed, since `find_keepalive.cfg` and
`find_bodyless.cfg` show what happens without it. It is met when the fields are
zero, when the request sets both (HTTP/1.1 without `Connection: close`, with a
Content-Length or in chunks), and in between: `ReadAfresh` says it exactly. Of
the fields that a slot hands on it is these two that matter. TLC has checked
`FramingInv` before its proof: add it to the invariants of `conn_session.cfg` to
see that, or to those of `conn_slot.cfg` with `MaxUses = 1`.

`ServerProofs` proves, for any number of slots and clients and any faults,
`TypeOK`, `OpenIsHeld`, `RefusedOnlyWhenFull` and the refinement
`ImplementsSlots`. The
invariant adds that a client is in the queue once, and `ReportedIsReady`: what
`poll` reported of a slot the scan has yet to reach still holds. That is what
the step of the refinement `StepBegins => Wake` needs, and it is true because
`add_to_client_set` clears `revents` of the slot it takes. `RefusedOnlyWhenFull`
counts descriptors: the slots map one to one to open clients.

`HttpRequestProofs` proves, for every set of texts and all sizes of the arrays,
`TypeOK`, `ScansAgree` and `CodingsAsDocumented`. The invariant says where the head found by
`conn_recv_header` ends (`HeadFound`), that every line being read ends at or
before its last CR LF (`InLine`), where the token being read ends (`InToken`) and
that between lines the cursor is behind a CR LF (`BetweenLines`). The heart of it
is `LineEndsInHead`: a line that starts in the head ends in it, so the loop over
lines meets the empty one exactly at `body_start`. For the codings `ListRead`
says what the four counters of `transfer_encoding_parse` know of the elements
before its cursor: how many there are, whether one of them is unsupported, where
`chunked` stands and whether anything follows it. The lemmas
`EarlyCodings`, `FieldsCodings`, `ElementCodings` and `EndCodings` keep it;
`TrimIs` says what `Trimmed` leaves of a text, without its `CHOOSE`.

`HttpHeadProofs` proves `OkIsWellFormed`, `RefusalIsTrue` and `RequestIsHead`, again
for every text, every way it arrives and every capacity. `HeadInv` says at every
step what the passes so far have found out: the request line as far as it is
read, byte by byte (`FirstLine`); afterwards, that path and query hold a
well-formed target (`TargetKept`) and that the headers kept are those of
the lines before the cursor, the n-th header for the n-th line (`LinesRead`,
with `Rank` counting lines); and after a refusal, why (`Explained`). The ends of
tokens are named by quantifiers in it, and each `CHOOSE` of a property is
resolved by a lemma of its own. Acceptance is exact in both directions: the
lemmas of the refusing branches each exhibit what makes the head ill-formed or
too large, which is where an off-by-one in a capacity would show.

`RouterProofs` proves, for every table, `TypeOK`, `DuplicatesAreRefused`,
`FirstMatchAnswers`, `AllowIsExact` and `OwnRouteAnswers`. The invariant says which pairs the two
loops have compared. The inner loop that starts at 1 compares some pairs twice
and some rows with themselves, but misses no pair; a table of three or more
routes never gets that far, which makes it safe and useless. `OwnRouteAnswers`
puts check and search together: where the literals are one object (`merged`), a
request that some route was registered for gets that route, because the check
has left it no rival in the table and none in the registry.

`RegistryProofs` proves `TypeOK` for every way files are written, and
`NoStaleAnswer`, `NotModifiedIsCurrent` and `EtagNamesBody` under
`policy # "any"`, for any number of files, urls, versions and seconds. The
hypothesis is what a stamp made of a size and whole seconds needs to tell
versions apart; with "any" the first of them is false (`find_same_second.cfg`).
The invariant says that the file's stamp is the last it has had (`StampsOK`),
that an entry with that stamp holds the file's version (`EntriesOK`), that a
client's copy with that stamp came from the present entry (`CopiesOK`), and, for
a load between its `stat` and its `fread`, that the stamp in hand is newer than
the entry's and the copy's however the file changes meanwhile (`LoadOK`). The
last is what makes the late body harmless: a body newer than its tag is replaced
at the next look, before its tag can name two.

`ArenaProofs` proves, for every width of `size_t`, `TypeOK`, `BlocksDisjoint`,
`ScratchIsRewound`, `ContextIsAlive` and `AlignedBaseIsSafe`. Blocks lie below the cursor, and the
buffers of an open connection below the mark with all scratch above it. The
assert on a pointer's alignment needs that the base is a multiple of every
alignment asked for, and that rounding the offset up keeps the sum one.

Assumptions, which TLC evaluates in every run: `MaxBodyLenAssumption` (the limit
is at least the largest digit, or `max - digit` wraps in `uint_parse`),
`SizesAssumption` (the knobs of `Config.h` are positive where the code allocates
or loops with them, and error responses and the last frame fit `resp_buf`),
`CatalogueAssumption`, `ServerAssumption` and `TextsAssumption` (types),
`CapsAssumption` (each array has room for its NUL, and the query for its `?`,
which is stored unchecked), `RouterAssumption` (tables are indexed like C
arrays), `ArenaAssumption` (an object and an alignment take up at most half of
what `size_t` counts, as C objects do), `RegistryAssumption` (sizes and times are
numbers, and a registered file has a version).

Only model-checked is liveness (`EventuallyServed`, `ClientsAreTaken`,
`ReadyIsStepped`, `ParseEnds`), which is out of the prover's reach. Every safety
property and every refinement that a passing run checks is a theorem, under the
hypotheses given above.

## Findings

Four are runs that TLC refutes, quoted in `PROJECT.json` with both lines:

1. `find_assert`: a `100 Continue` whose send would block leaves the connection in
   `CONN_SENDING_100`; `conn_phase_event` has no case for it and asserts.
2. `find_resend`: after a partial send `step_response_send` starts the cursor again,
   and the peer receives the head of the response twice.
3. `find_body`: a Content-Length body reaches into the next pipelined request.
4. `find_three_routes`: a table of three routes, all different, is refused as
   having duplicates.

The others have a configuration each that is run by hand,
`tlc -config <file> <module>`; TLC violates the property named.

| File | Module | Property | What the code does |
|---|---|---|---|
| `find_close.cfg` | `MCConnection` | `CloseIsLast` | an error response says `Connection: close`, but the connection closes only if `keep_alive` was still 0; otherwise the same bytes are refused again (`Connection.c:378`; `HttpResponse.c:188`) |
| `find_keepalive.cfg` | `MCConnection` | `KeepAliveIsPerRequest` | `keep_alive` is inherited from the slot's last client (`Networking.c:82`; `Connection.c:362`) |
| `find_bodyless.cfg` | `MCConnection` | `BodylessIsNotRead` | so is `body_len` (`Networking.c:82`; `Connection.c:84`) |
| `find_head.cfg` | `MCConnection` | `HeadIsServed` | `http_method_parse` does not know HEAD (`README.md:29`) |
| `find_chunked09.cfg` | `MCConnection` | `ChunkedIsHttp11Only` | chunked bodies are refused for HTTP/1.0 only, not 0.9 (`Connection.c:153`) |
| `find_accept.cfg` | `MCServer` | `AcceptNeverBlocks` | a client gone between `poll` and `accept`, on a listener that is blocking, leaves the loop waiting (`README.md:21`); `server` shows what follows from it |
| `find_405.cfg` | `MCRouter` | `RegisteredPathGets405` | a path that only the registry has gets 404 for other methods (`README.md:30`) |
| `find_torn.cfg` | `MCRegistry` | `HitIsWhole` | a file that grows between `stat` and `fread` is served cut off (`HttpRouter.h:123`) |
| `find_same_second.cfg` | `MCRegistry` | `NoStaleAnswer` | a replacement of one second and one size goes unnoticed (`HttpRouter.h:124`) |
| `find_leak.cfg` | `MCRegistry` | `ReplacedEntryIsFreed` | a reload leaves the `RevalMeta` of the old entry allocated (`HttpRouter.c:237`) |
| `find_length_text.cfg` | `MCRegistry` | `LengthTextIsBacked` | the text of Content-Length of a dynamic entry lies behind its allocation, which `len_str` was meant for (`HttpRouter.h:44`) |
| `find_long_path.cfg` | `MCRegistry` | `SourceIsRecorded` | a path longer than `fs_path` is recorded cut off (`HttpRouter.h:41`) |
| `find_streamed_tag.cfg` | `MCRegistry` | `StreamedTagDescribesBody` | a streamed entry keeps the tag of its registration (`HttpRouter.h:171`) |

## Not modelled

- The text of responses, dates, content types and logging.
- What a handler does, beyond taking scratch and answering in one of the ways
  the code allows; what the `ctx` of its stream refers to.
- `listener_socket_get` and `server_port_valid`, which run before the loop, and
  `EINTR` in `recv` (the loop repeats without a change of state).
- The buckets and chains of the dictionary: the registry is a function from url
  to entry. `dict_free` and `content_registry_free` run after the loop, which
  never ends.
- The comparison of methods, versions and header names letter by letter.
- `arena_reset` and the list macros other than those of the dictionary, which
  nothing in the library calls, and the example programs.
- The combinations of revents a kernel may report: an error counts as readable.

## Plan

1. The dictionary with its chains, and `dict_insert` on a key that exists while
   an entry of the same bucket is held.
2. `ReadAfresh` stated of the clients alone, so that it can be read off a list of
   requests which clients may share a slot.
3. What a connection does after its client gave up within a body: that it closes
   after at most one more response.
4. Several entries of `Registry` behind one `Router`, so that the startup check
   and a reload are seen together.
5. The frames of `chunk_frame` read back by `chunk_advance`.
