# A TLA+ model of brain-sdk

brain-sdk is the client of the Brain memory database in Python, Rust and
TypeScript. The three packages share no code. This directory models the Python
client from the verbs and payload classes down to the frames and the connections
(threaded and asyncio), its pool and its HTTP change feed, and the retry loops of all
three languages. TLC checks the models on small instances; TLAPS proves the safety
properties of all of them, and that the asyncio connection implements its abstract
specification, for every value of the constants. `PROJECT.json` is the index: components, runs, mutants,
the definition-to-source map, findings, hazards and theorems.

## 1. Inventory

| Component | State | Operations | What makes it hard | Correct when |
|---|---|---|---|---|
| Connection ("mux"), one per client: `python/.../mux.py`, `aio/mux.py`, `rust/src/mux.rs`, `typescript/src/mux.ts` | route table stream id -> queue, next stream id, closed error, write lock, read buffer | request, request_one, request_on_connection (ping), subscribe, send_bye, close; the reader loop | callers and a reader share table and socket; time-outs race late frames; failure races registration; stream 0 is shared | an answer reaches its own call, whole and in order; a failure wakes every waiter; no route leaks |
| Subscription handle | its queue, `_ended` | next, unsubscribe, close | the end of the stream, an error and a drop are three different signals | next ends when the stream does |
| Pool: `pool.py`, `aio/pool.py`, `pool.rs`, `pool.ts` | member list, round-robin counter, one reconnect lock per slot | connect_with, get, get_healthy, close | concurrent reconnects of one slot; partial opening; close racing reconnect | one reconnect per dead member; no connection lost; no slot left locked |
| Retry: `retry.py`, `aio/retry.py`, `retry.rs`, `retry.ts`, and the HTTP loops | attempt, delay | with_retry, backoff, jitter | a lost answer makes a write ambiguous; four copies of one schedule | a write is applied once; waits in bounds; the copies agree; the loop ends |
| Handshake | phase | HELLO, WELCOME, AUTH, AUTH_OK | replies that lack a key, an unoffered version, failure half-way | a session opens only with everything the server must say |
| SSE feed: `http/sse.*` | line buffer, pending event, last id | next, close | last id moves before the event is delivered; a read waits for a full measure | resuming after last id loses nothing; an event that arrived is handed out |
| Frame codec, CBOR: `wire/` | none | encode, decode, scan | boundary checks, a stream cut anywhere, floats | decode inverts encode; bad input is refused |
| Verbs: `client.*`, `verbs.*`, `http/client.*` | none of their own | about 80 verbs over each transport | opcode pairing, which verbs may be retried | the three languages agree |
| Payload types: `wire/types.*`, `http/types.*` | none | field-by-field conversion | keys left out, nulls, defaults and rounding that two sides must read alike | the receiver finds what was meant |

A client owns one connection, or a pool owns several clients and replaces one when
its `is_closed` turns true. `with_retry` wraps any client call from outside: it
sees only the exception. The HTTP clients have their own loop, and use no
connection object.

## 2. Modules

| Module | Models |
|---|---|
| `MuxPy` | the threaded Python connection with its subscriptions, reader thread and close |
| `MCMuxPy` + `MuxPy*.cfg` | small instances of it |
| `MuxPyProofs`, `MuxPyOrderProofs` | `MuxPy`: routing, failure and leaks; then whole frames and answers in order |
| `PoolPy`, `MCPoolPy`, `PoolPy.cfg` | the threaded Python pool |
| `PoolPyProofs` | no connection is lost, only a dead member is replaced |
| `Retry`, `MCRetry`, `Retry*.cfg` | the retry loops of all seven clients against a server with an idempotency table |
| `RetryProofs` | writes stored once, waits in bounds, one curve, for every policy |
| `Demux` | what a connection promises its callers (abstract) |
| `MuxAio`, `MCMuxAio`, `MuxAio.cfg` | the asyncio Python connection, shown to implement `Demux` |
| `MuxAioProofs` | cancellation, failure and `aclose`, and the refinement of `Demux` |
| `HttpFeed`, `HttpFeed*.cfg` | the Python HTTP change feed and a caller who resumes it |
| `HttpFeedProofs` | nothing handed out twice, at most one event lost per drop |
| `Schema` | how one field of a payload class is written to and read from a map |
| `CognitivePayloads`, `OperationPayloads`, `GraphPayloads` | every class of `wire/types.py`, field by field, in the conventions of `Schema` |
| `Verbs` | every opcode, and every verb's request, answer and way of reading it |
| `FrameCodec` | `encode_frame`, `decode_frame` |
| `Calls`, `MCCalls`, `Calls.cfg` | the composition of the last six: one exchange after another over a byte stream |
| `CallsProofs` | the round trip of a field and of a payload, and `RequestArrives` as a theorem |
| `CallsAnswerProofs` | what a call makes of its answer: three theorems and the types |

### MuxPy

Each member of `Calls` is one call by some thread, and names the queue that call
registers. `pc` says where the call is: `register` (`_register`), `write`, `send1`,
`send2` (`_write`, two system calls of one `sendall`), `wait` (`_next` in `request`),
`open` and `next` (a subscription handle between and inside `next()`), `drop`
(the `finally` or the clean-up of `next`), `close`. The reader's `rpc` is `loop`
(`read_frame` looks at its buffer), `recv` (blocked in the socket), `put` (holds a
frame and the queue it looked up), `pong`, `pong1`, `pong2` (answering a heartbeat),
`dead`.

A step is one critical section, one queue operation or one system call, so all the
interleavings of the threads appear. The table look-up and the `put` of the reader
are two steps, because the code releases `_routes_lock` between them.

`unsubscribe` is not an action of its own: it is a `request_one` on a fresh stream
(another member of `Calls`), after which the server sends the empty EOS frame.
`_ended` is `pc \in {"drop", "done"}`.

Frames carry two fields the code does not have: `of`, the call being answered, and
`n`, the position in that answer. They let the properties say "its own" and "in
order". Payloads, opcodes (other than ERROR and SERVER_PING) and byte layout are
abstracted away. `reused` is a history variable: some id has been issued twice.

`close()` deserves a note. It calls `socket.close()` and nothing else. In CPython on
Linux this neither wakes a thread blocked in `recv` on that descriptor nor sends a
FIN while the call lasts. So `Close` only clears `sockOpen`; a reader that has not
entered `recv` fails with an OSError, one that has stays there until the peer acts.

The server (external) reads whole frames, answers streams in any order and the
frames of one stream in order, may send heartbeats or bytes that do not decode, and
may hang up or reset. It need never end an answer: the deadline of `_next` is per frame,
so after a frame without EOS the caller waits again.

### PoolPy

`connect_with` opens the members one by one and unwinds on a failure. `get_healthy`
is split where other threads can come in: slot choice, test without the lock, lock,
test again, dial, install. `close` walks the list and reads each slot when it comes
to it. `alive` is the negation of `is_closed`.

### Retry

One operation of one client. `attempt` counts from 1; a failed attempt either ends
the operation or chooses a sleep from the client's window. The schedule, the jitter,
the retryable set and the loop condition are separate definitions per language, so
each is compared with its own source and `SameCurve` compares them with each other.
`Dropped` is the error a lost connection surfaces as: Rust's connection makes it a
`Protocol` error (`mux.rs:206-212`), which its `is_retryable` refuses, and the other
clients report a closed connection, which theirs accepts.
The request of an abandoned attempt stays in `flying` and may be carried out later.
The server (external) keeps the keys of the writes it has carried out; a write
without a key is a new write to it. `Doubling` is the power of two of the schedule.
Delays are whole ticks, and the policy's domain
ends at 1024 attempts, beyond which Python's `2 ** (attempt - 1)` is no float.

### MuxAio and Demux

The asyncio twin of `MuxPy`. One event loop runs the tasks, so a step is the code
between two awaits, and the races inside `MuxPy` are gone; in their place any task may
be cancelled at any await (`Cancel`). `pc` names the await: `lock` and `drain` (in
`_write`), `wait`, `open` and `next` (a subscription), `close`, `stop` (awaiting the
cancelled reader) and `flush` (`wait_closed`). `Leave` is the `finally` clause; the
`async with` on the write lock is in `Cancel`. `c2s` is what the transport and the
socket hold; `drain` waits while it is above `HighWater`, and the peer need never read.

`Demux` has no ids, queues, lock or reader: a call opens, the server answers it with
frames 1, 2, ..., the call is handed those in order, and it returns normally only with
all of them. `Promise` in `MuxAio` maps the code's state to it (`PhaseOf`, `TakenBy`;
a call on stream 0 maps to one that never opens) and `Implements` is `Demux!Spec` under
that mapping. Pings are outside the promise because they share stream 0. The scope is
stated as an assumption: fewer calls than ids, so none is issued twice.

### HttpFeed

The response is a sequence of lines; an event is an id line, a data line and a blank
one. `Read` stands for `HTTPResponse.read(4096)`, which returns a full measure or what
is left at the end of the response, not what happens to have arrived. `Field` moves
`last` at the id line; `Dispatch` hands the event out at the blank line. `Reconnect` is
a caller who does what the documentation says: `subscribe(from_lsn=last_event_id)`.
The edge (external) replays what is after that LSN and sends a comment when idle.

### Calls and the modules below it

A payload class is a function from its fields to a convention: may the value be None,
when is the key left out, what does a missing key read as, what is done with the item,
which class is nested. `Schema` names the conventions that occur (`Req`, `Nul`, `Opt`,
`DefInt`, ...), `Write` is `to_map` on one field and `Read` is `from_map`; the payload
modules say which convention each field of each class has. Values are reduced to what
the conventions tell apart: None, the default, another value, a float that single
precision rounds, a float beyond its range. A field is an f32 (`round_f32`), a marked f64
or a plain float, and only the last is written as a double whatever its size: the Float of
a `StatementValue` is the one such value a client sends. What a conversion refuses
(`Encodable`) raises before anything is sent. The server writes its f64 fields as doubles
(`Sendable`), and is assumed to read and write by the same conventions otherwise.

`Calls` takes one exchange of `Verbs` at a time through its whole way: the request is
written and read by the server; the answer's frames become cells of a byte stream; the
client receives any number of cells at a time, `DecodeFrame` cuts frames, `request` or
`Subscription.next` collects them, the verb checks opcode and count and decodes.
At most one thing is odd in an exchange: other values, a payload over the advertised
size, an ERROR, a wrong opcode, an extra frame, trailing bytes, something else than a map,
one item missing, null, of the wrong type or with an unknown tag, a damaged cell, a
hang-up or a reset after any cell, a reset while the request is written, a deadline that
passes before the next frame. `FailError` is the choice `_fail_all` makes: an OSError and
a ConnectionClosed are kept, everything else becomes a ConnectionClosed.

Things the model makes visible that a reader of the code may miss: a null in a
non-optional field is read as None by the plain readers; `EvidenceRef` reads every
unknown tag as `Overflow`; `Subscription.next` looks at no opcode but ERROR, so a foreign
frame of the right shape is an event; a subscription whose connection is closed ends like
one the server has ended, but one whose connection is reset raises `OSError`. Two things
`errors.py:3-9` says are not so: "Every connection operation raises
a BrainError" fails for a reset, which every verb raises as `OSError`, and for a payload
the server got wrong, which leaves as `KeyError`, `TypeError` or `CborError`; "Frame-codec
failures keep raising FrameError" fails for a reply that does not decode, which is
wrapped in a `ConnectionClosed`. An ERROR whose code is null raises
`TypeError`, because the message formats the code as a number. And `_shortest_float_bytes`
raises `OverflowError` for a double beyond single range, which its docstring says is
written as a double; no request has a marked f64, so a caller meets it only in `round_f32`.

## 3. Runs

| Run | Checks | Instance |
|---|---|---|
| `mux_streams` | `TypeOK`, `OwnFrames`, `FramesInOrder`, `WokenOnFailure`, `FailedTableEmpty`, `NoRouteLeak` | two calls, each a `request_one` or a subscription; two frames per answer; ids 1 and 3 |
| `mux_ping_close` | `WholeFrames`, `WokenOnFailure`, `NoRouteLeak`, `RouteLostOnlyByOwner` | two calls, each a ping, a request or a close; one heartbeat |
| `mux_liveness` | `FrameWaitEnds`, `FailureReleasesRequests` | two calls, requests and pings, with and without a deadline |
| `pool` | `TypeOK`, `NoOrphan`, `OnlyDeadReplaced`, `BorrowReturns` | two threads, two members, four dials, with and without a target |
| `retry` | `TypeOK`, `StoredOnce`, `GivesUpOnlyWhenSpent`, `WaitInBounds`, `SameCurve`, `Returns` | seven clients, three verbs, five policies, hints 0, 2, 6 |
| `aio` | `TypeOK`, `CancelLeavesNothing`, `WokenOnFailure`, `AcloseEndsReader`, `Implements` | two calls, each a `request_one`, a subscription, a ping or an `aclose`; two frames per answer, one heartbeat |
| `calls` | `TypeOK`, `RequestArrives`, `FailsByCause`, `HonestAnswer`, `NeverForged`, `HandshakeStrict` | every verb, every class; frames of two header cells and one payload cell |
| `feed` | `TypeOK`, `NoReplay`, `LosesAtMostOnePerDrop`, `NextReturns` | four events, three connections, reads of seven lines |

All of them pass. What the properties say that their names do not: `FrameWaitEnds`, a
request with a deadline waits for ever only if frames keep coming to it. More is not
promised: a server that sends a frame without EOS within every deadline holds a request as
long as it likes, and a `sendall` into a full buffer has no deadline. `RequestArrives`,
the server reads what the caller asked for, through omitted keys, defaults and rounding, or
reads nothing and the caller is told; a float beyond single range arrives only as a
`StatementValue`.
`HonestAnswer`, an exchange in which nothing goes wrong gives the caller the whole answer
however the bytes were cut. `NeverForged`, what a caller accepts the server sent.
`FailsByCause`, the exception tells a retry loop the cause: a fault of the transport
raises one that `is_retryable` accepts by its type (or ends a subscription), nothing else
raises one of those, and apart from a reset and from a payload the server got wrong every
failure is a `BrainError`.
`HandshakeStrict`, a WELCOME or AUTH_OK that lacks a key opens no session.
`LosesAtMostOnePerDrop`, the feed loses nothing within a response and at most the one
event it was in the middle of at a drop.

Four more runs show a document and the code disagreeing:

| Run | The document says | The code does |
|---|---|---|
| `mux_pong` | a ping gets the PONG that echoes its timestamp; every verb is concurrency-safe | two pings share the route of stream 0; one gets the other's PONG |
| `mux_next_drop` | `next` returns `None` once the connection dropped | after a reset it raises once, then waits on an orphaned queue |
| `retry_http_encode` | HTTP encode is idempotent, so it is retried | Python and Rust send nothing that names the write; it is stored twice |
| `feed_resume` | passing `last_event_id` back resumes "exactly rather than replay or skip" | the id is stored before the event is handed out; a drop between the two skips it |

`retry_http_encode` depends on the external edge: it shows that nothing in the
request lets the edge recognise a repeat. The TypeScript client sends an
`Idempotency-Key` for that purpose.

### Bounds

Two calls are enough for every race of the connection: each property relates one
call to one other, or to the reader. `MaxStreamId = 3` gives each of two calls an id
of its own and lets the counter wrap. `WireCap = 2` holds one frame in two parts, so
a sender can find the buffer full. `MaxFrames` is 2 where answers are collected and 1
where they are not, and in `mux_liveness`, where the one frame need not be the last of its
answer and the caller's second wait is the one that matters; one heartbeat lets the reader take part in writing. Four dials
let a pool of two replace two members. Policies of up to five attempts reach the cap
of the delay and of Rust's shift (`ShiftCap` is 2 there, 31 in the code). In `aio`,
`HighWater = 1` makes `drain` wait behind a stalled peer, and one frame on the way to
the reader is enough because the reader's step takes a frame to its queue at once. In
`feed`, a measure of seven lines is not a multiple of an event's three, so events straddle
reads; three connections let two drops add up. In `calls` every class is varied wherever an
exchange carries it, at any depth, in the request, in the answer and in the ERROR
(`MCFocus`), with all fields ordinary, all empty, and either with one field changed
(`MCInputs`): conventions act field by field, so pairs of fields add nothing. Calls are
symmetric; symmetry is used only in the safety runs. `CHECK_DEADLOCK` is off: a
connection with no calls left, a pool nobody uses and a finished operation stop.

### Fairness

`MuxPy`: the reader thread and each caller thread keep taking the steps they can,
and `queue.get` with a deadline returns. A send blocked on a full buffer, the server
and the user's decisions get no fairness. `PoolPy`: a borrower keeps going, a dial
ends (it has a connect time-out), and strong fairness for the slot lock stands for
`threading.Lock`, which does not starve one waiter for ever in practice. `Retry`:
every attempt ends and every sleep ends. This is the operation's own duty
(`request_timeout`, the HTTP time-outs); the TypeScript HTTP client does not bound
the reading of a body, which is listed as a hazard. `HttpFeed`: the caller inside
`next` keeps going, and the edge keeps sending comments on an idle response, which the
comment on `_open_stream` (`http/client.py`) says it does and relies on; events and drops
get no fairness. `MuxAio` states no liveness: `drain`, the write lock and `wait_closed`
have no deadline, so nothing is promised behind a peer that does not read.
`AcloseEndsReader` is the safety form of "aclose ends".

### Mutants

Every property of a passing run has a mutant: a definition with a plausible bug
(a dropped wrap, a check outside the lock, a missing `finally`, a cleared buffer, a
lock not released, a fresh id per retry) under which TLC finds that property violated.

## 4. Proofs

`MuxPyProofs` proves, for any set of calls, any id limit and any bounds:

- `TypeCorrect`: `Spec => []TypeOK`
- `RoutingCorrect`: `Spec => []OwnFrames`
- `FailureWakes`: `Spec => []WokenOnFailure`
- `FailedTable`: `Spec => []FailedTableEmpty`
- `NoLeak`: `Spec => []NoRouteLeak`
- `RouteKept`: `Spec => RouteLostOnlyByOwner`

The assumptions are those of `MuxPy`: `NoCall` and `Reader` are not calls, the id
limit is at least 1, the bounds are naturals.

None of the properties is inductive by itself. `IInv` adds what the code relies on
without saying it: the id a call holds belongs to its kind (`SidShape`), two calls on
op streams hold different ids until one is reused (`SidUnique`), the table maps an id
to a call that holds it (`RouteOwner`), the server only answers what it has seen
(`ServerSeen`), and every frame on the wire, in the buffer, in the reader's hand, in
a queue or taken carries the id of the call it answers (`WireTagged`, `BufTagged`,
`HandTagged`, `QueueOwn`, `GotOwn`). From these a looked-up route is the right one
even if it has been removed since. `Registered` and `Woken` say that a running call
is in the table until the connection fails and has the sentinel after; the step that
matters is `FailAll`, which does both in one critical section. `IInv` was checked
with TLC before it was proved.

`CallsProofs` proves `RequestsArrive`: `Spec => []RequestArrives`, for any classes,
exchanges and values. It rests on what `Calls` assumes of its constants and TLC
evaluates on the real tables: every field's convention is `Coherent` (a key is left out
only where the reader supplies what was left out, null is written only where it is read
as None), the tables name existing classes, the timestamp of a heartbeat and of its pong
is a plain integer. `FieldRoundTrip` is the heart: `Read(k, Write(k, v)) = Rounded(k, v)`
for a coherent `k`, by cases on the value and the convention. `DecodesMeant` and
`PayloadRoundTrip` lift it to classes and to the trailer of `EncodeVectorDirectRequest`.
The invariant adds that the request is a value of its class while the exchange lasts
(`SaidTyped`), that the server has heard what was
meant or the caller is told that nothing was sent (`Arrived`), and that a pong waits for no answer and carries the stamp it was sent
(`PongEchoes`). So whether a request arrives is reduced to the coherence of the tables,
which the payload modules translate class by class.

`CallsAnswerProofs` proves `CallsTyped`, `FailuresByCause` (`FailsByCause`),
`AnswersHonest` (`HonestAnswer`) and `NothingForged` (`NeverForged`) for any classes and
exchanges. Two assumptions are added to those above: the answer's opcode is the
request's plus 0x80 and neither is ERROR (so the opcode check tells them apart), and an
answer has no trailer. `AnswerInv` describes the bytes the client has not decoded yet,
`buf \o wire` (`Flight`): one frame with EOS, or an ordinary first frame and then one,
whole unless the server hung up, intact unless a cell was damaged; and it classifies the
EOS frame by what the verb will make of it (`Reply`: the rest of the answer, an empty end,
an ERROR, a foreign opcode, a payload the server got wrong). That an ordinary ERROR has a
code that can be formatted (`CodeKept`) is what makes it a `ServerError`. `recv` moves cells between
the two parts and leaves that description alone, which is why no cut of the reads matters;
a step that decodes a frame takes it off the front (`DroppedFrame`).

`MuxPyOrderProofs` adds `FramesWhole` (`WholeFrames`) and `AnswersInOrder`
(`FramesInOrder`) to the theorems of `MuxPyProofs`. `WriteInv` says who holds
`_write_lock` while half a frame is on the wire. `OrderInv` follows an answer over its
whole way: the server writes frame n + 1 of a call after frame n, and what the call has
taken, its queue, the reader's hand, the buffer and the wire hold consecutive pieces of it
(`Answers`, `Queued`, `Pending`, `Collected`); a request is written once (`Once`), so
there is one answer.

`PoolPyProofs` proves `PoolTyped`, `NothingLost` (`NoOrphan`) and `DeadReplaced`
(`OnlyDeadReplaced`) for any number of threads, members and dials. The invariant says
which thread holds which slot lock (`Holds`) and that a slot found dead under its lock
stays dead until the holder replaces it (`DeadSlot`): that is the reason for the second
test in `get_healthy`.

`MuxAioProofs` proves `AioTyped`, `CancelIsClean` (`CancelLeavesNothing`),
`EveryoneWoken` (`WokenOnFailure`), `AcloseEnds` (`AcloseEndsReader`) and
`ImplementsDemux` (`Spec => Implements`), for any finite set of calls no larger than the
number of odd ids. `Ids` says that the next id is nobody's, `Owned` and `Registered` tie
the table to the running calls, `Locks` the write lock to its holder, `Queued` and
`Pending` cut an answer into consecutive pieces. With them every step of the connection
maps to one step of `Demux` or to none: `Leave` and `Cancel` end a call, a put or a write
is invisible, and a call is handed exactly the next piece.

`RetryProofs` proves `RetryTyped`, `AppliedOnce` (`StoredOnce`), `GivesUpLate`
(`GivesUpOnlyWhenSpent`), `WaitsBounded` (`WaitInBounds`) and `OneCurve` (`SameCurve`) for
any policies, hints and clients. The growth of `Doubling` is proved by induction over the
naturals in the form "a set with 0 and all successors has every natural", which follows
from the well-foundedness of `<`. The heart of `AppliedOnce` is `Counted`: all attempts
of such a write have the one key, so the server, which may carry out any of them late,
counts it once.

`HttpFeedProofs` proves `FeedTyped`, `NeverReplayed` (`NoReplay`) and `OneLossPerDrop`
(`LosesAtMostOnePerDrop`) for any number of events, connections and lines per read. The
invariant is about the lines not yet parsed, in the buffer or on the wire (`Ahead`): which
line may follow which, and that the ids among them climb by one from the last id parsed
(`Edge`, `Parser`); and about the caller: the last id parsed is ahead of the last event
handed out by at most one for each connection since, and by one more only while an event
is half parsed (`Behind`).

The inductive invariants were checked with TLC before they were proved, and the
assumptions are evaluated by TLC on every run.

Only model-checked:

- `HandshakeStrict`: it is a fact about two classes of the tables (every field of WELCOME
  and AUTH_OK is read strictly), not about tables in general.
- Liveness: `FrameWaitEnds`, `FailureReleasesRequests`, `BorrowReturns`, `Returns`,
  `NextReturns`. It needs fairness and ENABLED, which the prover does not handle.
- The four violations, which are counterexamples.

## 5. Not modelled

- The Rust and TypeScript connections, pools, codecs and feeds; their retry loops are.
- The asyncio pool, and opening an asyncio connection.
- The HTTP verbs, their routes and the tables of `http/types.py`: declarations without
  state, compared with the server's routes by `tools/check_http_contract.py`.
- The bytes of CBOR, the depth limit of its scanner and the arithmetic of the CRC: the
  conformance corpus compares them byte by byte. `FrameCodec` assumes that a checksum
  gives a damaged cell away.
- One subscription handle shared by threads; the parsing of `Retry-After`.
- Tests, corpus, contract, tools and scripts, which are not part of the program.

Behaviour the models contain and no run reports: `close()` of the threaded connection
does not wake a reader blocked in `recv`, although its docstring says that the reader
exits; with a server hint the jitter interval has one point (the hint is both its ends),
so clients that failed together retry together; the comment at `retry.rs:16` says that a
transport drop is retryable, and a dropped Rust connection is not retried; and an event that has arrived waits in the
HTTP response until later bytes fill the measure of 4096.

## 6. Plan

1. Proofs: `HandshakeStrict` for every table whose handshake answers are read strictly.
2. `MuxPy` as a second implementation of `Demux`, from `OrderInv`.
3. `MuxRust`: dropped futures, sender overwrite, `Drop`, the error a drop surfaces as;
   `MuxTs`: callbacks, one waiter per sink.
4. The asyncio, Rust and TypeScript pools beside `PoolPy`.
5. Each HTTP route's retry flag in the three languages, with agreement and "only what may
   be repeated is retried" as properties.
