------------------------------- MODULE MuxAio -------------------------------
(***************************************************************************)
(* The asyncio connection, python/src/brain_db_sdk/aio/mux.py, after its   *)
(* handshake has returned.  Tasks of one event loop share one stream pair; *)
(* a reader task demultiplexes inbound frames by stream id.                *)
(*                                                                         *)
(* Each member of Calls is one call of some task: a `request`, a           *)
(* `request_one`, a ping (request_on_connection), a `subscribe` with the   *)
(* AsyncSubscription it returns, or an `aclose`.                           *)
(*                                                                         *)
(* Atomicity.  The loop runs one task at a time and switches only at an    *)
(* await, so a step is the code between two awaits: taking the id and      *)
(* registering the route; a look-up and its put_nowait; an exception and   *)
(* the finally clause that handles it.  What the threaded twin (MuxPy) has *)
(* to survive between those is not here; what it cannot meet, a task that  *)
(* is cancelled at any await, is.                                          *)
(*                                                                         *)
(* writer.write hands a whole frame to the transport at once; what         *)
(* suspends is drain, which waits for the transport's buffer to fall under *)
(* its limit.  Frames carry the ghost fields `of` and `n`, as in MuxPy.    *)
(***************************************************************************)
EXTENDS Integers, Sequences, FiniteSets

CONSTANTS Calls,        \* the calls tasks make on this connection
          Kinds,        \* the kinds of call a run allows
          NoCall,       \* "no route", "lock free"
          Reader,       \* the reader task, as a holder of _write_lock
          MaxStreamId,  \* 0xFFFF_FFFF in the code
          Deadlines,    \* request_timeout: TRUE stands for a number, FALSE for None
          MaxFrames,    \* bound: frames the server sends per call
          MaxPings,     \* bound: SERVER_PING heartbeats
          HighWater,    \* frames the transport and the socket hold before drain waits
          WireCap       \* bound: frames on their way to the reader

OpKinds == {"request", "request_one", "subscribe"}
AllKinds == OpKinds \cup {"ping", "aclose"}

ASSUME AioCallsAssumption == NoCall \notin Calls /\ Reader \notin Calls /\ NoCall # Reader
ASSUME AioKindsAssumption == Kinds \subseteq AllKinds
ASSUME AioBoundsAssumption == /\ MaxFrames \in Nat /\ MaxPings \in Nat /\ HighWater \in Nat
                              /\ WireCap \in Nat /\ Deadlines \subseteq BOOLEAN

(* The scope of this module: fewer calls than odd stream ids, so that no   *)
(* id is issued twice.  _take_stream_id does not look for live routes when *)
(* it wraps.                                                               *)
ASSUME AioIdsAssumption == /\ MaxStreamId \in Nat \ {0} /\ IsFiniteSet(Calls)
                           /\ 2 * Cardinality(Calls) <= MaxStreamId + 1

VARIABLES
  \* ---- the calls
  pc, kind, sid, got, outcome,
  \* ---- the connection object
  nextId,      \* _next_stream_id
  routes,      \* _routes: stream id -> call whose queue is registered
  queue,       \* the queue each call created in _register
  closedError, \* _closed_error
  lock,        \* holder of _write_lock
  hasTimeout,  \* _request_timeout is not None; never changes
  open,        \* _writer.close() has not been called
  \* ---- the reader task
  rpc,         \* read, pong (waits for the lock), drain, dead
  cancelled,   \* _reader_task.cancel() was called and not yet thrown
  \* ---- the environment
  c2s, s2c, peer, srv, sent, pings

callVars == <<pc, kind, sid, got, outcome>>
tableVars == <<routes, queue, closedError>>
readerVars == <<rpc, cancelled>>
connVars == <<hasTimeout, open>>
serverVars == <<s2c, peer, srv, sent, pings>>
others == <<connVars, readerVars, serverVars>>
vars == <<callVars, nextId, tableVars, lock, connVars, readerVars, c2s, serverVars>>

StreamIds == 0..MaxStreamId
HANDSHAKE_STREAM_ID == 0
Errors == {"ConnectionClosed", "OSError"}
Outcomes == Errors \cup {"none", "ok", "ServerError", "BrainTimeout", "ProtocolError",
                         "CancelledError", "ended"}
Frame == [sid : StreamIds, op : Errors \cup {"DATA", "END", "ERROR", "SERVER_PING", "BAD"},
          eos : BOOLEAN, of : Calls \cup {NoCall}, n : Nat]

(* The _Closed sentinel of a queue, and a frame that answers no call.      *)
Control(op) == [sid |-> 0, op |-> op, eos |-> TRUE, of |-> NoCall, n |-> 0]

Init ==
  /\ pc = [c \in Calls |-> "idle"]
  /\ kind = [c \in Calls |-> "request"]
  /\ sid = [c \in Calls |-> HANDSHAKE_STREAM_ID]
  /\ got = [c \in Calls |-> <<>>]
  /\ outcome = [c \in Calls |-> "none"]
  /\ nextId = 1
  /\ routes = [s \in StreamIds |-> NoCall]
  /\ queue = [c \in Calls |-> <<>>]
  /\ closedError = "none"
  /\ lock = NoCall
  /\ hasTimeout \in Deadlines
  /\ open = TRUE
  /\ rpc = "read"
  /\ cancelled = FALSE
  /\ c2s = <<>>
  /\ s2c = <<>>
  /\ peer = "up"
  /\ srv = [c \in Calls |-> "unseen"]
  /\ sent = [c \in Calls |-> 0]
  /\ pings = 0

Goto(c, label) == pc' = [pc EXCEPT ![c] = label]
Result(c, o) == outcome' = [outcome EXCEPT ![c] = o]

-----------------------------------------------------------------------------
(* How calls end.                                                          *)

(* Mutation of Leave: except Exception instead of finally, which a         *)
(* CancelledError passes by.                                               *)
LeaveOnException(c, o) ==
  /\ Result(c, o)
  /\ routes' = IF o = "CancelledError" THEN routes ELSE [routes EXCEPT ![sid[c]] = NoCall]
  /\ Goto(c, "done")

(* The finally clause of request, request_on_connection, subscribe's       *)
(* except clause, and AsyncSubscription._end: the exception or the result, *)
(* and the removal of the route, with no await between.                    *)
Leave(c, o) ==
  /\ Result(c, o)
  /\ routes' = [routes EXCEPT ![sid[c]] = NoCall]
  /\ Goto(c, "done")

(* A write that did not succeed: the exception leaves the call, but behind *)
(* AsyncBrainClient.aclose's BYE stands `finally: await self._conn.aclose()`*)
WriteRaises(c, error) ==
  IF kind[c] = "aclose" THEN Result(c, error) /\ Goto(c, "close") /\ UNCHANGED routes
                        ELSE Leave(c, error)

-----------------------------------------------------------------------------
(* Starting a call.                                                        *)

(* Mutation of Advance: the wrap at the 32-bit limit is forgotten.         *)
AdvanceUnbounded(s) == s + 2

(* _take_stream_id.                                                        *)
Advance(s) == IF s + 2 <= MaxStreamId THEN s + 2 ELSE 1

(* _check_loop: a call from another loop touches nothing.                  *)
WrongLoop(c) ==
  /\ pc[c] = "idle"
  /\ \E k \in Kinds \ {"aclose"} : kind' = [kind EXCEPT ![c] = k]
  /\ Result(c, "ProtocolError") /\ Goto(c, "done")
  /\ UNCHANGED <<sid, got, nextId, tableVars, lock, c2s, others>>

(* request, request_one, subscribe: a fresh odd id, spent even when        *)
(* _register then raises; a ping: stream 0.  The registration overwrites   *)
(* whatever the id mapped to.                                              *)
Begin(c) ==
  /\ pc[c] = "idle"
  /\ \E k \in Kinds \ {"aclose"} :
       /\ kind' = [kind EXCEPT ![c] = k]
       /\ sid' = [sid EXCEPT ![c] = IF k = "ping" THEN HANDSHAKE_STREAM_ID ELSE nextId]
       /\ nextId' = IF k = "ping" THEN nextId ELSE Advance(nextId)
  /\ IF closedError # "none"
       THEN Result(c, closedError) /\ Goto(c, "done") /\ UNCHANGED routes
       ELSE /\ routes' = [routes EXCEPT ![sid'[c]] = c]
            /\ Goto(c, "lock") /\ UNCHANGED outcome
  /\ UNCHANGED <<got, queue, closedError, lock, c2s, others>>

(* AsyncBrainClient.aclose writes a BYE first; connect's error path closes *)
(* at once.                                                                *)
BeginAclose(c) ==
  /\ pc[c] = "idle" /\ "aclose" \in Kinds
  /\ kind' = [kind EXCEPT ![c] = "aclose"]
  /\ \E first \in {"lock", "close"} : Goto(c, first)
  /\ UNCHANGED <<sid, got, outcome, nextId, tableVars, lock, c2s, others>>

-----------------------------------------------------------------------------
(* _write and write_frame.                                                 *)

WriteTooLarge(c) ==
  /\ pc[c] = "lock" /\ kind[c] # "aclose"
  /\ Leave(c, "ProtocolError")
  /\ UNCHANGED <<kind, sid, got, nextId, queue, closedError, lock, c2s, others>>

(* writer.write: a transport that is closed or has lost its connection     *)
(* drops the bytes.                                                        *)
Transmit(from) == c2s' = IF open /\ peer = "up" THEN Append(c2s, from) ELSE c2s

WriteFrame(c) ==
  /\ pc[c] = "lock" /\ lock = NoCall
  /\ lock' = c
  /\ Transmit(c)
  /\ Goto(c, "drain")
  /\ UNCHANGED <<kind, sid, got, outcome, nextId, tableVars, others>>

(* drain returns: the buffer is under its limit, or nothing is connected.  *)
Drains == Len(c2s) <= HighWater \/ peer # "up"

(* drain raises what the connection died of.                               *)
DrainFails == peer # "up" \/ ~open

Drained(c) ==
  /\ pc[c] = "drain" /\ Drains
  /\ lock' = NoCall
  /\ Goto(c, CASE kind[c] = "aclose" -> "close"
               [] kind[c] = "subscribe" -> "open"
               [] OTHER -> "wait")
  /\ UNCHANGED <<kind, sid, got, outcome, nextId, tableVars, c2s, others>>

DrainRaises(c) ==
  /\ pc[c] = "drain" /\ DrainFails
  /\ lock' = NoCall
  /\ WriteRaises(c, "OSError")
  /\ UNCHANGED <<kind, sid, got, nextId, queue, closedError, c2s, others>>

-----------------------------------------------------------------------------
(* Waiting for frames: _next, and the loop of request.                     *)

FinalResult(c, frames) ==
  IF kind[c] = "request_one" /\ Len(frames) # 1 THEN "ProtocolError" ELSE "ok"

TakeFrame(c) ==
  /\ pc[c] = "wait" /\ queue[c] # <<>>
  /\ queue' = [queue EXCEPT ![c] = Tail(@)]
  /\ LET f == Head(queue[c]) IN
       \/ f.op \in Errors /\ Leave(c, f.op) /\ UNCHANGED got
       \/ f.op = "ERROR" /\ Leave(c, "ServerError") /\ UNCHANGED got
       \/ /\ f.op \notin Errors \cup {"ERROR"}
          /\ got' = [got EXCEPT ![c] = Append(@, f)]
          /\ IF f.eos THEN Leave(c, FinalResult(c, got'[c]))
                      ELSE UNCHANGED <<outcome, pc, routes>>
  /\ UNCHANGED <<kind, sid, closedError, nextId, lock, c2s, others>>

(* asyncio.wait_for expired.  next() raises and leaves its handle open.    *)
Timeout(c) ==
  /\ hasTimeout /\ queue[c] = <<>>
  /\ \/ pc[c] = "wait" /\ Leave(c, "BrainTimeout")
     \/ pc[c] = "next" /\ Goto(c, "open") /\ UNCHANGED <<outcome, routes>>
  /\ UNCHANGED <<kind, sid, got, nextId, queue, closedError, lock, c2s, others>>

(* The awaiting task is cancelled: the async with releases the lock, the   *)
(* finally clause deregisters; a frame that was written stays written, and *)
(* the server answers it.  A cancelled next() leaves its handle open and   *)
(* takes nothing from the queue.  aclose suppresses the cancellation of    *)
(* its wait for the reader, and gives up waiting for the transport.        *)
Cancel(c) ==
  /\ \/ pc[c] \in {"lock", "drain"} /\ WriteRaises(c, "CancelledError")
     \/ pc[c] = "wait" /\ Leave(c, "CancelledError")
     \/ pc[c] = "next" /\ Goto(c, "open") /\ UNCHANGED <<outcome, routes>>
     \/ pc[c] = "flush" /\ Goto(c, "done") /\ Result(c, "CancelledError") /\ UNCHANGED routes
  /\ lock' = IF lock = c THEN NoCall ELSE lock
  /\ UNCHANGED <<kind, sid, got, nextId, queue, closedError, c2s, others>>

-----------------------------------------------------------------------------
(* AsyncSubscription.  _ended is pc = "done".                              *)

NextStart(c) ==
  /\ pc[c] = "open"
  /\ Goto(c, "next")
  /\ UNCHANGED <<kind, sid, got, outcome, nextId, tableVars, lock, c2s, others>>

(* Mutation of NextItem: an event that ends the stream is not handed out.  *)
NextItemDropsLast(c) ==
  /\ pc[c] = "next" /\ queue[c] # <<>>
  /\ queue' = [queue EXCEPT ![c] = Tail(@)]
  /\ LET f == Head(queue[c]) IN
       /\ f.op \notin Errors \cup {"ERROR"}
       /\ IF f.eos THEN Leave(c, "ended") /\ UNCHANGED got
                   ELSE /\ got' = [got EXCEPT ![c] = Append(@, f)]
                        /\ Goto(c, "open") /\ UNCHANGED <<outcome, routes>>
  /\ UNCHANGED <<kind, sid, closedError, nextId, lock, c2s, others>>

(* next() once its queue has an item.  ConnectionClosed ends the handle    *)
(* like an EOS frame does; an OSError is raised and leaves it open.        *)
NextItem(c) ==
  /\ pc[c] = "next" /\ queue[c] # <<>>
  /\ queue' = [queue EXCEPT ![c] = Tail(@)]
  /\ LET f == Head(queue[c]) IN
       \/ f.op = "ConnectionClosed" /\ Leave(c, "ConnectionClosed") /\ UNCHANGED got
       \/ f.op = "OSError" /\ Goto(c, "open") /\ UNCHANGED <<outcome, routes, got>>
       \/ f.op = "ERROR" /\ Leave(c, "ServerError") /\ UNCHANGED got
       \/ /\ f.op \notin Errors \cup {"ERROR"}
          /\ got' = [got EXCEPT ![c] = Append(@, f)]
          /\ IF f.eos THEN Leave(c, "ended")
                      ELSE Goto(c, "open") /\ UNCHANGED <<outcome, routes>>
  /\ UNCHANGED <<kind, sid, closedError, nextId, lock, c2s, others>>

(* AsyncSubscription.aclose, and leaving its `async with` block.           *)
SubClose(c) ==
  /\ pc[c] = "open"
  /\ Leave(c, "none")
  /\ UNCHANGED <<kind, sid, got, nextId, queue, closedError, lock, c2s, others>>

-----------------------------------------------------------------------------
(* _fail_all, by the reader or by aclose: the first error is kept, every   *)
(* registered queue is woken, the table is emptied.                        *)
FailAll(error) ==
  /\ closedError' = IF closedError = "none" THEN error ELSE closedError
  /\ queue' = [c \in Calls |-> IF \E s \in StreamIds : routes[s] = c
                                 THEN Append(queue[c], Control(error)) ELSE queue[c]]
  /\ routes' = [s \in StreamIds |-> NoCall]

(* Mutation of AcloseFails: the waiters are left to the reader, as in the  *)
(* threaded close.                                                         *)
AcloseFailsNobody(c) ==
  /\ pc[c] = "close"
  /\ closedError' = IF closedError = "none" THEN "ConnectionClosed" ELSE closedError
  /\ cancelled' = (rpc # "dead")
  /\ Goto(c, "stop")
  /\ UNCHANGED <<kind, sid, got, outcome, nextId, routes, queue, lock, connVars, rpc, c2s,
                 serverVars>>

(* AsyncMuxConnection.aclose, up to its first await.                       *)
AcloseFails(c) ==
  /\ pc[c] = "close"
  /\ FailAll("ConnectionClosed")
  /\ cancelled' = (rpc # "dead")
  /\ Goto(c, "stop")
  /\ UNCHANGED <<kind, sid, got, outcome, nextId, lock, connVars, rpc, c2s, serverVars>>

(* await self._reader_task returned: close the transport.                  *)
AcloseJoined(c) ==
  /\ pc[c] = "stop" /\ rpc = "dead"
  /\ open' = FALSE
  /\ Goto(c, "flush")
  /\ UNCHANGED <<kind, sid, got, outcome, nextId, tableVars, lock, hasTimeout, readerVars, c2s,
                 serverVars>>

(* wait_closed: the transport flushes what it still holds first.           *)
AcloseFlushed(c) ==
  /\ pc[c] = "flush" /\ (c2s = <<>> \/ peer # "up")
  /\ Goto(c, "done")
  /\ UNCHANGED <<kind, sid, got, outcome, nextId, tableVars, lock, c2s, others>>

-----------------------------------------------------------------------------
(* The reader task: _reader_loop and _pong.                                *)

(* One frame, from the bytes to the queue: a codec error is fatal, a       *)
(* heartbeat is answered, any other frame is put or, with nobody           *)
(* registered, dropped.                                                    *)
ReaderFrame ==
  /\ rpc = "read" /\ ~cancelled /\ s2c # <<>>
  /\ s2c' = Tail(s2c)
  /\ LET f == Head(s2c) IN
       \/ f.op = "BAD" /\ FailAll("ConnectionClosed") /\ rpc' = "dead"
       \/ f.op = "SERVER_PING" /\ rpc' = "pong" /\ UNCHANGED tableVars
       \/ /\ f.op \notin {"BAD", "SERVER_PING"}
          /\ queue' = IF routes[f.sid] = NoCall THEN queue
                      ELSE [queue EXCEPT ![routes[f.sid]] = Append(@, f)]
          /\ UNCHANGED <<rpc, routes, closedError>>
  /\ UNCHANGED <<callVars, nextId, cancelled, lock, connVars, c2s, peer, srv, sent, pings>>

(* End of the stream, after every frame sent before it; a reset, which     *)
(* StreamReader raises at once, over what it has buffered.                 *)
ReaderEnds ==
  /\ rpc = "read" /\ ~cancelled
  /\ \/ peer = "fin" /\ s2c = <<>> /\ FailAll("ConnectionClosed")
     \/ peer = "reset" /\ FailAll("OSError")
  /\ rpc' = "dead"
  /\ UNCHANGED <<callVars, nextId, cancelled, lock, connVars, c2s, serverVars>>

PongWrite ==
  /\ rpc = "pong" /\ ~cancelled /\ lock = NoCall
  /\ lock' = Reader
  /\ Transmit(Reader)
  /\ rpc' = "drain"
  /\ UNCHANGED <<callVars, nextId, tableVars, cancelled, connVars, serverVars>>

(* drain returned, or raised an exception that _pong suppresses.           *)
PongDone ==
  /\ rpc = "drain" /\ ~cancelled /\ (Drains \/ DrainFails)
  /\ lock' = NoCall
  /\ rpc' = "read"
  /\ UNCHANGED <<callVars, nextId, tableVars, cancelled, connVars, c2s, serverVars>>

(* Mutation of ReaderCancelled: _pong suppresses BaseException.            *)
ReaderCancelledInPong ==
  /\ cancelled /\ rpc # "dead"
  /\ rpc' = IF rpc = "read" THEN "dead" ELSE "read"
  /\ cancelled' = FALSE
  /\ lock' = IF lock = Reader THEN NoCall ELSE lock
  /\ UNCHANGED <<callVars, nextId, tableVars, connVars, c2s, serverVars>>

(* CancelledError is thrown at the await the reader is in: it passes       *)
(* _pong's suppress(Exception), and the loop re-raises it.                 *)
ReaderCancelled ==
  /\ cancelled /\ rpc # "dead"
  /\ rpc' = "dead"
  /\ cancelled' = FALSE
  /\ lock' = IF lock = Reader THEN NoCall ELSE lock
  /\ UNCHANGED <<callVars, nextId, tableVars, connVars, c2s, serverVars>>

-----------------------------------------------------------------------------
(* The environment: the server, answering in any order across streams and  *)
(* in order within one, and the network.  What would arrive after the      *)
(* reader has ended is left out.                                           *)

Arrives == peer = "up" /\ rpc # "dead" /\ Len(s2c) < WireCap

ServerRecv ==
  /\ peer = "up" /\ c2s # <<>>
  /\ c2s' = Tail(c2s)
  /\ LET c == Head(c2s) IN
       srv' = IF c \in Calls /\ kind[c] # "aclose" THEN [srv EXCEPT ![c] = "open"] ELSE srv
  /\ UNCHANGED <<callVars, nextId, tableVars, lock, connVars, readerVars, s2c, peer, sent, pings>>

(* The server may leave an answer without its EOS frame for ever.          *)
ServerSend(c) ==
  /\ Arrives /\ srv[c] = "open" /\ sent[c] < MaxFrames
  /\ \E op \in {"DATA", "END", "ERROR"}, eos \in BOOLEAN :
       /\ op # "DATA" => eos
       /\ op = "END" => kind[c] = "subscribe"
       /\ s2c' = Append(s2c, [sid |-> sid[c], op |-> op, eos |-> eos, of |-> c,
                              n |-> sent[c] + 1])
       /\ srv' = [srv EXCEPT ![c] = IF eos THEN "finished" ELSE "open"]
  /\ sent' = [sent EXCEPT ![c] = @ + 1]
  /\ UNCHANGED <<callVars, nextId, tableVars, lock, connVars, readerVars, c2s, peer, pings>>

ServerPing ==
  /\ Arrives /\ pings < MaxPings
  /\ s2c' = Append(s2c, Control("SERVER_PING"))
  /\ pings' = pings + 1
  /\ UNCHANGED <<callVars, nextId, tableVars, lock, connVars, readerVars, c2s, peer, srv, sent>>

ServerCorrupts ==
  /\ Arrives
  /\ \A i \in DOMAIN s2c : s2c[i].op # "BAD"
  /\ s2c' = Append(s2c, Control("BAD"))
  /\ UNCHANGED <<callVars, nextId, tableVars, lock, connVars, readerVars, c2s, peer, srv, sent,
                 pings>>

PeerDrops ==
  /\ peer = "up"
  /\ peer' \in {"fin", "reset"}
  /\ c2s' = <<>>
  /\ UNCHANGED <<callVars, nextId, tableVars, lock, connVars, readerVars, s2c, srv, sent, pings>>

-----------------------------------------------------------------------------

CallStep(c) ==
  \/ WrongLoop(c) \/ Begin(c) \/ BeginAclose(c)
  \/ WriteTooLarge(c) \/ WriteFrame(c) \/ Drained(c) \/ DrainRaises(c)
  \/ TakeFrame(c) \/ Timeout(c) \/ Cancel(c)
  \/ NextStart(c) \/ NextItem(c) \/ SubClose(c)
  \/ AcloseFails(c) \/ AcloseJoined(c) \/ AcloseFlushed(c)

ReaderStep == ReaderFrame \/ ReaderEnds \/ PongWrite \/ PongDone \/ ReaderCancelled

Environment ==
  \/ ServerRecv \/ ServerPing \/ ServerCorrupts \/ PeerDrops
  \/ \E c \in Calls : ServerSend(c)

Next == (\E c \in Calls : CallStep(c)) \/ ReaderStep \/ Environment

Spec == Init /\ [][Next]_vars

-----------------------------------------------------------------------------
(* Properties.                                                             *)

(* Every variable stays in its domain; _next_stream_id stays an odd 32-bit *)
(* number across the wrap of _take_stream_id.                              *)
TypeOK ==
  /\ pc \in [Calls -> {"idle", "lock", "drain", "wait", "open", "next", "close", "stop",
                       "flush", "done"}]
  /\ kind \in [Calls -> AllKinds]
  /\ sid \in [Calls -> StreamIds]
  /\ got \in [Calls -> Seq(Frame)]
  /\ outcome \in [Calls -> Outcomes]
  /\ nextId \in 1..MaxStreamId /\ nextId % 2 = 1
  /\ routes \in [StreamIds -> Calls \cup {NoCall}]
  /\ queue \in [Calls -> Seq(Frame)]
  /\ closedError \in Errors \cup {"none"}
  /\ lock \in Calls \cup {NoCall, Reader}
  /\ hasTimeout \in BOOLEAN /\ open \in BOOLEAN
  /\ rpc \in {"read", "pong", "drain", "dead"} /\ cancelled \in BOOLEAN
  /\ c2s \in Seq(Calls \cup {Reader})
  /\ s2c \in Seq(Frame)
  /\ peer \in {"up", "fin", "reset"}
  /\ srv \in [Calls -> {"unseen", "open", "finished"}]
  /\ sent \in [Calls -> Nat] /\ pings \in Nat

OpStream(c) == kind[c] \in OpKinds

(* How this connection presents itself to its callers.  Pings share stream *)
(* 0 and are outside the promise (MuxPy!PongAnswersItsPing says why).      *)
PhaseOf(c) ==
  IF ~OpStream(c) \/ pc[c] = "idle" THEN "idle"
  ELSE IF pc[c] # "done" THEN "open"
  ELSE IF outcome[c] \in {"ok", "ended"} THEN "returned" ELSE "aborted"
NameOf(f) == [of |-> f.of, n |-> f.n]
TakenBy(c) == IF OpStream(c) THEN [i \in DOMAIN got[c] |-> NameOf(got[c][i])] ELSE <<>>

Promise == INSTANCE Demux WITH
  alive <- closedError = "none",
  phase <- [c \in Calls |-> PhaseOf(c)],
  answered <- [c \in Calls |-> IF OpStream(c) THEN sent[c] ELSE 0],
  complete <- [c \in Calls |-> OpStream(c) /\ srv[c] = "finished"],
  taken <- [c \in Calls |-> TakenBy(c)]

(* The connection implements Demux: "Safe to call from many tasks;         *)
(* responses route back by stream_id" (request), through time-outs,        *)
(* cancellations at every await, late answers and failures; a request or a *)
(* subscription that ends normally has been given all of its answer.       *)
Implements == Promise!Spec

(* "Cancelling the awaiting task deregisters the route on the way out"     *)
(* (request), and lets go of _write_lock: a route belongs to a call that   *)
(* is running or to a subscription nobody closed, a held lock to a task    *)
(* inside drain.                                                           *)
CancelLeavesNothing ==
  /\ \A s \in StreamIds : routes[s] # NoCall =>
       pc[routes[s]] \in {"lock", "drain", "wait", "open", "next"}
  /\ lock \in Calls => pc[lock] = "drain"
  /\ lock = Reader => rpc = "drain"

HasSentinel(c) == \E i \in DOMAIN queue[c] : queue[c][i].op \in Errors

(* _fail_all wakes everyone: on a failed or closed connection a call that  *)
(* waits, or is on its way to waiting, has the sentinel in its queue, and  *)
(* nobody is registered.  A subscription has it until an OSError sentinel, *)
(* which next() raises without ending the handle, is taken.                *)
WokenOnFailure ==
  closedError # "none" =>
    /\ \A s \in StreamIds : routes[s] = NoCall
    /\ \A c \in Calls : OpStream(c) =>
         /\ pc[c] \in {"lock", "drain", "wait"} => HasSentinel(c)
         /\ pc[c] \in {"open", "next"} /\ closedError = "ConnectionClosed" => HasSentinel(c)

(* aclose "leaves no pending task behind" and never waits for a reader     *)
(* that will not end: while it awaits the reader task, the cancellation is *)
(* still to be thrown or has ended the task, in the middle of a heartbeat  *)
(* too; when it returns, even cancelled itself, the reader has ended, and  *)
(* the connection refuses new calls.                                       *)
AcloseEndsReader ==
  \A c \in Calls : kind[c] = "aclose" =>
    /\ pc[c] = "stop" => cancelled \/ rpc = "dead"
    /\ pc[c] \in {"flush", "done"} => rpc = "dead" /\ closedError # "none"
=============================================================================
