-------------------------------- MODULE MuxPy --------------------------------
(***************************************************************************)
(* The threaded Python connection, python/src/brain_db_sdk/mux.py, after   *)
(* its handshake has returned.  Many caller threads share one socket; a    *)
(* reader thread demultiplexes inbound frames by stream id into one queue  *)
(* per call.                                                               *)
(*                                                                         *)
(* Each member of Calls is one call made by some thread: a `request`, a    *)
(* `request_one`, a `ping` (request_on_connection), a `subscribe` together *)
(* with the Subscription handle it returns, or a `close`.  A thread that   *)
(* makes two calls is two members of Calls, so the queue object a call     *)
(* registers is named by the call itself, even after it was abandoned.     *)
(*                                                                         *)
(* Atomicity.  A step is one critical section (_id_lock, _routes_lock), one*)
(* queue operation, or one socket system call.  The reader looks a route up*)
(* under the lock and puts the frame after releasing it: two steps.        *)
(*                                                                         *)
(* The server and the kernel's socket buffers are the environment.  Frames *)
(* carry two ghost fields the code does not have: `of`, the call the server*)
(* is answering, and `n`, the position of the frame in that answer.        *)
(***************************************************************************)
EXTENDS Integers, Sequences, FiniteSets

CONSTANTS Calls,        \* the calls threads make on this connection
          Kinds,        \* the kinds of call a run allows
          NoCall,       \* "no route", "no writer"
          Reader,       \* the reader thread, as a holder of _write_lock
          MaxStreamId,  \* 0xFFFF_FFFF in the code
          Deadlines,    \* request_timeout: TRUE stands for a number, FALSE for None
          MaxFrames,    \* bound: frames the server sends per call
          MaxPings,     \* bound: SERVER_PING heartbeats
          WireCap       \* bound: what the socket buffers hold, per direction

AllKinds == {"request", "request_one", "ping", "subscribe", "close"}

ASSUME CallsAssumption == NoCall \notin Calls /\ Reader \notin Calls /\ NoCall # Reader
ASSUME KindsAssumption == Kinds \subseteq AllKinds
ASSUME StreamIdAssumption == MaxStreamId \in Nat /\ MaxStreamId >= 1
ASSUME BoundsAssumption == /\ MaxFrames \in Nat /\ MaxPings \in Nat /\ WireCap \in Nat
                           /\ Deadlines \subseteq BOOLEAN

VARIABLES
  \* ---- the callers
  pc,          \* where each call is
  kind,        \* what it does
  sid,         \* its stream id
  got,         \* the frames it has taken from its queue
  outcome,     \* how it, or the subscription it opened, ended
  \* ---- the connection object
  nextId,      \* _next_stream_id
  reused,      \* history: some stream id has been issued twice
  routes,      \* _routes: stream id -> call whose queue is registered
  queue,       \* the queue object each call created in _register
  closedError, \* _closed_error
  writer,      \* holder of _write_lock
  sockOpen,    \* close() has not been called
  hasTimeout,  \* _request_timeout is not None; never changes
  \* ---- the reader thread
  rpc, rFrame, rTo, buf,
  \* ---- the environment
  c2s, s2c, peer, srv, sent, pings

callVars == <<pc, kind, sid, got, outcome>>
tableVars == <<routes, queue, closedError>>
connVars == <<sockOpen, hasTimeout>>
idVars == <<nextId, reused>>
readerVars == <<rpc, rFrame, rTo, buf>>
serverVars == <<s2c, peer, srv, sent, pings>>
others == <<connVars, readerVars, serverVars>>
vars == <<callVars, tableVars, idVars, writer, connVars, readerVars, c2s, serverVars>>

StreamIds == 0..MaxStreamId
HANDSHAKE_STREAM_ID == 0

(* The exceptions _fail_all stores: a codec error is wrapped in            *)
(* ConnectionClosed, an OSError is kept as it is.                          *)
Errors == {"ConnectionClosed", "OSError"}

Outcomes == Errors \cup {"none", "ok", "ServerError", "BrainTimeout", "ProtocolError", "ended"}

(* DATA: an ordinary frame.  END: an EOS frame with an empty payload.      *)
(* BAD: bytes the codec refuses.  A queue also carries the _Closed         *)
(* sentinel, a frame whose op is the error.                                *)
FrameOps == {"DATA", "END", "ERROR", "SERVER_PING", "BAD"}

Frame == [sid : StreamIds, op : FrameOps \cup Errors, eos : BOOLEAN,
          of : Calls \cup {NoCall}, n : Nat]

Closed(error) == [sid |-> 0, op |-> error, eos |-> TRUE, of |-> NoCall, n |-> 0]
NoFrame == Closed("ConnectionClosed")
Control(op) == [sid |-> 0, op |-> op, eos |-> TRUE, of |-> NoCall, n |-> 0]

(* A request frame is written in two parts, since one sendall may take     *)
(* several system calls.                                                   *)
Part == [from : Calls \cup {Reader}, part : {"head", "tail"}]

PCs == {"idle", "register", "write", "send1", "send2", "wait", "open", "next",
        "drop", "close", "done"}

Init ==
  /\ pc = [c \in Calls |-> "idle"]
  /\ kind = [c \in Calls |-> "request"]
  /\ sid = [c \in Calls |-> HANDSHAKE_STREAM_ID]
  /\ got = [c \in Calls |-> <<>>]
  /\ outcome = [c \in Calls |-> "none"]
  /\ nextId = 1
  /\ reused = FALSE
  /\ routes = [s \in StreamIds |-> NoCall]
  /\ queue = [c \in Calls |-> <<>>]
  /\ closedError = "none"
  /\ writer = NoCall
  /\ sockOpen = TRUE
  /\ hasTimeout \in Deadlines
  /\ rpc = "loop"
  /\ rFrame = NoFrame
  /\ rTo = NoCall
  /\ buf = <<>>
  /\ c2s = <<>>
  /\ s2c = <<>>
  /\ peer = "up"
  /\ srv = [c \in Calls |-> "unseen"]
  /\ sent = [c \in Calls |-> 0]
  /\ pings = 0

Goto(c, label) == pc' = [pc EXCEPT ![c] = label]
Result(c, o) == outcome' = [outcome EXCEPT ![c] = o]

-----------------------------------------------------------------------------
(* Starting a call.                                                        *)

(* Mutation of Advance: the wrap at the 32-bit limit is forgotten.         *)
AdvanceUnbounded(s) == s + 2

(* _take_stream_id: post-increment by two, back to 1 past the maximum.     *)
Advance(s) == IF s + 2 <= MaxStreamId THEN s + 2 ELSE 1

(* request, request_one, subscribe: a fresh odd id, under _id_lock.        *)
TakeStreamId(c) ==
  /\ pc[c] = "idle"
  /\ \E k \in Kinds \cap {"request", "request_one", "subscribe"} :
        kind' = [kind EXCEPT ![c] = k]
  /\ sid' = [sid EXCEPT ![c] = nextId]
  /\ nextId' = Advance(nextId)
  /\ reused' = (reused \/ \E d \in Calls : sid[d] = nextId)
  /\ Goto(c, "register")
  /\ UNCHANGED <<got, outcome, tableVars, writer, c2s, others>>

(* request_on_connection: always stream 0.                                 *)
StartPing(c) ==
  /\ pc[c] = "idle" /\ "ping" \in Kinds
  /\ kind' = [kind EXCEPT ![c] = "ping"]
  /\ sid' = [sid EXCEPT ![c] = HANDSHAKE_STREAM_ID]
  /\ Goto(c, "register")
  /\ UNCHANGED <<got, outcome, idVars, tableVars, writer, c2s, others>>

(* BrainClient.close writes a BYE first; MuxConnection.connect's error path*)
(* and direct callers only close the socket.                               *)
StartClose(c) ==
  /\ pc[c] = "idle" /\ "close" \in Kinds
  /\ kind' = [kind EXCEPT ![c] = "close"]
  /\ \E first \in {"write", "close"} : Goto(c, first)
  /\ UNCHANGED <<sid, got, outcome, idVars, tableVars, writer, c2s, others>>

(* Mutation of Register: the closed check is made before the lock is taken.*)
RegisterUnchecked(c) ==
  /\ pc[c] = "register"
  /\ routes' = [routes EXCEPT ![sid[c]] = c]
  /\ Goto(c, "write")
  /\ UNCHANGED <<kind, sid, got, outcome, queue, closedError, idVars, writer, c2s, others>>

(* _register: the closed check and the insertion share one critical        *)
(* section; the insertion overwrites whatever the stream id mapped to.     *)
Register(c) ==
  /\ pc[c] = "register"
  /\ IF closedError # "none"
       THEN Result(c, closedError) /\ Goto(c, "done") /\ UNCHANGED routes
       ELSE /\ routes' = [routes EXCEPT ![sid[c]] = c]
            /\ Goto(c, "write") /\ UNCHANGED outcome
  /\ UNCHANGED <<kind, sid, got, queue, closedError, idVars, writer, c2s, others>>

-----------------------------------------------------------------------------
(* _write and sendall.                                                     *)

(* Where a call goes when its write raised: BYE is followed by the close of*)
(* the `finally`, every other call deregisters its stream.                 *)
WriteRaises(c, error) ==
  /\ Result(c, error)
  /\ Goto(c, IF kind[c] = "close" THEN "close" ELSE "drop")

(* The payload is over the size advertised at WELCOME: nothing is written. *)
WriteTooLarge(c) ==
  /\ pc[c] = "write" /\ kind[c] # "close"
  /\ WriteRaises(c, "ProtocolError")
  /\ UNCHANGED <<kind, sid, got, idVars, tableVars, writer, c2s, others>>

(* Mutation of LockWrite: callers do not take _write_lock.                 *)
LockWriteUnlocked(c) ==
  /\ pc[c] = "write"
  /\ writer' = c
  /\ Goto(c, "send1")
  /\ UNCHANGED <<kind, sid, got, outcome, idVars, tableVars, c2s, others>>

LockWrite(c) ==
  /\ pc[c] = "write" /\ writer = NoCall
  /\ writer' = c
  /\ Goto(c, "send1")
  /\ UNCHANGED <<kind, sid, got, outcome, idVars, tableVars, c2s, others>>

(* One send system call: it blocks while the socket buffer is full, and    *)
(* goes nowhere once the peer has hung up.                                 *)
Transmit(from, part) ==
  /\ sockOpen
  /\ \/ peer = "up" /\ Len(c2s) < WireCap /\ c2s' = Append(c2s, [from |-> from, part |-> part])
     \/ peer = "fin" /\ UNCHANGED c2s

SendHead(c) ==
  /\ pc[c] = "send1"
  /\ Transmit(c, "head")
  /\ Goto(c, "send2")
  /\ UNCHANGED <<kind, sid, got, outcome, idVars, tableVars, writer, others>>

(* The last send: the lock is released, and a request waits, a subscribe   *)
(* returns its handle, a BYE goes on to close the socket.                  *)
SendTail(c) ==
  /\ pc[c] = "send2"
  /\ Transmit(c, "tail")
  /\ writer' = NoCall
  /\ Goto(c, CASE kind[c] = "close" -> "close"
               [] kind[c] = "subscribe" -> "open"
               [] OTHER -> "wait")
  /\ UNCHANGED <<kind, sid, got, outcome, idVars, tableVars, others>>

(* A send on a closed descriptor or a broken connection.                   *)
SendRaises(c) ==
  /\ pc[c] \in {"send1", "send2"}
  /\ ~sockOpen \/ peer # "up"
  /\ writer' = NoCall
  /\ WriteRaises(c, "OSError")
  /\ UNCHANGED <<kind, sid, got, idVars, tableVars, c2s, others>>

-----------------------------------------------------------------------------
(* Waiting for frames: _next, and the loop of request.                     *)

(* What request (and request_one on top of it) returns at the EOS frame.   *)
FinalResult(c, frames) ==
  IF kind[c] = "request_one" /\ Len(frames) # 1 THEN "ProtocolError" ELSE "ok"

(* One turn of request's loop: a sentinel re-raises its error, an ERROR    *)
(* frame raises ServerError, the EOS frame ends the collection.            *)
TakeFrame(c) ==
  /\ pc[c] = "wait" /\ queue[c] # <<>>
  /\ queue' = [queue EXCEPT ![c] = Tail(@)]
  /\ LET f == Head(queue[c]) IN
       \/ /\ f.op \in Errors
          /\ Result(c, f.op) /\ Goto(c, "drop") /\ UNCHANGED got
       \/ /\ f.op = "ERROR"
          /\ Result(c, "ServerError") /\ Goto(c, "drop") /\ UNCHANGED got
       \/ /\ f.op \notin Errors \cup {"ERROR"}
          /\ got' = [got EXCEPT ![c] = Append(@, f)]
          /\ IF f.eos THEN Result(c, FinalResult(c, got'[c])) /\ Goto(c, "drop")
                      ELSE UNCHANGED <<outcome, pc>>
  /\ UNCHANGED <<kind, sid, routes, closedError, idVars, writer, c2s, others>>

(* Mutation of Timeout: BrainTimeout leaves without the finally clause.    *)
TimeoutNoFinally(c) ==
  /\ hasTimeout
  /\ pc[c] = "wait" /\ queue[c] = <<>>
  /\ Result(c, "BrainTimeout") /\ Goto(c, "done")
  /\ UNCHANGED <<kind, sid, got, idVars, tableVars, writer, c2s, others>>

(* Mutation of Timeout: no deadline is passed to queue.get.                *)
TimeoutNever(c) == c \notin Calls

(* queue.get timed out.  A request gives up; a subscription's next() raises*)
(* and leaves the handle open.                                             *)
Timeout(c) ==
  /\ hasTimeout
  /\ queue[c] = <<>>
  /\ \/ pc[c] = "wait" /\ Result(c, "BrainTimeout") /\ Goto(c, "drop")
     \/ pc[c] = "next" /\ Goto(c, "open") /\ UNCHANGED outcome
  /\ UNCHANGED <<kind, sid, got, idVars, tableVars, writer, c2s, others>>

(* _deregister pops the stream id, whoever registered it.                  *)
Deregister(c) ==
  /\ pc[c] = "drop"
  /\ routes' = [routes EXCEPT ![sid[c]] = NoCall]
  /\ Goto(c, "done")
  /\ UNCHANGED <<kind, sid, got, outcome, queue, closedError, idVars, writer, c2s, others>>

-----------------------------------------------------------------------------
(* Subscription.  The flag _ended is pc \in {"drop", "done"}: an ended     *)
(* handle answers None without touching anything.                          *)

NextStart(c) ==
  /\ pc[c] = "open"
  /\ Goto(c, "next")
  /\ UNCHANGED <<kind, sid, got, outcome, idVars, tableVars, writer, c2s, others>>

(* Subscription.next once its queue has an item.  Only ConnectionClosed is *)
(* caught; an OSError sentinel is raised with _ended still false.          *)
NextItem(c) ==
  /\ pc[c] = "next" /\ queue[c] # <<>>
  /\ queue' = [queue EXCEPT ![c] = Tail(@)]
  /\ LET f == Head(queue[c]) IN
       \/ f.op = "ConnectionClosed" /\ Result(c, "ended") /\ Goto(c, "drop") /\ UNCHANGED got
       \/ f.op = "OSError" /\ Goto(c, "open") /\ UNCHANGED <<outcome, got>>
       \/ f.op = "ERROR" /\ Result(c, "ServerError") /\ Goto(c, "drop") /\ UNCHANGED got
       \/ /\ f.op \notin Errors \cup {"ERROR"}
          /\ got' = [got EXCEPT ![c] = Append(@, f)]
          /\ IF f.eos THEN Result(c, "ended") /\ Goto(c, "drop")
                      ELSE Goto(c, "open") /\ UNCHANGED outcome
  /\ UNCHANGED <<kind, sid, routes, closedError, idVars, writer, c2s, others>>

(* Subscription.close, and leaving its `with` block.                       *)
SubClose(c) ==
  /\ pc[c] = "open"
  /\ Goto(c, "drop")
  /\ UNCHANGED <<kind, sid, got, outcome, idVars, tableVars, writer, c2s, others>>

-----------------------------------------------------------------------------
(* MuxConnection.close closes the descriptor and nothing else: a recv that *)
(* is already blocked stays blocked, and no FIN leaves while it is.        *)
Close(c) ==
  /\ pc[c] = "close"
  /\ sockOpen' = FALSE
  /\ Goto(c, "done")
  /\ UNCHANGED <<kind, sid, got, outcome, idVars, tableVars, writer, hasTimeout, readerVars, c2s,
                 serverVars>>

-----------------------------------------------------------------------------
(* The reader thread.                                                      *)

(* Mutation of FailAll: the table is emptied before the queues are woken.  *)
FailAllClearsFirst(error) ==
  /\ closedError' = IF closedError = "none" THEN error ELSE closedError
  /\ routes' = [s \in StreamIds |-> NoCall]
  /\ rpc' = "dead"
  /\ UNCHANGED queue

(* _fail_all: record the first error, wake every registered queue, empty   *)
(* the table, all in one critical section; then the thread ends.           *)
FailAll(error) ==
  /\ closedError' = IF closedError = "none" THEN error ELSE closedError
  /\ queue' = [c \in Calls |-> IF \E s \in StreamIds : routes[s] = c
                                 THEN Append(queue[c], Closed(error)) ELSE queue[c]]
  /\ routes' = [s \in StreamIds |-> NoCall]
  /\ rpc' = "dead"

(* read_frame with no whole frame buffered: enter recv, or fail at once on *)
(* a closed descriptor.                                                    *)
ReaderNeedsBytes ==
  /\ rpc = "loop" /\ buf = <<>>
  /\ IF sockOpen THEN rpc' = "recv" /\ UNCHANGED tableVars ELSE FailAll("OSError")
  /\ UNCHANGED <<callVars, idVars, writer, connVars, rFrame, rTo, buf, c2s, serverVars>>

(* recv returns some of the pending frames, or the end of the stream, or   *)
(* an error.                                                               *)
ReaderRecv ==
  /\ rpc = "recv"
  /\ \/ \E n \in 1..Len(s2c) :
          /\ buf' = SubSeq(s2c, 1, n)
          /\ s2c' = SubSeq(s2c, n + 1, Len(s2c))
          /\ rpc' = "loop" /\ UNCHANGED tableVars
     \/ /\ s2c = <<>> /\ peer = "fin"
        /\ FailAll("ConnectionClosed") /\ UNCHANGED <<buf, s2c>>
     \/ /\ s2c = <<>> /\ peer = "reset"
        /\ FailAll("OSError") /\ UNCHANGED <<buf, s2c>>
  /\ UNCHANGED <<callVars, idVars, writer, connVars, rFrame, rTo, c2s, peer, srv, sent, pings>>

(* Mutation of ReaderDecode: the whole buffer is cleared with the frame.   *)
ReaderDecodeLosesTail ==
  /\ rpc = "loop" /\ buf # <<>>
  /\ buf' = <<>>
  /\ LET f == Head(buf) IN
       /\ f.op \notin {"BAD", "SERVER_PING"} /\ routes[f.sid] # NoCall
       /\ rFrame' = f /\ rTo' = routes[f.sid]
       /\ rpc' = "put" /\ UNCHANGED tableVars
  /\ UNCHANGED <<callVars, idVars, writer, connVars, c2s, serverVars>>

(* Mutation of ReaderDecode: a route is removed with its first frame.      *)
ReaderDecodeDropsRoute ==
  /\ rpc = "loop" /\ buf # <<>>
  /\ buf' = Tail(buf)
  /\ LET f == Head(buf) IN
       /\ f.op \notin {"BAD", "SERVER_PING"} /\ routes[f.sid] # NoCall
       /\ rFrame' = f /\ rTo' = routes[f.sid]
       /\ rpc' = "put" /\ routes' = [routes EXCEPT ![f.sid] = NoCall]
  /\ UNCHANGED <<callVars, queue, closedError, idVars, writer, connVars, c2s, serverVars>>

(* Mutation of ReaderDecode: a frame goes to any waiter, as on a connection*)
(* that answers its requests in turn.                                      *)
ReaderDecodeUnrouted ==
  /\ rpc = "loop" /\ buf # <<>>
  /\ buf' = Tail(buf)
  /\ Head(buf).op \notin {"BAD", "SERVER_PING"}
  /\ rFrame' = Head(buf)
  /\ rTo' \in {routes[s] : s \in StreamIds} \ {NoCall}
  /\ rpc' = "put"
  /\ UNCHANGED <<callVars, tableVars, idVars, writer, connVars, c2s, serverVars>>

(* Decode the first buffered frame: a codec error is fatal, a SERVER_PING  *)
(* is answered, any other frame is looked up (and dropped when nobody is   *)
(* registered).                                                            *)
ReaderDecode ==
  /\ rpc = "loop" /\ buf # <<>>
  /\ buf' = Tail(buf)
  /\ LET f == Head(buf) IN
       \/ f.op = "BAD" /\ FailAll("ConnectionClosed") /\ UNCHANGED <<rFrame, rTo>>
       \/ f.op = "SERVER_PING" /\ rpc' = "pong" /\ UNCHANGED <<rFrame, rTo, tableVars>>
       \/ /\ f.op \notin {"BAD", "SERVER_PING"} /\ routes[f.sid] = NoCall
          /\ rpc' = "loop" /\ UNCHANGED <<rFrame, rTo, tableVars>>
       \/ /\ f.op \notin {"BAD", "SERVER_PING"} /\ routes[f.sid] # NoCall
          /\ rFrame' = f /\ rTo' = routes[f.sid]
          /\ rpc' = "put" /\ UNCHANGED tableVars
  /\ UNCHANGED <<callVars, idVars, writer, connVars, c2s, serverVars>>

(* q.put, after _routes_lock was released.                                 *)
ReaderPut ==
  /\ rpc = "put"
  /\ queue' = [queue EXCEPT ![rTo] = Append(@, rFrame)]
  /\ rpc' = "loop" /\ rFrame' = NoFrame /\ rTo' = NoCall
  /\ UNCHANGED <<callVars, idVars, routes, closedError, writer, connVars, buf, c2s, serverVars>>

(* CLIENT_PONG goes through _write: the reader waits for the same lock as  *)
(* the callers, and for room in the same socket buffer.                    *)
ReaderLockWrite ==
  /\ rpc = "pong" /\ writer = NoCall
  /\ writer' = Reader
  /\ rpc' = "pong1"
  /\ UNCHANGED <<callVars, idVars, tableVars, connVars, rFrame, rTo, buf, c2s, serverVars>>

ReaderSendHead ==
  /\ rpc = "pong1"
  /\ Transmit(Reader, "head")
  /\ rpc' = "pong2"
  /\ UNCHANGED <<callVars, idVars, tableVars, writer, connVars, rFrame, rTo, buf, serverVars>>

ReaderSendTail ==
  /\ rpc = "pong2"
  /\ Transmit(Reader, "tail")
  /\ writer' = NoCall
  /\ rpc' = "loop"
  /\ UNCHANGED <<callVars, idVars, tableVars, connVars, rFrame, rTo, buf, serverVars>>

(* contextlib.suppress: a heartbeat that cannot be written is ignored.     *)
ReaderSendRaises ==
  /\ rpc \in {"pong1", "pong2"}
  /\ ~sockOpen \/ peer # "up"
  /\ writer' = NoCall
  /\ rpc' = "loop"
  /\ UNCHANGED <<callVars, idVars, tableVars, connVars, rFrame, rTo, buf, c2s, serverVars>>

-----------------------------------------------------------------------------
(* The environment: the server, answering in any order across streams and  *)
(* in order within one, and the network.                                   *)

(* Room for a frame towards the client.  What arrives after the reader     *)
(* thread has ended is never read, and is left out.                        *)
Arrives == peer = "up" /\ rpc # "dead" /\ Len(s2c) < WireCap

ServerRecv ==
  /\ peer = "up" /\ Len(c2s) >= 2
  /\ c2s' = SubSeq(c2s, 3, Len(c2s))
  /\ LET c == c2s[1].from IN
       srv' = IF c \in Calls /\ kind[c] # "close" THEN [srv EXCEPT ![c] = "open"] ELSE srv
  /\ UNCHANGED <<callVars, idVars, tableVars, writer, connVars, readerVars, s2c, peer, sent,
                 pings>>

(* The server may leave an answer without its EOS frame for ever.          *)
ServerSend(c) ==
  /\ Arrives /\ srv[c] = "open" /\ sent[c] < MaxFrames
  /\ \E op \in {"DATA", "END", "ERROR"}, eos \in BOOLEAN :
       /\ op # "DATA" => eos
       /\ op = "END" => kind[c] = "subscribe"
       /\ s2c' = Append(s2c, [sid |-> sid[c], op |-> op, eos |-> eos, of |-> c, n |-> sent[c] + 1])
       /\ srv' = [srv EXCEPT ![c] = IF eos THEN "finished" ELSE "open"]
  /\ sent' = [sent EXCEPT ![c] = @ + 1]
  /\ UNCHANGED <<callVars, idVars, tableVars, writer, connVars, readerVars, c2s, peer, pings>>

ServerPing ==
  /\ Arrives /\ pings < MaxPings
  /\ s2c' = Append(s2c, Control("SERVER_PING"))
  /\ pings' = pings + 1
  /\ UNCHANGED <<callVars, idVars, tableVars, writer, connVars, readerVars, c2s, peer, srv, sent>>

(* Bytes that fail the codec; nothing readable follows them.               *)
ServerCorrupts ==
  /\ Arrives
  /\ \A i \in DOMAIN s2c : s2c[i].op # "BAD"
  /\ s2c' = Append(s2c, Control("BAD"))
  /\ UNCHANGED <<callVars, idVars, tableVars, writer, connVars, readerVars, c2s, peer, srv, sent,
                 pings>>

PeerDrops ==
  /\ peer = "up"
  /\ peer' \in {"fin", "reset"}
  /\ c2s' = <<>>
  /\ UNCHANGED <<callVars, idVars, tableVars, writer, connVars, readerVars, s2c, srv, sent,
                 pings>>

-----------------------------------------------------------------------------

CallStep(c) ==
  \/ TakeStreamId(c) \/ StartPing(c) \/ StartClose(c) \/ Register(c)
  \/ WriteTooLarge(c) \/ LockWrite(c) \/ SendHead(c) \/ SendTail(c) \/ SendRaises(c)
  \/ TakeFrame(c) \/ Timeout(c) \/ Deregister(c)
  \/ NextStart(c) \/ NextItem(c) \/ SubClose(c) \/ Close(c)

ReaderStep ==
  \/ ReaderNeedsBytes \/ ReaderRecv \/ ReaderDecode \/ ReaderPut
  \/ ReaderLockWrite \/ ReaderSendHead \/ ReaderSendTail \/ ReaderSendRaises

Environment ==
  \/ ServerRecv \/ ServerPing \/ ServerCorrupts \/ PeerDrops
  \/ \E c \in Calls : ServerSend(c)

Next == (\E c \in Calls : CallStep(c)) \/ ReaderStep \/ Environment

Spec == Init /\ [][Next]_vars

(* Threads that are running keep running, and a queue.get with a deadline  *)
(* returns.  Nothing is assumed of the server, of a blocked send, or of a  *)
(* user deciding to make a call, to poll a subscription or to close it.    *)
CallProgress(c) ==
  \/ Register(c) \/ LockWrite(c) \/ SendHead(c) \/ SendTail(c)
  \/ (peer # "up" /\ SendRaises(c))
  \/ TakeFrame(c) \/ Timeout(c) \/ Deregister(c) \/ NextItem(c) \/ Close(c)

FairSpec == Spec /\ WF_vars(ReaderStep) /\ \A c \in Calls : WF_vars(CallProgress(c))

-----------------------------------------------------------------------------
(* Properties.                                                             *)

TypeCalls ==
  /\ pc \in [Calls -> PCs]
  /\ kind \in [Calls -> AllKinds]
  /\ sid \in [Calls -> StreamIds]
  /\ got \in [Calls -> Seq(Frame)]
  /\ outcome \in [Calls -> Outcomes]

TypeTable ==
  /\ routes \in [StreamIds -> Calls \cup {NoCall}]
  /\ queue \in [Calls -> Seq(Frame)]
  /\ closedError \in Errors \cup {"none"}

TypeConnection ==
  /\ nextId \in 1..MaxStreamId /\ nextId % 2 = 1
  /\ reused \in BOOLEAN
  /\ writer \in Calls \cup {NoCall, Reader}
  /\ sockOpen \in BOOLEAN
  /\ hasTimeout \in BOOLEAN

TypeReader ==
  /\ rpc \in {"loop", "recv", "put", "pong", "pong1", "pong2", "dead"}
  /\ rFrame \in Frame
  /\ rTo \in Calls \cup {NoCall}
  /\ rpc = "put" => rTo \in Calls
  /\ buf \in Seq(Frame)

TypeServer ==
  /\ c2s \in Seq(Part)
  /\ s2c \in Seq(Frame)
  /\ peer \in {"up", "fin", "reset"}
  /\ srv \in [Calls -> {"unseen", "open", "finished"}]
  /\ sent \in [Calls -> Nat]
  /\ pings \in Nat

(* Every variable stays in its domain; in particular _next_stream_id stays *)
(* an odd 32-bit number across the wrap of _take_stream_id, and the        *)
(* reader never puts a frame into a queue that does not exist.             *)
TypeOK == TypeCalls /\ TypeTable /\ TypeConnection /\ TypeReader /\ TypeServer

(* A call on a stream of its own: everything but a ping.                   *)
OpStream(c) == kind[c] \in {"request", "request_one", "subscribe"}

(* Responses route back by stream_id (request): unless a stream id was     *)
(* issued twice, no call on an op stream ever takes a frame that answers   *)
(* another call, however calls, timeouts, late answers and the reader's    *)
(* look-up-then-put interleave.                                            *)
OwnFrames ==
  ~reused => \A c \in Calls : OpStream(c) =>
    \A i \in DOMAIN got[c] : got[c][i].of = c

(* ... and it takes them in the order sent and without a gap, so that a    *)
(* request that returns at its EOS frame has the whole answer (request,    *)
(* read_frame keeping the tail of its buffer).                             *)
FramesInOrder ==
  ~reused => \A c \in Calls : OpStream(c) =>
    /\ \A i \in DOMAIN got[c] : got[c][i].n = i
    /\ (pc[c] = "done" /\ outcome[c] = "ok") => Len(got[c]) = sent[c]

(* Writes are serialized by a lock so frames never interleave (_write,     *)
(* shared by the callers and the reader's CLIENT_PONG): on the wire every  *)
(* head is directly followed by its own tail.                              *)
WholeFrames ==
  \A i \in DOMAIN c2s :
    /\ c2s[i].part = "head" /\ i < Len(c2s) =>
         c2s[i + 1] = [from |-> c2s[i].from, part |-> "tail"]
    /\ c2s[i].part = "tail" =>
         i > 1 /\ c2s[i - 1] = [from |-> c2s[i].from, part |-> "head"]

HasSentinel(c) == \E i \in DOMAIN queue[c] : queue[c][i].op \in Errors

(* When the reader dies it fails every outstanding request (_fail_all): a  *)
(* call that is waiting, or still on its way to waiting, has the _Closed   *)
(* sentinel in its queue, so nobody waits on a queue that is silent for    *)
(* ever.  A subscription is covered when the error is the one              *)
(* Subscription.next catches.                                              *)
WokenOnFailure ==
  ~reused /\ closedError # "none" => \A c \in Calls : OpStream(c) =>
    /\ pc[c] \in {"write", "send1", "send2", "wait"} => HasSentinel(c)
    /\ pc[c] \in {"open", "next"} /\ closedError = "ConnectionClosed" => HasSentinel(c)

(* _register tests _closed_error and inserts in one critical section, so   *)
(* nothing is ever registered on a connection that has failed.             *)
FailedTableEmpty ==
  closedError # "none" => \A s \in StreamIds : routes[s] = NoCall

(* A clean teardown leaves no route behind (route_count): a route belongs  *)
(* to a call that is still running, or to a subscription nobody closed.    *)
NoRouteLeak ==
  \A s \in StreamIds : routes[s] # NoCall =>
    pc[routes[s]] \in {"write", "send1", "send2", "wait", "open", "next", "drop"}

(* An op stream's route is removed by its own call, or by the failure of   *)
(* the connection, and by nobody else: no other call's registration or     *)
(* clean-up detaches it while the server may still answer.                 *)
RouteLostOnlyByOwner ==
  [][\A s \in StreamIds, c \in Calls :
       (~reused' /\ OpStream(c) /\ routes[s] = c /\ routes'[s] # c)
         => (pc[c] = "drop" /\ pc'[c] = "done") \/ closedError' # "none"]_vars

(* A dead connection releases its callers: after the reader fails, no      *)
(* request keeps waiting, even with request_timeout=None.                  *)
FailureReleasesRequests ==
  closedError # "none" ~> \A c \in Calls : OpStream(c) => pc[c] # "wait"

(* request_timeout bounds the wait for one frame, not the request: a       *)
(* request or a ping with a deadline stays waiting (or short of its        *)
(* clean-up) for ever only if frames keep coming to it for ever, whatever  *)
(* the server does and whichever calls share stream 0.  A server that      *)
(* drips frames without EOS does hold it, and a sendall that blocks has no *)
(* deadline at all.                                                        *)
FrameWaitEnds ==
  \A c \in Calls :
    \/ []<>~(hasTimeout /\ pc[c] \in {"wait", "drop"})
    \/ []<><<Len(got'[c]) > Len(got[c])>>_got

-----------------------------------------------------------------------------
(* What the documentation says and the code does not do.                   *)

(* ping "awaits the server's PONG, which echoes that timestamp": the frame *)
(* a ping returns answers this ping.                                       *)
PongAnswersItsPing ==
  \A c \in Calls : kind[c] = "ping" => \A i \in DOMAIN got[c] : got[c][i].of = c

(* Subscription.next returns "None once the stream has ended (the server   *)
(* EOS-closed it, or the connection dropped)": it does not block on the    *)
(* queue of a connection that has dropped.                                 *)
NextEndsAfterDrop ==
  \A c \in Calls : closedError # "none" /\ pc[c] = "next" => HasSentinel(c)
=============================================================================
