---------------------------- MODULE MuxAioProofs ----------------------------
(***************************************************************************)
(* Proofs about the asyncio connection, for every set of calls (no larger  *)
(* than the number of odd stream ids), every width of the id and every     *)
(* bound of the environment: its safety invariants, and that it implements *)
(* Demux.                                                                  *)
(*                                                                         *)
(* The argument.  While a call has not begun, _next_stream_id is an id     *)
(* nobody has (Ids), so a route leads to the one call with its id (Owned)  *)
(* and a frame, which bears the id of the call it answers (Answers), can   *)
(* only be put into that call's queue.  A request is written at most once  *)
(* (Written), so its answer is numbered once.  A running call is in the    *)
(* table exactly while the connection lives, so what it was handed, what   *)
(* is in its queue and what is on its way are consecutive pieces of its    *)
(* answer (Queued, Pending): the reader drops a frame only of a call that  *)
(* is over.                                                                *)
(***************************************************************************)
EXTENDS MuxAio, SequenceTheorems, FiniteSetTheorems, TLAPS

Active == {"lock", "drain", "wait", "open", "next"}
Answering == {"DATA", "END", "ERROR"}

(* A request or a subscription that is under way.                          *)
Live(c) == OpStream(c) /\ pc[c] \in Active

(* Where a call can be depends on its kind; one that has not begun has     *)
(* left no trace.                                                          *)
Stages ==
  \A c \in Calls :
    /\ pc[c] = "idle" => kind[c] = "request" /\ sid[c] = HANDSHAKE_STREAM_ID /\ got[c] = <<>>
                         /\ queue[c] = <<>>
    /\ pc[c] \in {"open", "next"} => kind[c] = "subscribe"
    /\ pc[c] = "wait" => kind[c] \in {"request", "request_one", "ping"}
    /\ pc[c] \in {"close", "stop", "flush"} => kind[c] = "aclose"
    /\ Live(c) => sid[c] # HANDSHAKE_STREAM_ID

Issued == {c \in Calls : sid[c] # HANDSHAKE_STREAM_ID}

(* _take_stream_id gives no id out twice.                                  *)
Ids ==
  /\ \A c, d \in Calls : sid[c] = sid[d] /\ sid[c] # HANDSHAKE_STREAM_ID => c = d
  /\ (\E c \in Calls : pc[c] = "idle") =>
       /\ \A c \in Calls : sid[c] < nextId
       /\ nextId <= 2 * Cardinality(Issued) + 1

(* A route leads to the running call that has its id.                      *)
Owned ==
  \A s \in StreamIds, c \in Calls : routes[s] = c =>
    sid[c] = s /\ pc[c] \in Active /\ kind[c] # "aclose"

(* A request or subscription under way has its route until the connection  *)
(* fails.                                                                  *)
Registered == closedError = "none" => \A c \in Calls : Live(c) => routes[sid[c]] = c

(* The write lock is held by whom is inside drain.                         *)
Locks == (lock \in Calls => pc[lock] = "drain") /\ (lock = Reader => rpc = "drain")

Acloses ==
  \A c \in Calls : kind[c] = "aclose" /\ pc[c] \in {"stop", "flush", "done"} => closedError # "none"

(* One request frame per call, and answers only to what the server read.   *)
Written ==
  /\ \A c \in Calls :
       /\ pc[c] \in {"idle", "lock"} => srv[c] = "unseen" /\ \A i \in DOMAIN c2s : c2s[i] # c
       /\ srv[c] = "unseen" => sent[c] = 0
  /\ \A i \in DOMAIN c2s : c2s[i] \in Calls => srv[c2s[i]] = "unseen"
  /\ \A i, j \in DOMAIN c2s : c2s[i] = c2s[j] /\ c2s[i] \in Calls => i = j

(* The frame f is part of the answer to c.                                 *)
Part(f, c) ==
  /\ f.op \in Answering /\ f.of = c
  /\ f.n >= 1 /\ f.n <= sent[c]
  /\ f.eos => srv[c] = "finished" /\ f.n = sent[c]

(* What is on its way to the reader: numbered parts of answers, with the   *)
(* id of the call they answer, in the order they were sent.                *)
Answers ==
  /\ \A i \in DOMAIN s2c :
       \/ s2c[i].op \in {"BAD", "SERVER_PING"} /\ s2c[i].of = NoCall
       \/ s2c[i].of \in Calls /\ Part(s2c[i], s2c[i].of) /\ s2c[i].sid = sid[s2c[i].of]
  /\ \A i, j \in DOMAIN s2c :
       i < j /\ s2c[i].of = s2c[j].of /\ s2c[i].of \in Calls => s2c[i].n < s2c[j].n

(* A queue holds the next parts of the call's answer, and after them the   *)
(* sentinel of the failure.                                                *)
Queued ==
  \A c \in Calls : Live(c) => \A i \in DOMAIN queue[c] :
    \/ queue[c][i].op \in Errors /\ queue[c][i].op = closedError /\ i = Len(queue[c])
    \/ Part(queue[c][i], c) /\ queue[c][i].n = Len(got[c]) + i

(* The rest of the answer sent so far is on its way.                       *)
Reached(c) == Len(got[c]) + Len(queue[c])

Pending ==
  closedError = "none" => \A c \in Calls : Live(c) =>
    /\ Reached(c) <= sent[c]
    /\ \A i \in DOMAIN s2c : s2c[i].of = c => s2c[i].n > Reached(c)
    /\ \A n \in 1..sent[c] : n > Reached(c) => \E i \in DOMAIN s2c : s2c[i].of = c /\ s2c[i].n = n

IInv ==
  /\ TypeOK /\ Stages /\ Ids /\ Owned /\ Registered /\ Locks /\ Acloses /\ AcloseEndsReader
  /\ Written /\ Answers /\ Queued /\ Pending /\ WokenOnFailure

-----------------------------------------------------------------------------
(* Types.                                                                  *)

(* The sentinels, the heartbeat and the corrupt frame are frames.          *)
LEMMA ControlFrame ==
  ASSUME NEW op \in Errors \cup {"SERVER_PING", "BAD"}
  PROVE  /\ Control(op) \in Frame
         /\ Control(op).op = op /\ Control(op).of = NoCall
BY AioIdsAssumption DEF Control, Frame, StreamIds, Errors

(* The fields of a frame.                                                  *)
LEMMA FrameFields ==
  ASSUME NEW f \in Frame
  PROVE  /\ f.sid \in StreamIds /\ f.eos \in BOOLEAN /\ f.n \in Nat /\ f.of \in Calls \cup {NoCall}
         /\ f.op \in Errors \cup {"DATA", "END", "ERROR", "SERVER_PING", "BAD"}
BY DEF Frame

(* What the server sends is a frame.                                       *)
LEMMA AnswerFrame ==
  ASSUME NEW s \in StreamIds, NEW op \in Answering, NEW eos \in BOOLEAN, NEW c \in Calls, NEW n \in Nat
  PROVE  [sid |-> s, op |-> op, eos |-> eos, of |-> c, n |-> n] \in Frame
BY DEF Frame, Answering

(* Appending to a sequence.                                                *)
LEMMA Appended ==
  ASSUME NEW S, NEW s \in Seq(S), NEW e \in S
  PROVE  /\ Append(s, e) \in Seq(S) /\ Len(Append(s, e)) = Len(s) + 1
         /\ DOMAIN Append(s, e) = 1..(Len(s) + 1) /\ DOMAIN s = 1..Len(s) /\ Len(s) \in Nat
         /\ \A i \in 1..Len(s) : Append(s, e)[i] = s[i]
         /\ Append(s, e)[Len(s) + 1] = e
BY AppendProperties, LenProperties

(* Taking the first item.                                                  *)
LEMMA Popped ==
  ASSUME NEW S, NEW s \in Seq(S), s # <<>>
  PROVE  /\ Tail(s) \in Seq(S) /\ Len(Tail(s)) = Len(s) - 1 /\ Head(s) \in S /\ Head(s) = s[1]
         /\ DOMAIN Tail(s) = 1..(Len(s) - 1) /\ DOMAIN s = 1..Len(s)
         /\ Len(s) \in Nat /\ Len(s) >= 1
         /\ \A i \in 1..(Len(s) - 1) : Tail(s)[i] = s[i + 1]
<1>1. Len(s) \in Nat /\ Len(s) # 0 /\ DOMAIN s = 1..Len(s) /\ s[1] \in S
  BY LenProperties, EmptySeq
<1>2. Head(s) = s[1] /\ Tail(s) \in Seq(S) /\ Len(Tail(s)) = Len(s) - 1
  BY HeadTailProperties
<1>3. DOMAIN Tail(s) = 1..(Len(s) - 1)
  BY <1>1, <1>2, LenProperties
<1>4. \A i \in 1..(Len(s) - 1) : Tail(s)[i] = s[i + 1]
  BY <1>1, HeadTailProperties
<1> QED BY <1>1, <1>2, <1>3, <1>4

(* _fail_all keeps the types of the table.                                 *)
LEMMA FailAllType ==
  ASSUME TypeOK, NEW error \in Errors, FailAll(error)
  PROVE  /\ closedError' \in Errors \cup {"none"}
         /\ queue' \in [Calls -> Seq(Frame)]
         /\ routes' \in [StreamIds -> Calls \cup {NoCall}]
<1>1. \A c \in Calls : Append(queue[c], Control(error)) \in Seq(Frame)
  BY ControlFrame, Appended DEF TypeOK
<1> QED BY <1>1 DEF FailAll, TypeOK

(* A write keeps the type of the wire.                                     *)
LEMMA TransmitType ==
  ASSUME TypeOK, NEW from \in Calls \cup {Reader}, Transmit(from)
  PROVE  c2s' \in Seq(Calls \cup {Reader})
BY Appended DEF TypeOK, Transmit

(* Taking an item of a queue, and collecting a frame.                      *)
LEMMA QueueType ==
  ASSUME TypeOK, NEW c \in Calls, queue[c] # <<>>
  PROVE  /\ Head(queue[c]) \in Frame
         /\ [queue EXCEPT ![c] = Tail(@)] \in [Calls -> Seq(Frame)]
         /\ [got EXCEPT ![c] = Append(@, Head(queue[c]))] \in [Calls -> Seq(Frame)]
<1>1. queue[c] \in Seq(Frame) /\ got[c] \in Seq(Frame)
  BY DEF TypeOK
<1>2. Head(queue[c]) \in Frame /\ Tail(queue[c]) \in Seq(Frame)
  BY <1>1, Popped
<1>3. Append(got[c], Head(queue[c])) \in Seq(Frame)
  BY <1>1, <1>2, Appended
<1> QED BY <1>2, <1>3 DEF TypeOK

(* Every step of a call keeps the types.                                   *)
LEMMA TypeCall ==
  ASSUME TypeOK, NEW c \in Calls, CallStep(c)
  PROVE  TypeOK'
<1> USE DEF callVars, tableVars, readerVars, connVars, serverVars, others, Goto, Result
<1>1. CASE WrongLoop(c)
  BY <1>1, AioKindsAssumption DEF WrongLoop, TypeOK, Outcomes
<1>2. CASE Begin(c)
  <2>1. PICK k \in Kinds \ {"aclose"} :
          /\ kind' = [kind EXCEPT ![c] = k]
          /\ sid' = [sid EXCEPT ![c] = IF k = "ping" THEN HANDSHAKE_STREAM_ID ELSE nextId]
          /\ nextId' = IF k = "ping" THEN nextId ELSE Advance(nextId)
    BY <1>2 DEF Begin
  <2>2. kind' \in [Calls -> AllKinds] /\ sid' \in [Calls -> StreamIds] /\ nextId' \in 1..MaxStreamId
    BY <2>1, AioKindsAssumption, AioIdsAssumption DEF TypeOK, StreamIds, HANDSHAKE_STREAM_ID, Advance
  <2>3. outcome' \in [Calls -> Outcomes] /\ routes' \in [StreamIds -> Calls \cup {NoCall}]
        /\ pc' \in [Calls -> {"idle", "lock", "drain", "wait", "open", "next", "close", "stop",
                              "flush", "done"}]
    <3>1. CASE closedError # "none"
      <4>1. /\ outcome' = [outcome EXCEPT ![c] = closedError]
            /\ pc' = [pc EXCEPT ![c] = "done"] /\ routes' = routes
        BY <1>2, <3>1 DEF Begin
      <4>2. closedError \in Outcomes
        BY <3>1 DEF TypeOK, Outcomes
      <4> QED BY <4>1, <4>2 DEF TypeOK
    <3>2. CASE closedError = "none"
      <4>1. /\ outcome' = outcome /\ pc' = [pc EXCEPT ![c] = "lock"]
            /\ routes' = [routes EXCEPT ![sid'[c]] = c]
        BY <1>2, <3>2 DEF Begin
      <4> QED BY <2>2, <4>1 DEF TypeOK
    <3> QED BY <3>1, <3>2
  <2>4. nextId' % 2 = 1
    <3>1. nextId \in Nat /\ nextId % 2 = 1 /\ nextId' \in {nextId, nextId + 2, 1}
      BY <2>1, AioIdsAssumption DEF TypeOK, Advance
    <3>2. (nextId + 2) % 2 = 1
      BY <3>1
    <3>3. 1 % 2 = 1
      OBVIOUS
    <3> QED BY <3>1, <3>2, <3>3
  <2> QED BY <1>2, <2>2, <2>3, <2>4 DEF Begin, TypeOK
<1>3. CASE BeginAclose(c)
  BY <1>3 DEF BeginAclose, TypeOK, AllKinds
<1>4. CASE WriteTooLarge(c)
  BY <1>4 DEF WriteTooLarge, Leave, TypeOK, Outcomes
<1>5. CASE WriteFrame(c)
  BY <1>5, TransmitType DEF WriteFrame, TypeOK
<1>6. CASE Drained(c)
  BY <1>6 DEF Drained, TypeOK
<1>7. CASE DrainRaises(c)
  BY <1>7 DEF DrainRaises, WriteRaises, Leave, TypeOK, Outcomes, Errors
<1>8. CASE TakeFrame(c)
  <2>1. queue' \in [Calls -> Seq(Frame)] /\ got' \in [Calls -> Seq(Frame)]
    <3>1. /\ queue[c] # <<>> /\ queue' = [queue EXCEPT ![c] = Tail(@)]
          /\ got' = got \/ got' = [got EXCEPT ![c] = Append(@, Head(queue[c]))]
      BY <1>8 DEF TakeFrame
    <3>2. got \in [Calls -> Seq(Frame)] BY DEF TypeOK
    <3> QED BY <3>1, <3>2, QueueType
  <2>2. outcome' \in [Calls -> Outcomes] /\ routes' \in [StreamIds -> Calls \cup {NoCall}]
        /\ pc' \in [Calls -> {"idle", "lock", "drain", "wait", "open", "next", "close", "stop",
                              "flush", "done"}]
    BY <1>8, ZenonT(30) DEF TakeFrame, Leave, FinalResult, TypeOK, Outcomes, Errors
  <2> QED BY <1>8, <2>1, <2>2 DEF TakeFrame, TypeOK
<1>9. CASE Timeout(c)
  BY <1>9 DEF Timeout, Leave, TypeOK, Outcomes
<1>10. CASE Cancel(c)
  BY <1>10, ZenonT(30) DEF Cancel, WriteRaises, Leave, TypeOK, Outcomes
<1>11. CASE NextStart(c)
  BY <1>11 DEF NextStart, TypeOK
<1>12. CASE NextItem(c)
  <2>1. queue' \in [Calls -> Seq(Frame)] /\ got' \in [Calls -> Seq(Frame)]
    <3>1. /\ queue[c] # <<>> /\ queue' = [queue EXCEPT ![c] = Tail(@)]
          /\ got' = got \/ got' = [got EXCEPT ![c] = Append(@, Head(queue[c]))]
      BY <1>12 DEF NextItem
    <3>2. got \in [Calls -> Seq(Frame)] BY DEF TypeOK
    <3> QED BY <3>1, <3>2, QueueType
  <2>2. outcome' \in [Calls -> Outcomes] /\ routes' \in [StreamIds -> Calls \cup {NoCall}]
        /\ pc' \in [Calls -> {"idle", "lock", "drain", "wait", "open", "next", "close", "stop",
                              "flush", "done"}]
    BY <1>12 DEF NextItem, Leave, TypeOK, Outcomes, Errors
  <2> QED BY <1>12, <2>1, <2>2 DEF NextItem, TypeOK
<1>13. CASE SubClose(c)
  BY <1>13 DEF SubClose, Leave, TypeOK, Outcomes
<1>14. CASE AcloseFails(c)
  BY <1>14, FailAllType DEF AcloseFails, TypeOK, Errors
<1>15. CASE AcloseJoined(c)
  BY <1>15 DEF AcloseJoined, TypeOK
<1>16. CASE AcloseFlushed(c)
  BY <1>16 DEF AcloseFlushed, TypeOK
<1> QED
  BY <1>1, <1>2, <1>3, <1>4, <1>5, <1>6, <1>7, <1>8, <1>9, <1>10, <1>11, <1>12, <1>13, <1>14,
     <1>15, <1>16 DEF CallStep

(* So does every other step.                                               *)
LEMMA TypeStep == TypeOK /\ [Next]_vars => TypeOK'
<1> SUFFICES ASSUME TypeOK, [Next]_vars PROVE TypeOK'
  OBVIOUS
<1> USE DEF callVars, tableVars, readerVars, connVars, serverVars, others
<1>1. ASSUME NEW c \in Calls, CallStep(c) PROVE TypeOK'
  BY <1>1, TypeCall
<1>2. CASE ReaderFrame
  <2>1. Head(s2c) \in Frame /\ s2c' \in Seq(Frame)
    BY <1>2, Popped DEF ReaderFrame, TypeOK
  <2>2. routes[Head(s2c).sid] \in Calls \cup {NoCall}
    BY <2>1, FrameFields DEF TypeOK
  <2>3. \A c \in Calls : Append(queue[c], Head(s2c)) \in Seq(Frame)
    BY <2>1, Appended DEF TypeOK
  <2>4. /\ queue' \in [Calls -> Seq(Frame)] /\ routes' \in [StreamIds -> Calls \cup {NoCall}]
        /\ closedError' \in Errors \cup {"none"}
    BY <1>2, <2>2, <2>3, FailAllType DEF ReaderFrame, TypeOK, Errors
  <2> QED BY <1>2, <2>1, <2>4 DEF ReaderFrame, TypeOK
<1>3. CASE ReaderEnds
  BY <1>3, FailAllType DEF ReaderEnds, TypeOK, Errors
<1>4. CASE PongWrite
  BY <1>4, TransmitType DEF PongWrite, TypeOK
<1>5. CASE PongDone \/ ReaderCancelled
  BY <1>5 DEF PongDone, ReaderCancelled, TypeOK
<1>6. CASE ServerRecv
  <2>1. c2s' \in Seq(Calls \cup {Reader})
    BY <1>6, Popped DEF ServerRecv, TypeOK
  <2> QED BY <1>6, <2>1 DEF ServerRecv, TypeOK
<1>7. ASSUME NEW c \in Calls, ServerSend(c) PROVE TypeOK'
  <2>1. PICK op \in Answering, eos \in BOOLEAN :
          s2c' = Append(s2c, [sid |-> sid[c], op |-> op, eos |-> eos, of |-> c, n |-> sent[c] + 1])
    BY <1>7 DEF ServerSend, Answering
  <2>2. s2c' \in Seq(Frame)
    <3>1. sid[c] \in StreamIds /\ sent[c] + 1 \in Nat /\ s2c \in Seq(Frame)
      BY DEF TypeOK
    <3>2. [sid |-> sid[c], op |-> op, eos |-> eos, of |-> c, n |-> sent[c] + 1] \in Frame
      BY <3>1, AnswerFrame
    <3> QED BY <2>1, <3>1, <3>2, Appended
  <2> QED BY <1>7, <2>2 DEF ServerSend, TypeOK
<1>8. CASE ServerPing
  BY <1>8, ControlFrame, Appended DEF ServerPing, TypeOK
<1>9. CASE ServerCorrupts
  BY <1>9, ControlFrame, Appended DEF ServerCorrupts, TypeOK
<1>10. CASE PeerDrops
  BY <1>10 DEF PeerDrops, TypeOK
<1>11. CASE UNCHANGED vars
  BY <1>11 DEF vars, TypeOK
<1> QED
  BY <1>1, <1>2, <1>3, <1>4, <1>5, <1>6, <1>7, <1>8, <1>9, <1>10, <1>11
  DEF Next, ReaderStep, Environment

-----------------------------------------------------------------------------
(* What the longer actions do, case by case.                               *)

(* A call that begins is registered, or refused by a failed connection.    *)
Began(c, k, s) ==
  /\ kind' = [kind EXCEPT ![c] = k] /\ sid' = [sid EXCEPT ![c] = s]
  /\ \/ k = "ping" /\ s = HANDSHAKE_STREAM_ID /\ nextId' = nextId
     \/ k \in OpKinds /\ s = nextId /\ nextId' = Advance(nextId)
  /\ \/ /\ closedError # "none" /\ outcome' = [outcome EXCEPT ![c] = closedError]
        /\ pc' = [pc EXCEPT ![c] = "done"] /\ routes' = routes
     \/ /\ closedError = "none" /\ outcome' = outcome
        /\ pc' = [pc EXCEPT ![c] = "lock"] /\ routes' = [routes EXCEPT ![s] = c]

(* Begin does one of the two, with an id of the connection.                *)
LEMMA BeginEffect ==
  ASSUME TypeOK, NEW c \in Calls, Begin(c)
  PROVE  \E k \in AllKinds \ {"aclose"} : \E s \in StreamIds : Began(c, k, s)
<1>1. PICK k \in Kinds \ {"aclose"} :
        /\ kind' = [kind EXCEPT ![c] = k]
        /\ sid' = [sid EXCEPT ![c] = IF k = "ping" THEN HANDSHAKE_STREAM_ID ELSE nextId]
        /\ nextId' = IF k = "ping" THEN nextId ELSE Advance(nextId)
  BY DEF Begin
<1>2. k \in AllKinds \ {"aclose"} /\ (k = "ping" \/ k \in OpKinds)
  BY AioKindsAssumption DEF AllKinds, OpKinds
<1>3. PICK s \in StreamIds : s = IF k = "ping" THEN HANDSHAKE_STREAM_ID ELSE nextId
  BY AioIdsAssumption DEF TypeOK, StreamIds, HANDSHAKE_STREAM_ID
<1>4. sid' = [sid EXCEPT ![c] = s] /\ sid'[c] = s
  BY <1>1, <1>3 DEF TypeOK
<1>5. \/ /\ closedError # "none" /\ outcome' = [outcome EXCEPT ![c] = closedError]
         /\ pc' = [pc EXCEPT ![c] = "done"] /\ routes' = routes
      \/ /\ closedError = "none" /\ outcome' = outcome
         /\ pc' = [pc EXCEPT ![c] = "lock"] /\ routes' = [routes EXCEPT ![s] = c]
  BY <1>4 DEF Begin, Goto, Result
<1>6. \/ k = "ping" /\ s = HANDSHAKE_STREAM_ID /\ nextId' = nextId
      \/ k \in OpKinds /\ s = nextId /\ nextId' = Advance(nextId)
  BY <1>1, <1>2, <1>3 DEF OpKinds
<1> QED BY <1>1, <1>2, <1>4, <1>5, <1>6 DEF Began

(* A call in flight ends with its route gone, goes on with everything in   *)
(* its place, or, an aclose whose BYE was not written, goes on to close.   *)
Ends(c) ==
  /\ pc[c] \in Active /\ pc' = [pc EXCEPT ![c] = "done"]
  /\ routes' = [routes EXCEPT ![sid[c]] = NoCall]
GoesOn(c) ==
  /\ pc[c] \in Active /\ pc' \in {[pc EXCEPT ![c] = "open"], pc}
  /\ (pc' # pc => kind[c] = "subscribe") /\ UNCHANGED <<routes, outcome>>
Closes(c) ==
  /\ kind[c] = "aclose" /\ UNCHANGED routes
  /\ \/ pc[c] \in {"lock", "drain"} /\ pc' = [pc EXCEPT ![c] = "close"]
     \/ pc[c] = "flush" /\ pc' = [pc EXCEPT ![c] = "done"]

(* It does one of the three.                                               *)
LEMMA EndEffect ==
  ASSUME TypeOK, Stages, NEW c \in Calls,
         \/ WriteTooLarge(c) \/ DrainRaises(c) \/ TakeFrame(c) \/ Timeout(c) \/ Cancel(c)
         \/ NextItem(c) \/ SubClose(c)
  PROVE  /\ Ends(c) \/ GoesOn(c) \/ Closes(c)
         /\ UNCHANGED <<kind, sid, nextId, closedError, c2s, others>>
<1> USE DEF others, Goto, Result, Ends, GoesOn, Closes, Active
<1>1. CASE WriteTooLarge(c)
  BY <1>1 DEF WriteTooLarge, Leave
<1>2. CASE DrainRaises(c)
  <2>1. CASE kind[c] = "aclose" BY <1>2, <2>1 DEF DrainRaises, WriteRaises
  <2>2. CASE kind[c] # "aclose" BY <1>2, <2>2 DEF DrainRaises, WriteRaises, Leave
  <2> QED BY <2>1, <2>2
<1>3. CASE TakeFrame(c)
  BY <1>3 DEF TakeFrame, Leave
<1>4. CASE Timeout(c)
  BY <1>4 DEF Timeout, Leave, Stages
<1>5. CASE Cancel(c)
  <2>1. CASE pc[c] \in {"lock", "drain"} /\ WriteRaises(c, "CancelledError") /\ kind[c] = "aclose"
    BY <1>5, <2>1 DEF Cancel, WriteRaises
  <2>2. CASE pc[c] \in {"lock", "drain"} /\ WriteRaises(c, "CancelledError") /\ kind[c] # "aclose"
    BY <1>5, <2>2 DEF Cancel, WriteRaises, Leave
  <2>3. CASE pc[c] = "wait" /\ Leave(c, "CancelledError")
    BY <1>5, <2>3 DEF Cancel, Leave
  <2>4. CASE pc[c] = "next" /\ Goto(c, "open") /\ UNCHANGED <<outcome, routes>>
    BY <1>5, <2>4 DEF Cancel, Stages
  <2>5. CASE pc[c] = "flush" /\ Goto(c, "done") /\ Result(c, "CancelledError") /\ UNCHANGED routes
    BY <1>5, <2>5 DEF Cancel, Stages
  <2> QED BY <1>5, <2>1, <2>2, <2>3, <2>4, <2>5 DEF Cancel
<1>6. CASE NextItem(c)
  BY <1>6 DEF NextItem, Leave, Stages
<1>7. CASE SubClose(c)
  BY <1>7 DEF SubClose, Leave
<1> QED BY <1>1, <1>2, <1>3, <1>4, <1>5, <1>6, <1>7

(* _fail_all: nobody is registered afterwards, and who was has the         *)
(* sentinel last in its queue.                                             *)
LEMMA FailEffect ==
  ASSUME TypeOK, NEW error \in Errors, FailAll(error)
  PROVE  /\ \A s \in StreamIds : routes'[s] = NoCall
         /\ closedError' # "none" /\ (closedError # "none" => closedError' = closedError)
         /\ closedError = "none" => closedError' = error
         /\ \A c \in Calls : \/ queue'[c] = queue[c] /\ \A s \in StreamIds : routes[s] # c
                             \/ /\ queue'[c] = Append(queue[c], Control(error))
                                /\ \E s \in StreamIds : routes[s] = c
BY DEF FailAll, TypeOK, Errors

(* A frame that is neither a heartbeat nor corrupt goes to the queue its   *)
(* id is routed to.                                                        *)
LEMMA PutEffect ==
  ASSUME TypeOK, ReaderFrame, Head(s2c).op \notin {"BAD", "SERVER_PING"}
  PROVE  /\ UNCHANGED <<callVars, nextId, routes, closedError, rpc, cancelled, c2s, sent, srv>>
         /\ \A c \in Calls : queue'[c] = IF routes[Head(s2c).sid] = c THEN Append(queue[c], Head(s2c))
                                         ELSE queue[c]
<1>1. Head(s2c) \in Frame /\ Head(s2c).sid \in StreamIds
  BY Popped, FrameFields DEF ReaderFrame, TypeOK
<1>2. routes[Head(s2c).sid] \in Calls \cup {NoCall}
  BY <1>1 DEF TypeOK
<1>3. queue' = IF routes[Head(s2c).sid] = NoCall THEN queue
               ELSE [queue EXCEPT ![routes[Head(s2c).sid]] = Append(@, Head(s2c))]
  BY DEF ReaderFrame
<1> QED
  BY <1>2, <1>3, AioCallsAssumption DEF ReaderFrame, TypeOK

-----------------------------------------------------------------------------
(* The control of calls: stages, routes, locks, ids.                       *)

EndStep(c) ==
  \/ WriteTooLarge(c) \/ DrainRaises(c) \/ TakeFrame(c) \/ Timeout(c) \/ Cancel(c)
  \/ NextItem(c) \/ SubClose(c)
PlainStep(c) == WrongLoop(c) \/ BeginAclose(c) \/ WriteFrame(c) \/ Drained(c) \/ NextStart(c)
                \/ AcloseJoined(c) \/ AcloseFlushed(c)
Pong == PongWrite \/ PongDone \/ ReaderCancelled
ServerStep == ServerRecv \/ ServerPing \/ ServerCorrupts \/ PeerDrops \/ \E c \in Calls : ServerSend(c)

(* The steps, in the groups the proofs below treat alike.                  *)
LEMMA Steps ==
  ASSUME [Next]_vars
  PROVE  \/ \E c \in Calls : Begin(c) \/ PlainStep(c) \/ EndStep(c) \/ AcloseFails(c)
         \/ ReaderFrame \/ ReaderEnds \/ Pong \/ ServerStep \/ UNCHANGED vars
BY DEF Next, CallStep, ReaderStep, Environment, EndStep, PlainStep, Pong, ServerStep

(* A group that leaves the calls and the table alone.                      *)
LEMMA QuietEffect ==
  ASSUME Pong \/ ServerStep \/ UNCHANGED vars
  PROVE  UNCHANGED <<callVars, nextId, tableVars, connVars>>
BY DEF Pong, ServerStep, PongWrite, PongDone, ReaderCancelled, ServerRecv, ServerPing, ServerCorrupts,
       PeerDrops, ServerSend, vars, tableVars, callVars, connVars, readerVars

(* What a plain step of a call leaves alone.                               *)
LEMMA PlainEffect ==
  ASSUME TypeOK, NEW c \in Calls, PlainStep(c)
  PROVE  /\ UNCHANGED <<sid, got, nextId, tableVars, rpc, cancelled, serverVars>>
         /\ \A d \in Calls \ {c} : pc'[d] = pc[d] /\ kind'[d] = kind[d] /\ outcome'[d] = outcome[d]
BY DEF PlainStep, WrongLoop, BeginAclose, WriteFrame, Drained, NextStart, AcloseJoined, AcloseFlushed,
       TypeOK, Goto, Result, others, tableVars, readerVars, connVars, serverVars

(* Where a plain step takes its call.                                      *)
LEMMA PlainMoves ==
  ASSUME TypeOK, Stages, NEW c \in Calls, PlainStep(c)
  PROVE  \/ /\ pc[c] = "idle" /\ pc'[c] = "done" /\ kind'[c] # "aclose"
            /\ outcome'[c] = "ProtocolError"
         \/ pc[c] = "idle" /\ pc'[c] \in {"lock", "close"} /\ kind'[c] = "aclose"
         \/ kind' = kind /\ pc[c] = "lock" /\ pc'[c] = "drain"
         \/ kind' = kind /\ pc[c] = "drain" /\ pc'[c] = "close" /\ kind[c] = "aclose"
         \/ kind' = kind /\ pc[c] = "drain" /\ pc'[c] = "open" /\ kind[c] = "subscribe"
         \/ kind' = kind /\ pc[c] = "drain" /\ pc'[c] = "wait" /\ kind[c] \notin {"aclose", "subscribe"}
         \/ kind' = kind /\ pc[c] = "open" /\ pc'[c] = "next"
         \/ kind' = kind /\ pc[c] = "stop" /\ pc'[c] = "flush" /\ rpc = "dead"
         \/ kind' = kind /\ pc[c] = "flush" /\ pc'[c] = "done"
<1> USE DEF Goto, TypeOK
<1>1. CASE WrongLoop(c) BY <1>1, AioKindsAssumption DEF WrongLoop, Result
<1>2. CASE BeginAclose(c) BY <1>2 DEF BeginAclose
<1>3. CASE WriteFrame(c) BY <1>3 DEF WriteFrame
<1>4. CASE Drained(c)
  <2>1. CASE kind[c] = "aclose" BY <1>4, <2>1 DEF Drained
  <2>2. CASE kind[c] = "subscribe" BY <1>4, <2>2 DEF Drained
  <2>3. CASE kind[c] \notin {"aclose", "subscribe"} BY <1>4, <2>3 DEF Drained
  <2> QED BY <2>1, <2>2, <2>3
<1>5. CASE NextStart(c) BY <1>5 DEF NextStart
<1>6. CASE AcloseJoined(c) BY <1>6 DEF AcloseJoined
<1>7. CASE AcloseFlushed(c) BY <1>7 DEF AcloseFlushed
<1> QED BY <1>1, <1>2, <1>3, <1>4, <1>5, <1>6, <1>7 DEF PlainStep

(* A step that ends a call touches the data of that call only.             *)
LEMMA EndData ==
  ASSUME TypeOK, NEW c \in Calls, EndStep(c)
  PROVE  \A d \in Calls \ {c} : pc'[d] = pc[d] /\ got'[d] = got[d] /\ queue'[d] = queue[d]
                                /\ outcome'[d] = outcome[d]
<1> USE DEF Goto, Result, Leave, WriteRaises, TypeOK
<1>1. CASE WriteTooLarge(c) BY <1>1 DEF WriteTooLarge
<1>2. CASE DrainRaises(c) BY <1>2 DEF DrainRaises
<1>3. CASE TakeFrame(c) BY <1>3 DEF TakeFrame
<1>4. CASE Timeout(c) BY <1>4 DEF Timeout
<1>5. CASE Cancel(c) BY <1>5 DEF Cancel
<1>6. CASE NextItem(c) BY <1>6 DEF NextItem
<1>7. CASE SubClose(c) BY <1>7 DEF SubClose
<1> QED BY <1>1, <1>2, <1>3, <1>4, <1>5, <1>6, <1>7 DEF EndStep

(* The write lock is let go of on every way out of drain.                  *)
LEMMA LocksStep ==
  ASSUME TypeOK, Locks, [Next]_vars
  PROVE  Locks'
<1> USE AioCallsAssumption DEF callVars, tableVars, readerVars, connVars, serverVars, others, Goto, Result,
        Locks, TypeOK
<1>1. ASSUME NEW c \in Calls, Begin(c) PROVE Locks'
  BY <1>1 DEF Begin
<1>2. ASSUME NEW c \in Calls, PlainStep(c) PROVE Locks'
  BY <1>2 DEF PlainStep, WrongLoop, BeginAclose, WriteFrame, Drained, NextStart, AcloseJoined, AcloseFlushed
<1>3. ASSUME NEW c \in Calls, EndStep(c) PROVE Locks'
  <2>1. CASE WriteTooLarge(c) BY <2>1 DEF WriteTooLarge, Leave
  <2>2. CASE DrainRaises(c) BY <2>2 DEF DrainRaises
  <2>3. CASE TakeFrame(c) BY <2>3 DEF TakeFrame, Leave
  <2>4. CASE Timeout(c) BY <2>4 DEF Timeout, Leave
  <2>5. CASE Cancel(c) BY <2>5 DEF Cancel, WriteRaises, Leave
  <2>6. CASE NextItem(c) BY <2>6 DEF NextItem, Leave
  <2>7. CASE SubClose(c) BY <2>7 DEF SubClose, Leave
  <2> QED BY <1>3, <2>1, <2>2, <2>3, <2>4, <2>5, <2>6, <2>7 DEF EndStep
<1>4. ASSUME NEW c \in Calls, AcloseFails(c) PROVE Locks'
  BY <1>4 DEF AcloseFails
<1>5. CASE ReaderFrame \/ ReaderEnds
  BY <1>5 DEF ReaderFrame, ReaderEnds
<1>6. CASE Pong
  BY <1>6 DEF Pong, PongWrite, PongDone, ReaderCancelled
<1>7. CASE ServerStep \/ UNCHANGED vars
  BY <1>7 DEF ServerStep, ServerRecv, ServerPing, ServerCorrupts, PeerDrops, ServerSend, vars
<1> QED BY <1>1, <1>2, <1>3, <1>4, <1>5, <1>6, <1>7, Steps

(* Leaving and failing keep every route with a running call that has its id. *)
LEMMA OwnedStep ==
  ASSUME TypeOK, Stages, Owned, [Next]_vars
  PROVE  Owned'
<1> USE AioCallsAssumption DEF callVars, tableVars, Owned, Active
<1>1. ASSUME NEW c \in Calls, Begin(c) PROVE Owned'
  <2>1. PICK k \in AllKinds \ {"aclose"} : \E s \in StreamIds : Began(c, k, s)
    BY <1>1, BeginEffect
  <2>2. PICK s \in StreamIds : Began(c, k, s)
    BY <2>1
  <2>3. pc[c] = "idle"
    BY <1>1 DEF Begin
  <2>4. CASE routes' = routes
    BY <2>2, <2>3, <2>4 DEF Began, TypeOK
  <2>5. CASE routes' = [routes EXCEPT ![s] = c]
    BY <2>2, <2>3, <2>5 DEF Began, TypeOK
  <2> QED BY <2>2, <2>4, <2>5 DEF Began
<1>2. ASSUME NEW c \in Calls, PlainStep(c) PROVE Owned'
  BY <1>2, PlainEffect, PlainMoves
<1>3. ASSUME NEW c \in Calls, EndStep(c) PROVE Owned'
  <2>1. (Ends(c) \/ GoesOn(c) \/ Closes(c)) /\ UNCHANGED <<kind, sid>>
    BY <1>3, EndEffect DEF EndStep
  <2>2. CASE Ends(c) BY <2>1, <2>2 DEF Ends, TypeOK
  <2>3. CASE GoesOn(c) BY <2>1, <2>3 DEF GoesOn, TypeOK
  <2>4. CASE Closes(c)
    <3>1. \A d \in Calls \ {c} : pc'[d] = pc[d] BY <2>4 DEF Closes, TypeOK
    <3>2. routes' = routes /\ \A s \in StreamIds : routes[s] # c BY <2>4 DEF Closes
    <3> QED BY <2>1, <3>1, <3>2
  <2> QED BY <2>1, <2>2, <2>3, <2>4
<1>4. ASSUME NEW c \in Calls, AcloseFails(c) PROVE Owned'
  BY <1>4, FailEffect DEF AcloseFails, Errors
<1>5. CASE ReaderEnds
  BY <1>5, FailEffect DEF ReaderEnds, Errors
<1>6. CASE ReaderFrame
  BY <1>6, FailEffect DEF ReaderFrame, Errors
<1>7. CASE Pong \/ ServerStep \/ UNCHANGED vars
  BY <1>7, QuietEffect
<1> QED BY <1>1, <1>2, <1>3, <1>4, <1>5, <1>6, <1>7, Steps

(* Where a call can be depends on its kind.                                *)
LEMMA StagesStep ==
  ASSUME TypeOK, Stages, Ids, Owned, [Next]_vars
  PROVE  Stages'
<1> USE AioCallsAssumption DEF callVars, tableVars, Stages, Live, OpStream, OpKinds, Active,
        HANDSHAKE_STREAM_ID
<1>1. ASSUME NEW c \in Calls, Begin(c) PROVE Stages'
  <2>1. PICK k \in AllKinds \ {"aclose"} : \E s \in StreamIds : Began(c, k, s)
    BY <1>1, BeginEffect
  <2>2. PICK s \in StreamIds : Began(c, k, s)
    BY <2>1
  <2>3. nextId # 0 /\ UNCHANGED <<got, queue>>
    BY <1>1 DEF Begin, TypeOK
  <2> QED BY <2>2, <2>3 DEF Began, TypeOK
<1>2. ASSUME NEW c \in Calls, PlainStep(c) PROVE Stages'
  <2>1. \A d \in Calls \ {c} : pc'[d] = pc[d] /\ kind'[d] = kind[d]
    BY <1>2, PlainEffect
  <2>2. UNCHANGED <<sid, got, queue>>
    BY <1>2, PlainEffect
  <2>3. kind[c] \in AllKinds
    BY DEF TypeOK
  <2> QED BY <1>2, <2>1, <2>2, <2>3, PlainMoves DEF AllKinds
<1>3. ASSUME NEW c \in Calls, EndStep(c) PROVE Stages'
  <2>1. (Ends(c) \/ GoesOn(c) \/ Closes(c)) /\ UNCHANGED <<kind, sid>>
    BY <1>3, EndEffect DEF EndStep
  <2>2. \A d \in Calls \ {c} : pc'[d] = pc[d] /\ got'[d] = got[d] /\ queue'[d] = queue[d]
    BY <1>3, EndData
  <2>3. CASE Ends(c) BY <2>1, <2>2, <2>3 DEF Ends, TypeOK
  <2>4. CASE GoesOn(c) BY <2>1, <2>2, <2>4 DEF GoesOn, TypeOK
  <2>5. CASE Closes(c) BY <2>1, <2>2, <2>5 DEF Closes, TypeOK
  <2> QED BY <2>1, <2>3, <2>4, <2>5
<1>4. ASSUME NEW c \in Calls, AcloseFails(c) PROVE Stages'
  <2>1. pc[c] = "close" /\ pc' = [pc EXCEPT ![c] = "stop"] /\ UNCHANGED <<kind, sid, got>>
    BY <1>4 DEF AcloseFails, Goto
  <2>2. \A d \in Calls : pc[d] = "idle" => queue'[d] = queue[d]
    BY <1>4, FailEffect DEF AcloseFails, Errors, Owned
  <2>3. pc'[c] = "stop" /\ \A d \in Calls \ {c} : pc'[d] = pc[d]
    BY <2>1 DEF TypeOK
  <2> QED BY <2>1, <2>2, <2>3
<1>5. CASE ReaderEnds
  BY <1>5, FailEffect DEF ReaderEnds, Errors, Owned
<1>6. CASE ReaderFrame
  <2>1. CASE Head(s2c).op \in {"BAD", "SERVER_PING"}
    BY <1>6, <2>1, FailEffect DEF ReaderFrame, Errors, Owned
  <2>2. CASE Head(s2c).op \notin {"BAD", "SERVER_PING"}
    <3>1. Head(s2c).sid \in StreamIds
      BY <1>6, Popped, FrameFields DEF ReaderFrame, TypeOK
    <3> QED BY <1>6, <2>2, <3>1, PutEffect DEF Owned
  <2> QED BY <2>1, <2>2
<1>7. CASE Pong \/ ServerStep \/ UNCHANGED vars
  BY <1>7, QuietEffect
<1> QED BY <1>1, <1>2, <1>3, <1>4, <1>5, <1>6, <1>7, Steps

(* While a call has not begun, the id about to be issued is above all ids  *)
(* in use, and the counter does not wrap.                                  *)
LEMMA IdsStep ==
  ASSUME TypeOK, Stages, Ids, [Next]_vars
  PROVE  Ids'
<1>0. SUFFICES ASSUME NEW c \in Calls, Begin(c) PROVE Ids'
  <2>1. ASSUME UNCHANGED <<sid, nextId>>, \A d \in Calls : pc'[d] = "idle" => pc[d] = "idle" PROVE Ids'
    <3>1. Issued' = Issued BY <2>1 DEF Issued
    <3> QED BY <2>1, <3>1 DEF Ids
  <2>2. ASSUME NEW c \in Calls, PlainStep(c) PROVE Ids'
    BY <2>1, <2>2, PlainEffect, PlainMoves
  <2>3. ASSUME NEW c \in Calls, EndStep(c) PROVE Ids'
    BY <2>1, <2>3, EndEffect DEF EndStep, Ends, GoesOn, Closes, TypeOK
  <2>4. ASSUME NEW c \in Calls, AcloseFails(c) PROVE Ids'
    BY <2>1, <2>4 DEF AcloseFails, Goto, TypeOK
  <2>5. CASE ReaderFrame \/ ReaderEnds
    BY <2>1, <2>5 DEF ReaderFrame, ReaderEnds, callVars
  <2>6. CASE Pong \/ ServerStep \/ UNCHANGED vars
    BY <2>1, <2>6, QuietEffect DEF callVars
  <2> QED BY <2>2, <2>3, <2>4, <2>5, <2>6, <1>0, Steps
<1>1. PICK k \in AllKinds \ {"aclose"} : \E s \in StreamIds : Began(c, k, s)
  BY <1>0, BeginEffect
<1>2. PICK s \in StreamIds : Began(c, k, s)
  BY <1>1
<1>3. pc[c] = "idle" /\ sid[c] = HANDSHAKE_STREAM_ID
  BY <1>0 DEF Begin, Stages
<1>4. \A d \in Calls : pc'[d] = "idle" => pc[d] = "idle"
  BY <1>2 DEF Began, TypeOK
<1>5. CASE k = "ping"
  <2>1. sid' = sid /\ nextId' = nextId
    BY <1>2, <1>3, <1>5 DEF Began, TypeOK, OpKinds
  <2>2. Issued' = Issued BY <2>1 DEF Issued
  <2> QED BY <1>4, <2>1, <2>2 DEF Ids
<1>6. CASE k # "ping"
  <2>1. s = nextId /\ nextId' = Advance(nextId) /\ sid' = [sid EXCEPT ![c] = nextId]
    BY <1>2, <1>6 DEF Began
  <2>2. nextId \in Nat /\ nextId # 0 /\ sid \in [Calls -> Nat]
    BY AioIdsAssumption DEF TypeOK, StreamIds
  <2>3. (\A d \in Calls : sid[d] < nextId) /\ nextId <= 2 * Cardinality(Issued) + 1
    BY <1>3 DEF Ids
  <2>4. ASSUME NEW d \in Calls, NEW e \in Calls, sid'[d] = sid'[e], sid'[d] # HANDSHAKE_STREAM_ID
        PROVE  d = e
    BY <2>1, <2>2, <2>3, <2>4 DEF Ids
  <2>5. ASSUME NEW d \in Calls, pc'[d] = "idle"
        PROVE  /\ \A e \in Calls : sid'[e] < nextId'
               /\ nextId' <= 2 * Cardinality(Issued') + 1
    <3>1. Issued' = Issued \cup {c} /\ c \notin Issued
      BY <1>3, <2>1, <2>2 DEF Issued, HANDSHAKE_STREAM_ID
    <3>2. IsFiniteSet(Calls) /\ Issued \subseteq Calls
      BY AioIdsAssumption DEF Issued
    <3>3. IsFiniteSet(Issued) /\ Cardinality(Issued) \in Nat
          /\ Cardinality(Issued') = Cardinality(Issued) + 1
      BY <3>1, <3>2, FS_Subset, FS_CardinalityType, FS_AddElement
    <3>4. d # c /\ d \notin Issued'
      BY <1>2, <1>3, <1>4, <2>1, <2>5 DEF Began, TypeOK, Stages, Issued
    <3>5. Cardinality(Issued' \cup {d}) = Cardinality(Issued') + 1
      <4>1. IsFiniteSet(Issued') BY <3>1, <3>3, FS_AddElement
      <4> QED BY <3>4, <4>1, FS_AddElement
    <3>6. Cardinality(Issued') + 1 <= Cardinality(Calls) /\ Cardinality(Calls) \in Nat
      <4>1. Issued' \cup {d} \subseteq Calls BY <3>1, <3>2
      <4> QED BY <3>2, <3>5, <4>1, FS_Subset, FS_CardinalityType
    <3>7. nextId + 2 <= MaxStreamId
      BY <2>2, <2>3, <3>3, <3>6, AioIdsAssumption
    <3>8. nextId' = nextId + 2
      BY <2>1, <3>7 DEF Advance
    <3> QED BY <2>1, <2>2, <2>3, <3>3, <3>8
  <2> QED BY <2>4, <2>5 DEF Ids
<1> QED BY <1>5, <1>6

(* Nobody takes the route of a running call: ids are not shared.           *)
LEMMA RegisteredStep ==
  ASSUME TypeOK, Stages, Ids, Registered, [Next]_vars
  PROVE  Registered'
<1> USE AioCallsAssumption DEF callVars, tableVars, Registered, Live, OpStream, Active, OpKinds
<1>1. ASSUME NEW c \in Calls, Begin(c) PROVE Registered'
  <2>1. PICK k \in AllKinds \ {"aclose"} : \E s \in StreamIds : Began(c, k, s)
    BY <1>1, BeginEffect
  <2>2. PICK s \in StreamIds : Began(c, k, s)
    BY <2>1
  <2>3. pc[c] = "idle" /\ closedError' = closedError
    BY <1>1 DEF Begin
  <2>4. \A d \in Calls : Live(d) => sid[d] # s
    BY <2>2, <2>3 DEF Began, Ids, Stages, TypeOK
  <2> QED BY <2>2, <2>3, <2>4 DEF Began, TypeOK
<1>2. ASSUME NEW c \in Calls, PlainStep(c) PROVE Registered'
  <2>1. \A d \in Calls \ {c} : pc'[d] = pc[d] /\ kind'[d] = kind[d]
    BY <1>2, PlainEffect
  <2>2. UNCHANGED <<sid, routes, closedError>>
    BY <1>2, PlainEffect
  <2> QED BY <1>2, <2>1, <2>2, PlainMoves DEF Stages
<1>3. ASSUME NEW c \in Calls, EndStep(c) PROVE Registered'
  <2>1. (Ends(c) \/ GoesOn(c) \/ Closes(c)) /\ UNCHANGED <<kind, sid, closedError>>
    BY <1>3, EndEffect DEF EndStep
  <2>2. CASE Ends(c)
    <3>1. \A d \in Calls \ {c} : Live(d) => sid[d] # sid[c]
      BY DEF Stages, Ids
    <3> QED BY <2>1, <2>2, <3>1 DEF Ends, TypeOK
  <2>3. CASE GoesOn(c) BY <2>1, <2>3 DEF GoesOn, TypeOK
  <2>4. CASE Closes(c) BY <2>1, <2>4 DEF Closes, TypeOK
  <2> QED BY <2>1, <2>2, <2>3, <2>4
<1>4. ASSUME NEW c \in Calls, AcloseFails(c) PROVE Registered'
  BY <1>4, FailEffect DEF AcloseFails, Errors
<1>5. CASE ReaderEnds
  BY <1>5, FailEffect DEF ReaderEnds, Errors
<1>6. CASE ReaderFrame
  BY <1>6, FailEffect DEF ReaderFrame, Errors
<1>7. CASE Pong \/ ServerStep \/ UNCHANGED vars
  BY <1>7, QuietEffect
<1> QED BY <1>1, <1>2, <1>3, <1>4, <1>5, <1>6, <1>7, Steps

(* aclose: the reader is dead, or about to be told, before aclose goes on. *)
LEMMA AclosesStep ==
  ASSUME TypeOK, Stages, Acloses, AcloseEndsReader, [Next]_vars
  PROVE  Acloses' /\ AcloseEndsReader'
<1> USE DEF callVars, tableVars, readerVars, Acloses, AcloseEndsReader
<1>1. ASSUME NEW c \in Calls, Begin(c) PROVE Acloses' /\ AcloseEndsReader'
  BY <1>1 DEF Begin, Goto, TypeOK, others
<1>2. ASSUME NEW c \in Calls, PlainStep(c) PROVE Acloses' /\ AcloseEndsReader'
  <2>1. \A d \in Calls \ {c} : pc'[d] = pc[d] /\ kind'[d] = kind[d]
    BY <1>2, PlainEffect
  <2>2. UNCHANGED <<closedError, rpc, cancelled>>
    BY <1>2, PlainEffect
  <2> QED BY <1>2, <2>1, <2>2, PlainMoves DEF Stages
<1>3. ASSUME NEW c \in Calls, EndStep(c) PROVE Acloses' /\ AcloseEndsReader'
  <2>1. (Ends(c) \/ GoesOn(c) \/ Closes(c)) /\ UNCHANGED <<kind, closedError, rpc, cancelled>>
    BY <1>3, EndEffect DEF EndStep, others
  <2>2. CASE Ends(c)
    <3>1. kind[c] # "aclose" BY <1>3, <2>2 DEF EndStep, Ends, Active, Stages, WriteTooLarge, DrainRaises,
             WriteRaises, TakeFrame, Timeout, Cancel, NextItem, SubClose, Goto, TypeOK
    <3> QED BY <2>1, <2>2, <3>1 DEF Ends, TypeOK
  <2>3. CASE GoesOn(c) BY <2>1, <2>3 DEF GoesOn, TypeOK
  <2>4. CASE Closes(c) BY <2>1, <2>4 DEF Closes, TypeOK
  <2> QED BY <2>1, <2>2, <2>3, <2>4
<1>4. ASSUME NEW c \in Calls, AcloseFails(c) PROVE Acloses' /\ AcloseEndsReader'
  BY <1>4, FailEffect DEF AcloseFails, Goto, TypeOK, Errors
<1>5. CASE ReaderEnds
  BY <1>5, FailEffect DEF ReaderEnds, Errors
<1>6. CASE ReaderFrame
  BY <1>6, FailEffect DEF ReaderFrame, Errors
<1>7. CASE Pong
  BY <1>7 DEF Pong, PongWrite, PongDone, ReaderCancelled
<1>8. CASE ServerStep \/ UNCHANGED vars
  BY <1>8 DEF ServerStep, ServerRecv, ServerPing, ServerCorrupts, PeerDrops, ServerSend, vars
<1> QED BY <1>1, <1>2, <1>3, <1>4, <1>5, <1>6, <1>7, <1>8, Steps

-----------------------------------------------------------------------------
(* Data: requests, answers, queues.                                        *)

(* A send appends a request to the wire, or is lost on a dead one.         *)
LEMMA TransmitEffect ==
  ASSUME TypeOK, NEW from \in Calls \cup {Reader}, Transmit(from)
  PROVE  \/ c2s' = c2s
         \/ /\ DOMAIN c2s' = 1..(Len(c2s) + 1) /\ DOMAIN c2s = 1..Len(c2s) /\ Len(c2s) \in Nat
            /\ c2s'[Len(c2s) + 1] = from /\ \A i \in 1..Len(c2s) : c2s'[i] = c2s[i]
BY Appended DEF TypeOK, Transmit

(* A request is written once, and answered only after the server read it.  *)
LEMMA WrittenStep ==
  ASSUME TypeOK, Written, [Next]_vars
  PROVE  Written'
<1> USE AioCallsAssumption DEF callVars, tableVars, serverVars, connVars, readerVars
<1>0. ASSUME UNCHANGED <<c2s, srv, sent>>,
             \A d \in Calls : pc'[d] \in {"idle", "lock"} => pc[d] \in {"idle", "lock"}
      PROVE  Written'
  BY <1>0 DEF Written
<1>1. ASSUME NEW c \in Calls, Begin(c) PROVE Written'
  <2>1. UNCHANGED <<c2s, srv, sent>> /\ pc[c] = "idle"
    BY <1>1 DEF Begin, others
  <2>2. \A d \in Calls \ {c} : pc'[d] = pc[d]
    BY <1>1 DEF Begin, Goto, TypeOK
  <2> QED BY <1>0, <2>1, <2>2
<1>2. ASSUME NEW c \in Calls, PlainStep(c) PROVE Written'
  <2>1. CASE WriteFrame(c)
    <3>1. /\ pc[c] = "lock" /\ pc' = [pc EXCEPT ![c] = "drain"] /\ Transmit(c) /\ UNCHANGED <<srv, sent>>
      BY <2>1 DEF WriteFrame, Goto, others
    <3>2. \A d \in Calls : pc'[d] = IF d = c THEN "drain" ELSE pc[d]
      BY <3>1 DEF TypeOK
    <3>3. CASE c2s' = c2s
      BY <3>1, <3>2, <3>3, <1>0
    <3>4. CASE /\ DOMAIN c2s' = 1..(Len(c2s) + 1) /\ DOMAIN c2s = 1..Len(c2s) /\ Len(c2s) \in Nat
               /\ c2s'[Len(c2s) + 1] = c /\ \A i \in 1..Len(c2s) : c2s'[i] = c2s[i]
      <4>1. srv[c] = "unseen" /\ \A i \in 1..Len(c2s) : c2s[i] # c
        BY <3>1, <3>4 DEF Written
      <4>2. \A d \in Calls : pc'[d] \in {"idle", "lock"} =>
              srv[d] = "unseen" /\ \A i \in 1..(Len(c2s) + 1) : c2s'[i] # d
        BY <3>2, <3>4 DEF Written
      <4>3. \A i \in 1..(Len(c2s) + 1) : c2s'[i] \in Calls => srv[c2s'[i]] = "unseen"
        BY <3>4, <4>1 DEF Written
      <4>4. \A i, j \in 1..(Len(c2s) + 1) : c2s'[i] = c2s'[j] /\ c2s'[i] \in Calls => i = j
        BY <3>4, <4>1 DEF Written
      <4> QED BY <3>1, <3>4, <4>2, <4>3, <4>4 DEF Written
    <3> QED BY <3>1, <3>3, <3>4, TransmitEffect
  <2>2. CASE ~WriteFrame(c)
    <3>1. UNCHANGED <<c2s, srv, sent>>
      BY <1>2, <2>2 DEF PlainStep, WrongLoop, BeginAclose, Drained, NextStart, AcloseJoined, AcloseFlushed,
                        others
    <3>2. pc'[c] \in {"idle", "lock"} => pc[c] \in {"idle", "lock"}
      BY <1>2, <2>2 DEF PlainStep, WrongLoop, BeginAclose, Drained, NextStart, AcloseJoined, AcloseFlushed,
                        Goto, TypeOK
    <3> QED BY <1>0, <1>2, <3>1, <3>2, PlainEffect
  <2> QED BY <2>1, <2>2
<1>3. ASSUME NEW c \in Calls, EndStep(c) PROVE Written'
  <2>1. UNCHANGED <<c2s, srv, sent>>
    BY <1>3 DEF EndStep, WriteTooLarge, DrainRaises, TakeFrame, Timeout, Cancel, NextItem, SubClose, others
  <2>2. pc'[c] \in {"idle", "lock"} => pc[c] \in {"idle", "lock"}
    BY <1>3 DEF EndStep, WriteTooLarge, DrainRaises, TakeFrame, Timeout, Cancel, NextItem, SubClose,
                WriteRaises, Leave, Goto, TypeOK
  <2> QED BY <1>0, <1>3, <2>1, <2>2, EndData
<1>4. ASSUME NEW c \in Calls, AcloseFails(c) PROVE Written'
  BY <1>0, <1>4 DEF AcloseFails, Goto, TypeOK
<1>5. CASE ReaderFrame \/ ReaderEnds \/ UNCHANGED vars
  BY <1>0, <1>5 DEF ReaderFrame, ReaderEnds, vars
<1>6. CASE Pong
  <2>1. CASE PongWrite
    <3>1. Transmit(Reader) /\ UNCHANGED <<pc, srv, sent>>
      BY <2>1 DEF PongWrite
    <3>2. CASE c2s' = c2s
      BY <3>1, <3>2, <1>0
    <3>3. CASE /\ DOMAIN c2s' = 1..(Len(c2s) + 1) /\ DOMAIN c2s = 1..Len(c2s) /\ Len(c2s) \in Nat
               /\ c2s'[Len(c2s) + 1] = Reader /\ \A i \in 1..Len(c2s) : c2s'[i] = c2s[i]
      BY <3>1, <3>3 DEF Written
    <3> QED BY <3>1, <3>2, <3>3, TransmitEffect
  <2>2. CASE PongDone \/ ReaderCancelled
    BY <1>0, <2>2 DEF PongDone, ReaderCancelled
  <2> QED BY <1>6, <2>1, <2>2 DEF Pong
<1>7. CASE ServerRecv
  <2>1. /\ c2s # <<>> /\ c2s' = Tail(c2s) /\ UNCHANGED <<pc, sent>>
        /\ srv' = IF Head(c2s) \in Calls /\ kind[Head(c2s)] # "aclose"
                    THEN [srv EXCEPT ![Head(c2s)] = "open"] ELSE srv
    BY <1>7 DEF ServerRecv
  <2>2. /\ Head(c2s) = c2s[1] /\ DOMAIN c2s' = 1..(Len(c2s) - 1) /\ DOMAIN c2s = 1..Len(c2s)
        /\ Len(c2s) \in Nat /\ Len(c2s) >= 1 /\ \A i \in 1..(Len(c2s) - 1) : c2s'[i] = c2s[i + 1]
    BY <2>1, Popped DEF TypeOK
  <2>3. \A d \in Calls : d # c2s[1] => srv'[d] = srv[d]
    BY <2>1, <2>2 DEF TypeOK
  <2>4. \A d \in Calls : srv'[d] = "unseen" => srv[d] = "unseen"
    BY <2>1, <2>2 DEF TypeOK
  <2>5. \A i \in 1..(Len(c2s) - 1) : c2s'[i] \in Calls => c2s'[i] # c2s[1]
    BY <2>2 DEF Written
  <2>6. \A d \in Calls : pc'[d] \in {"idle", "lock"} =>
          srv'[d] = "unseen" /\ \A i \in 1..(Len(c2s) - 1) : c2s'[i] # d
    BY <2>1, <2>2, <2>3 DEF Written
  <2>7. \A i \in 1..(Len(c2s) - 1) : c2s'[i] \in Calls => srv'[c2s'[i]] = "unseen"
    BY <2>2, <2>3, <2>5 DEF Written
  <2>8. \A i, j \in 1..(Len(c2s) - 1) : c2s'[i] = c2s'[j] /\ c2s'[i] \in Calls => i = j
    BY <2>2 DEF Written
  <2> QED BY <2>1, <2>2, <2>4, <2>6, <2>7, <2>8 DEF Written
<1>8. ASSUME NEW c \in Calls, ServerSend(c) PROVE Written'
  <2>1. /\ srv[c] = "open" /\ UNCHANGED <<pc, c2s>>
        /\ \E eos \in BOOLEAN : srv' = [srv EXCEPT ![c] = IF eos THEN "finished" ELSE "open"]
        /\ sent' = [sent EXCEPT ![c] = @ + 1]
    BY <1>8 DEF ServerSend
  <2>2. \A d \in Calls : (d # c => srv'[d] = srv[d] /\ sent'[d] = sent[d]) /\ srv'[c] # "unseen"
    BY <2>1 DEF TypeOK
  <2> QED BY <2>1, <2>2 DEF Written
<1>9. CASE ServerPing \/ ServerCorrupts
  BY <1>0, <1>9 DEF ServerPing, ServerCorrupts
<1>10. CASE PeerDrops
  BY <1>10 DEF PeerDrops, Written
<1> QED BY <1>1, <1>2, <1>3, <1>4, <1>5, <1>6, <1>7, <1>8, <1>9, <1>10, Steps DEF ServerStep

(* The answers of a call stay what they are while its id, its number of    *)
(* answers and its end do; a call with no answer may change all of them.   *)
Steady(c) == sent'[c] = sent[c] /\ (sent[c] = 0 \/ (srv'[c] = srv[c] /\ sid'[c] = sid[c]))

(* The frame f, as it is now, is part of the answer to c after the step.   *)
PartNext(f, c) ==
  /\ f.op \in Answering /\ f.of = c
  /\ f.n >= 1 /\ f.n <= sent'[c]
  /\ f.eos => srv'[c] = "finished" /\ f.n = sent'[c]

(* Parts of an answer remain parts of it.                                  *)
LEMMA PartKept ==
  ASSUME TypeOK, NEW c \in Calls, Steady(c), NEW f \in Frame, Part(f, c)
  PROVE  PartNext(f, c) /\ sid'[c] = sid[c]
BY FrameFields DEF Part, PartNext, Steady, TypeOK

(* What is on its way, after a step that only takes from it.               *)
LEMMA AnswersKept ==
  ASSUME TypeOK, Answers, \A c \in Calls : Steady(c), s2c' = s2c \/ (s2c # <<>> /\ s2c' = Tail(s2c))
  PROVE  Answers'
<1>1. /\ DOMAIN s2c = 1..Len(s2c) /\ Len(s2c) \in Nat /\ \A i \in DOMAIN s2c : s2c[i] \in Frame
  BY LenProperties, ElementOfSeq DEF TypeOK
<1>2. \A i \in DOMAIN s2c :
       \/ s2c[i].op \in {"BAD", "SERVER_PING"} /\ s2c[i].of = NoCall
       \/ s2c[i].of \in Calls /\ PartNext(s2c[i], s2c[i].of) /\ s2c[i].sid = sid'[s2c[i].of]
  <2> SUFFICES ASSUME NEW i \in DOMAIN s2c, s2c[i].of \in Calls, Part(s2c[i], s2c[i].of),
                      s2c[i].sid = sid[s2c[i].of]
               PROVE  PartNext(s2c[i], s2c[i].of) /\ s2c[i].sid = sid'[s2c[i].of]
    BY DEF Answers
  <2> QED BY <1>1, PartKept
<1>3. CASE s2c' = s2c
  BY <1>2, <1>3 DEF Answers, Part, PartNext
<1>4. CASE s2c # <<>> /\ s2c' = Tail(s2c)
  <2>1. DOMAIN s2c' = 1..(Len(s2c) - 1) /\ \A i \in 1..(Len(s2c) - 1) : s2c'[i] = s2c[i + 1]
    BY <1>4, Popped DEF TypeOK
  <2>2. \A i \in 1..(Len(s2c) - 1) : i + 1 \in DOMAIN s2c
    BY <1>1
  <2>3. \A i \in DOMAIN s2c' :
         \/ s2c'[i].op \in {"BAD", "SERVER_PING"} /\ s2c'[i].of = NoCall
         \/ s2c'[i].of \in Calls /\ PartNext(s2c[i + 1], s2c'[i].of) /\ s2c'[i].sid = sid'[s2c'[i].of]
    BY <1>2, <2>1, <2>2
  <2>4. \A i, j \in DOMAIN s2c' :
       i < j /\ s2c'[i].of = s2c'[j].of /\ s2c'[i].of \in Calls => s2c'[i].n < s2c'[j].n
    <3> SUFFICES ASSUME NEW i \in 1..(Len(s2c) - 1), NEW j \in 1..(Len(s2c) - 1), i < j,
                        s2c[i + 1].of = s2c[j + 1].of, s2c[i + 1].of \in Calls
                 PROVE  s2c[i + 1].n < s2c[j + 1].n
      BY <2>1
    <3>1. i + 1 \in DOMAIN s2c /\ j + 1 \in DOMAIN s2c /\ i + 1 < j + 1
      BY <2>2
    <3> QED BY <3>1 DEF Answers
  <2> QED BY <2>1, <2>3, <2>4 DEF Answers, Part, PartNext
<1> QED BY <1>3, <1>4

(* What is on its way, after a control frame or an answer is sent.         *)
LEMMA AnswersGrow ==
  ASSUME TypeOK, Answers, NEW f \in Frame, s2c' = Append(s2c, f),
         \/ f.op \in {"BAD", "SERVER_PING"} /\ f.of = NoCall
         \/ f.of \in Calls /\ PartNext(f, f.of) /\ f.sid = sid'[f.of],
         \A i \in DOMAIN s2c : s2c[i].of \in Calls =>
           /\ PartNext(s2c[i], s2c[i].of) /\ s2c[i].sid = sid'[s2c[i].of]
           /\ s2c[i].of = f.of => s2c[i].n < f.n
  PROVE  Answers'
<1>1. /\ DOMAIN s2c = 1..Len(s2c) /\ Len(s2c) \in Nat /\ DOMAIN s2c' = 1..(Len(s2c) + 1)
      /\ s2c'[Len(s2c) + 1] = f /\ \A i \in 1..Len(s2c) : s2c'[i] = s2c[i]
  BY Appended DEF TypeOK
<1>2. ASSUME NEW i \in DOMAIN s2c' PROVE
         \/ s2c'[i].op \in {"BAD", "SERVER_PING"} /\ s2c'[i].of = NoCall
         \/ s2c'[i].of \in Calls /\ PartNext(s2c[i], s2c[i].of) /\ s2c'[i].sid = sid'[s2c'[i].of] /\ s2c'[i] = s2c[i]
         \/ s2c'[i].of \in Calls /\ PartNext(f, f.of) /\ s2c'[i].sid = sid'[s2c'[i].of] /\ s2c'[i] = f
  BY <1>1 DEF Answers
<1>3. \A i, j \in DOMAIN s2c' :
       i < j /\ s2c'[i].of = s2c'[j].of /\ s2c'[i].of \in Calls => s2c'[i].n < s2c'[j].n
  BY <1>1 DEF Answers
<1> QED BY <1>2, <1>3 DEF Answers, Part, PartNext

(* A call is steady in every step but its own answer.                      *)
LEMMA SteadyStep ==
  ASSUME TypeOK, Stages, Written, [Next]_vars, NEW d \in Calls, ~ServerSend(d)
  PROVE  Steady(d)
<1> USE DEF callVars, serverVars, others
<1>1. ASSUME NEW c \in Calls, Begin(c) PROVE Steady(d)
  <2>1. UNCHANGED <<sent, srv>> /\ pc[c] = "idle"
    BY <1>1 DEF Begin
  <2>2. sent[c] = 0
    BY <2>1 DEF Written
  <2>3. d # c => sid'[d] = sid[d]
    BY <1>1 DEF Begin, TypeOK
  <2> QED BY <2>1, <2>2, <2>3 DEF Steady
<1>2. ASSUME NEW c \in Calls, PlainStep(c) PROVE Steady(d)
  BY <1>2, PlainEffect DEF Steady
<1>3. ASSUME NEW c \in Calls, EndStep(c) PROVE Steady(d)
  BY <1>3, EndEffect DEF EndStep, Steady
<1>4. ASSUME NEW c \in Calls, AcloseFails(c) PROVE Steady(d)
  BY <1>4 DEF AcloseFails, Steady
<1>5. CASE ReaderFrame \/ ReaderEnds \/ UNCHANGED vars \/ Pong \/ ServerPing \/ ServerCorrupts \/ PeerDrops
  BY <1>5 DEF ReaderFrame, ReaderEnds, Pong, PongWrite, PongDone, ReaderCancelled, ServerPing,
              ServerCorrupts, PeerDrops, vars, Steady
<1>6. CASE ServerRecv
  <2>1. /\ UNCHANGED <<sent, sid>> /\ c2s # <<>>
        /\ srv' = srv \/ (Head(c2s) \in Calls /\ srv' = [srv EXCEPT ![Head(c2s)] = "open"])
    BY <1>6 DEF ServerRecv
  <2>2. Head(c2s) = c2s[1] /\ 1 \in DOMAIN c2s
    BY <2>1, Popped DEF TypeOK
  <2>3. Head(c2s) \in Calls => sent[Head(c2s)] = 0
    BY <2>2 DEF Written
  <2> QED BY <2>1, <2>3 DEF Steady, TypeOK
<1>7. ASSUME NEW c \in Calls, ServerSend(c) PROVE Steady(d)
  BY <1>7 DEF ServerSend, Steady, TypeOK
<1> QED BY <1>1, <1>2, <1>3, <1>4, <1>5, <1>6, <1>7, Steps DEF ServerStep

(* What an answer of the server adds.                                      *)
Sends(c, f) ==
  /\ s2c' = Append(s2c, f) /\ f.of = c /\ f.sid = sid[c] /\ f.n = sent[c] + 1 /\ f.op \in Answering
  /\ srv[c] = "open" /\ srv'[c] = (IF f.eos THEN "finished" ELSE "open") /\ sent'[c] = sent[c] + 1
  /\ UNCHANGED <<callVars, tableVars>>

(* ServerSend sends one frame.                                             *)
LEMMA SendEffect ==
  ASSUME TypeOK, NEW c \in Calls, ServerSend(c)
  PROVE  \E f \in Frame : Sends(c, f) /\ PartNext(f, c)
<1>1. PICK op \in Answering : \E eos \in BOOLEAN :
        /\ s2c' = Append(s2c, [sid |-> sid[c], op |-> op, eos |-> eos, of |-> c, n |-> sent[c] + 1])
        /\ srv' = [srv EXCEPT ![c] = IF eos THEN "finished" ELSE "open"]
  BY DEF ServerSend, Answering
<1>2. PICK eos \in BOOLEAN :
        /\ s2c' = Append(s2c, [sid |-> sid[c], op |-> op, eos |-> eos, of |-> c, n |-> sent[c] + 1])
        /\ srv' = [srv EXCEPT ![c] = IF eos THEN "finished" ELSE "open"]
  BY <1>1
<1> DEFINE f == [sid |-> sid[c], op |-> op, eos |-> eos, of |-> c, n |-> sent[c] + 1]
<1>3. sid[c] \in StreamIds /\ sent[c] \in Nat
  BY DEF TypeOK
<1>4. f \in Frame
  BY <1>3, AnswerFrame
<1>5. srv'[c] = (IF eos THEN "finished" ELSE "open") /\ sent'[c] = sent[c] + 1 /\ srv[c] = "open"
      /\ UNCHANGED <<callVars, tableVars>>
  BY <1>2 DEF ServerSend, TypeOK
<1>6. Sends(c, f)
  BY <1>2, <1>5 DEF Sends
<1>7. PartNext(f, c)
  BY <1>3, <1>5 DEF PartNext
<1> QED BY <1>4, <1>6, <1>7

(* The parts of an answer that is not over stay parts when it grows.       *)
LEMMA PartGrows ==
  ASSUME TypeOK, NEW c \in Calls, NEW g \in Frame, Sends(c, g), NEW f \in Frame, Part(f, c)
  PROVE  PartNext(f, c) /\ f.n < g.n
BY FrameFields DEF Sends, Part, PartNext, TypeOK

(* What is on its way to the reader stays in order.                        *)
LEMMA AnswersStep ==
  ASSUME TypeOK, Stages, Written, Answers, [Next]_vars
  PROVE  Answers'
<1>1. ASSUME NEW c \in Calls, ServerSend(c) PROVE Answers'
  <2>1. PICK g \in Frame : Sends(c, g) /\ PartNext(g, c)
    BY <1>1, SendEffect
  <2>2. \A i \in DOMAIN s2c : s2c[i] \in Frame
    BY ElementOfSeq, LenProperties DEF TypeOK
  <2>3. sid' = sid /\ s2c' = Append(s2c, g) /\ g.of = c /\ g.sid = sid'[c]
    BY <2>1 DEF Sends, callVars
  <2>4. ASSUME NEW i \in DOMAIN s2c, s2c[i].of \in Calls
        PROVE  /\ PartNext(s2c[i], s2c[i].of) /\ s2c[i].sid = sid'[s2c[i].of]
               /\ s2c[i].of = g.of => s2c[i].n < g.n
    <3>1. Part(s2c[i], s2c[i].of) /\ s2c[i].sid = sid[s2c[i].of]
      BY <2>4, AioCallsAssumption DEF Answers
    <3>2. CASE s2c[i].of = c
      BY <2>1, <2>2, <2>3, <3>1, <3>2, PartGrows
    <3>3. CASE s2c[i].of # c
      <4>1. Steady(s2c[i].of)
        BY <1>1, <2>4, <3>3 DEF ServerSend, Steady, TypeOK, callVars
      <4> QED BY <2>2, <2>3, <2>4, <3>1, <3>3, <4>1, PartKept
    <3> QED BY <3>2, <3>3
  <2>5. PartNext(g, g.of)
    BY <2>1, <2>3 DEF PartNext
  <2> QED BY <2>3, <2>4, <2>5, AnswersGrow
<1>2. CASE ServerPing \/ ServerCorrupts
  <2>1. PICK op \in {"BAD", "SERVER_PING"} : s2c' = Append(s2c, Control(op))
    BY <1>2 DEF ServerPing, ServerCorrupts
  <2>2. Control(op) \in Frame /\ Control(op).op = op /\ Control(op).of = NoCall
    BY ControlFrame
  <2>3. UNCHANGED <<sid, srv, sent>>
    BY <1>2 DEF ServerPing, ServerCorrupts, callVars
  <2>4. ASSUME NEW i \in DOMAIN s2c, s2c[i].of \in Calls
        PROVE  /\ PartNext(s2c[i], s2c[i].of) /\ s2c[i].sid = sid'[s2c[i].of]
               /\ s2c[i].of = Control(op).of => s2c[i].n < Control(op).n
    BY <2>2, <2>3, <2>4, AioCallsAssumption DEF Answers, Part, PartNext
  <2> QED BY <2>1, <2>2, <2>4, AnswersGrow
<1>3. CASE ~(\E c \in Calls : ServerSend(c)) /\ ~ServerPing /\ ~ServerCorrupts
  <2>1. \A c \in Calls : Steady(c)
    BY <1>3, SteadyStep
  <2>2. s2c' = s2c \/ (s2c # <<>> /\ s2c' = Tail(s2c))
    <3> USE DEF serverVars, others
    <3>1. ASSUME NEW c \in Calls, Begin(c) PROVE s2c' = s2c
      BY <3>1 DEF Begin
    <3>2. ASSUME NEW c \in Calls, PlainStep(c) \/ EndStep(c) \/ AcloseFails(c) PROVE s2c' = s2c
      BY <3>2, PlainEffect, EndEffect DEF EndStep, AcloseFails
    <3>3. CASE ReaderFrame
      BY <3>3 DEF ReaderFrame
    <3>4. CASE ReaderEnds \/ Pong \/ ServerRecv \/ PeerDrops \/ UNCHANGED vars
      BY <3>4 DEF ReaderEnds, Pong, PongWrite, PongDone, ReaderCancelled, ServerRecv, PeerDrops, vars
    <3> QED BY <1>3, <3>1, <3>2, <3>3, <3>4, Steps DEF ServerStep
  <2> QED BY <2>1, <2>2, AnswersKept
<1> QED BY <1>1, <1>2, <1>3

-----------------------------------------------------------------------------
(* Taking from a queue: a part of the answer, which is collected; or the   *)
(* OSError sentinel, which next() raises.                                  *)
Takes(c) ==
  /\ queue[c] # <<>> /\ queue'[c] = Tail(queue[c]) /\ got'[c] = Append(got[c], Head(queue[c]))
  /\ Head(queue[c]).op \notin Errors
Raises(c) ==
  /\ queue[c] # <<>> /\ queue'[c] = Tail(queue[c]) /\ got'[c] = got[c]
  /\ Head(queue[c]).op = "OSError" /\ pc'[c] = "open"

(* A call that goes on has taken a frame, an OSError, or nothing.          *)
LEMMA GoesOnEffect ==
  ASSUME TypeOK, NEW c \in Calls, EndStep(c), GoesOn(c), pc'[c] # "done"
  PROVE  Takes(c) \/ Raises(c) \/ (queue'[c] = queue[c] /\ got'[c] = got[c])
<1> USE DEF Goto, Result, Leave, WriteRaises, TypeOK
<1>1. CASE WriteTooLarge(c) BY <1>1 DEF WriteTooLarge
<1>2. CASE DrainRaises(c) BY <1>2 DEF DrainRaises
<1>3. CASE TakeFrame(c) BY <1>3 DEF TakeFrame, Takes
<1>4. CASE Timeout(c) BY <1>4 DEF Timeout
<1>5. CASE Cancel(c) BY <1>5 DEF Cancel
<1>6. CASE NextItem(c) BY <1>6 DEF NextItem, Takes, Raises
<1>7. CASE SubClose(c) BY <1>7 DEF SubClose
<1> QED BY <1>1, <1>2, <1>3, <1>4, <1>5, <1>6, <1>7 DEF EndStep

(* A call that is live after a step of its own ending was live before.     *)
LEMMA LiveEnd ==
  ASSUME TypeOK, Stages, NEW c \in Calls, EndStep(c), NEW d \in Calls, Live(d)'
  PROVE  Live(d) /\ (d = c => GoesOn(c) /\ pc'[c] # "done")
<1>1. (Ends(c) \/ GoesOn(c) \/ Closes(c)) /\ UNCHANGED kind
  BY EndEffect DEF EndStep
<1>2. CASE d # c BY <1>1, <1>2, EndData DEF Live, OpStream
<1>3. CASE d = c
  <2>1. ~Ends(c) BY <1>3 DEF Ends, Live, Active, TypeOK
  <2>2. ~Closes(c) BY <1>3 DEF Closes, Live, Active, TypeOK
  <2> QED BY <1>1, <1>3, <2>1, <2>2 DEF GoesOn, Live, OpStream, Active
<1> QED BY <1>2, <1>3

(* A plain step makes no call live.                                        *)
LEMMA LivePlain ==
  ASSUME TypeOK, Stages, NEW c \in Calls, PlainStep(c), NEW d \in Calls, Live(d)'
  PROVE  Live(d)
<1>1. CASE d # c BY <1>1, PlainEffect DEF Live, OpStream
<1>2. CASE d = c BY <1>2, PlainMoves DEF Live, OpStream, Active, OpKinds
<1> QED BY <1>1, <1>2

(* A call that begins is live with nothing in its queue.                   *)
LEMMA LiveBegin ==
  ASSUME TypeOK, Stages, Written, NEW c \in Calls, Begin(c), NEW d \in Calls, Live(d)'
  PROVE  /\ UNCHANGED <<got, queue, closedError, sent, srv, s2c>>
         /\ d = c => got[c] = <<>> /\ queue[c] = <<>> /\ sent[c] = 0 /\ closedError = "none"
         /\ d # c => Live(d)
<1>1. UNCHANGED <<got, queue, closedError, sent, srv, s2c>> /\ pc[c] = "idle"
  BY DEF Begin, others, serverVars
<1>2. PICK k \in AllKinds \ {"aclose"} : \E s \in StreamIds : Began(c, k, s)
  BY BeginEffect
<1>3. PICK s \in StreamIds : Began(c, k, s)
  BY <1>2
<1>4. got[c] = <<>> /\ queue[c] = <<>> /\ sent[c] = 0
  BY <1>1 DEF Stages, Written
<1>5. d = c => closedError = "none"
  BY <1>3 DEF Began, TypeOK, Live, Active
<1>6. d # c => Live(d)
  BY <1>3 DEF Began, TypeOK, Live, OpStream
<1> QED BY <1>1, <1>4, <1>5, <1>6

(* The frame at the head of the wire, if it goes to a live call, is the    *)
(* next part of that call's answer.                                        *)
LEMMA NextPart ==
  ASSUME TypeOK, Stages, Ids, Owned, Registered, Answers, Pending, WokenOnFailure,
         s2c # <<>>, Head(s2c).op \notin {"BAD", "SERVER_PING"}, NEW c \in Calls, Live(c)
  PROVE  /\ routes[Head(s2c).sid] = c => /\ closedError = "none" /\ Part(Head(s2c), c)
                                         /\ Head(s2c).n = Reached(c) + 1
         /\ closedError = "none" /\ Head(s2c).of = c => routes[Head(s2c).sid] = c
<1> DEFINE f == Head(s2c)
<1>1. f = s2c[1] /\ f \in Frame /\ DOMAIN s2c = 1..Len(s2c) /\ Len(s2c) \in Nat /\ 1 \in DOMAIN s2c
  BY Popped DEF TypeOK
<1>2. f.of \in Calls /\ Part(f, f.of) /\ f.sid = sid[f.of] /\ f.sid \in StreamIds
  BY <1>1, FrameFields DEF Answers
<1>3. ASSUME routes[f.sid] = c PROVE f.of = c /\ closedError = "none"
  BY <1>2, <1>3, AioCallsAssumption DEF Owned, Stages, Ids, WokenOnFailure
<1>4. ASSUME f.of = c, closedError = "none" PROVE routes[f.sid] = c
  BY <1>2, <1>4 DEF Registered
<1>5. ASSUME f.of = c, closedError = "none" PROVE f.n = Reached(c) + 1
  <2>1. f.n > Reached(c) /\ f.n \in Nat /\ Reached(c) \in Nat /\ f.n \in 1..sent[c] /\ sent[c] \in Nat
    <3>1. f.n \in Nat /\ sent[c] \in Nat BY <1>1, FrameFields DEF TypeOK
    <3>2. Reached(c) \in Nat BY LenProperties DEF Reached, TypeOK
    <3> QED BY <1>1, <1>2, <1>5, <3>1, <3>2 DEF Pending, Part
  <2>2. Reached(c) + 1 \in 1..sent[c]
    BY <2>1
  <2>3. PICK i \in DOMAIN s2c : s2c[i].of = c /\ s2c[i].n = Reached(c) + 1
    BY <1>5, <2>1, <2>2 DEF Pending
  <2>4. i = 1 \/ f.n < s2c[i].n
    BY <1>1, <1>5, <2>3 DEF Answers
  <2> QED BY <1>1, <2>1, <2>3, <2>4
<1> QED BY <1>2, <1>3, <1>4, <1>5

(* What a queue holds, in one formula per call.                            *)
QueueOf(c) ==
  \A i \in DOMAIN queue[c] :
    \/ queue[c][i].op \in Errors /\ queue[c][i].op = closedError /\ i = Len(queue[c])
    \/ Part(queue[c][i], c) /\ queue[c][i].n = Len(got[c]) + i

(* The lengths and the frames of a queue.                                  *)
LEMMA QueueFacts ==
  ASSUME TypeOK, NEW c \in Calls
  PROVE  /\ queue[c] \in Seq(Frame) /\ DOMAIN queue[c] = 1..Len(queue[c]) /\ Len(queue[c]) \in Nat
         /\ \A i \in DOMAIN queue[c] : queue[c][i] \in Frame
         /\ got[c] \in Seq(Frame) /\ Len(got[c]) \in Nat /\ sent[c] \in Nat
BY LenProperties, ElementOfSeq DEF TypeOK

(* The counts of a call.                                                   *)
LEMMA Counts ==
  ASSUME TypeOK, NEW c \in Calls
  PROVE  Len(queue[c]) \in Nat /\ Len(got[c]) \in Nat /\ sent[c] \in Nat
BY QueueFacts

(* Arithmetic of the counts.                                               *)
LEMMA Sums ==
  ASSUME NEW g \in Nat, NEW q \in Nat
  PROVE  g + q \in Nat /\ (g + q) + 1 = g + (q + 1) /\ (g + 1) + q = g + (q + 1)
         /\ (g + 1) + (q - 1) = g + q
OBVIOUS

(* A step that leaves the queue alone, or takes from it.                   *)
LEMMA QueueKept ==
  ASSUME TypeOK, NEW c \in Calls, QueueOf(c), closedError' = closedError,
         \A i \in DOMAIN queue[c] : Part(queue[c][i], c) => PartNext(queue[c][i], c),
         Takes(c) \/ Raises(c) \/ (queue'[c] = queue[c] /\ got'[c] = got[c])
  PROVE  QueueOf(c)'
<1>1. \A i \in DOMAIN queue[c] :
        \/ queue[c][i].op \in Errors /\ queue[c][i].op = closedError' /\ i = Len(queue[c])
        \/ PartNext(queue[c][i], c) /\ queue[c][i].n = Len(got[c]) + i
  BY DEF QueueOf
<1>2. CASE queue'[c] = queue[c] /\ got'[c] = got[c]
  BY <1>1, <1>2 DEF QueueOf, Part, PartNext
<1>3. CASE Takes(c) \/ Raises(c)
  <2>1. queue[c] # <<>> /\ queue'[c] = Tail(queue[c])
    BY <1>3 DEF Takes, Raises
  <2>2. /\ DOMAIN queue'[c] = 1..(Len(queue[c]) - 1) /\ Len(queue'[c]) = Len(queue[c]) - 1
        /\ \A i \in 1..(Len(queue[c]) - 1) : queue'[c][i] = queue[c][i + 1]
        /\ Head(queue[c]) = queue[c][1] /\ 1 \in DOMAIN queue[c]
    BY <2>1, QueueFacts, Popped
  <2>3. CASE Raises(c)
    <3>1. Len(queue[c]) = 1
      BY <2>2, <2>3, QueueFacts DEF Raises, QueueOf, Part, Answering, Errors
    <3> QED BY <2>2, <3>1 DEF QueueOf
  <2>4. CASE Takes(c)
    <3>1. Len(got'[c]) = Len(got[c]) + 1
      BY <2>2, <2>4, QueueFacts, Appended DEF Takes
    <3>2. ASSUME NEW i \in DOMAIN queue'[c]
          PROVE  \/ queue'[c][i].op \in Errors /\ queue'[c][i].op = closedError' /\ i = Len(queue'[c])
                 \/ PartNext(queue'[c][i], c) /\ queue'[c][i].n = Len(got'[c]) + i
      <4>1. i + 1 \in DOMAIN queue[c] /\ queue'[c][i] = queue[c][i + 1] /\ i \in Nat
        BY <2>2, QueueFacts
      <4>2. CASE queue[c][i + 1].op \in Errors /\ queue[c][i + 1].op = closedError'
                 /\ i + 1 = Len(queue[c])
        BY <2>2, <4>1, <4>2, QueueFacts
      <4>3. CASE PartNext(queue[c][i + 1], c) /\ queue[c][i + 1].n = Len(got[c]) + (i + 1)
        <5>1. Len(got'[c]) + i = Len(got[c]) + (i + 1)
          <6>1. Len(got[c]) \in Nat BY Counts
          <6>2. (Len(got[c]) + 1) + i = Len(got[c]) + (i + 1) BY <4>1, <6>1, Sums
          <6> QED BY <3>1, <6>2
        <5> QED BY <4>1, <4>3, <5>1
      <4> QED BY <1>1, <4>1, <4>2, <4>3
    <3> QED BY <3>2 DEF QueueOf, Part, PartNext
  <2> QED BY <1>3, <2>3, <2>4
<1> QED BY <1>2, <1>3

(* A step that appends to the queue of a living connection: the next part  *)
(* of the answer, or the sentinel.                                         *)
LEMMA QueueGrows ==
  ASSUME TypeOK, NEW c \in Calls, QueueOf(c), closedError = "none", UNCHANGED <<sent, srv>>, got'[c] = got[c],
         NEW f \in Frame, queue'[c] = Append(queue[c], f),
         \/ f.op \in Errors /\ f.op = closedError'
         \/ Part(f, c) /\ f.n = Reached(c) + 1
  PROVE  QueueOf(c)'
<1>1. /\ DOMAIN queue'[c] = 1..(Len(queue[c]) + 1) /\ Len(queue'[c]) = Len(queue[c]) + 1
      /\ queue'[c][Len(queue[c]) + 1] = f
      /\ \A i \in 1..Len(queue[c]) : queue'[c][i] = queue[c][i]
  BY QueueFacts, Appended
<1>2. \A i \in 1..Len(queue[c]) : PartNext(queue'[c][i], c) /\ queue'[c][i].n = Len(got'[c]) + i
  BY <1>1, QueueFacts DEF QueueOf, Errors, Part, PartNext
<1>3. Len(got'[c]) + (Len(queue[c]) + 1) = Reached(c) + 1 /\ Len(queue[c]) \in Nat
  <2>1. Len(queue[c]) \in Nat /\ Len(got[c]) \in Nat BY Counts
  <2>2. Len(got[c]) + (Len(queue[c]) + 1) = (Len(got[c]) + Len(queue[c])) + 1 BY <2>1, Sums
  <2> QED BY <2>1, <2>2 DEF Reached
<1>4. \/ f.op \in Errors /\ f.op = closedError'
      \/ PartNext(f, c) /\ f.n = Len(got'[c]) + (Len(queue[c]) + 1)
  BY <1>3 DEF Part, PartNext
<1>5. ASSUME NEW i \in DOMAIN queue'[c]
      PROVE  \/ queue'[c][i].op \in Errors /\ queue'[c][i].op = closedError' /\ i = Len(queue'[c])
             \/ PartNext(queue'[c][i], c) /\ queue'[c][i].n = Len(got'[c]) + i
  <2>1. i \in 1..Len(queue[c]) \/ i = Len(queue[c]) + 1
    BY <1>1, <1>3
  <2> QED BY <1>1, <1>2, <1>4, <2>1
<1> QED BY <1>5 DEF QueueOf, Part, PartNext

(* Parts stay parts, whoever is answered.                                  *)
LEMMA PartStep ==
  ASSUME TypeOK, Stages, Written, [Next]_vars, NEW c \in Calls, NEW f \in Frame, Part(f, c)
  PROVE  PartNext(f, c)
<1>1. CASE ServerSend(c)
  <2>1. PICK g \in Frame : Sends(c, g)
    BY <1>1, SendEffect
  <2> QED BY <2>1, PartGrows
<1>2. CASE ~ServerSend(c)
  BY <1>2, SteadyStep, PartKept
<1> QED BY <1>1, <1>2

(* Failing: the living calls are those of the state before, each with the  *)
(* sentinel appended if the connection lived.                              *)
LEMMA FailLive ==
  ASSUME TypeOK, Registered, WokenOnFailure, NEW error \in Errors, FailAll(error), NEW c \in Calls, Live(c)
  PROVE  /\ closedError # "none" => queue'[c] = queue[c] /\ closedError' = closedError
         /\ closedError = "none" => queue'[c] = Append(queue[c], Control(error)) /\ closedError' = error
<1>1. closedError = "none" => routes[sid[c]] = c /\ sid[c] \in StreamIds
  BY DEF Registered, TypeOK
<1> QED BY <1>1, FailEffect, AioCallsAssumption DEF WokenOnFailure

(* A queue after a failure.                                                *)
LEMMA QueueFails ==
  ASSUME TypeOK, Registered, WokenOnFailure, NEW error \in Errors, FailAll(error), NEW c \in Calls, Live(c),
         QueueOf(c), UNCHANGED <<sent, srv>>, got'[c] = got[c]
  PROVE  QueueOf(c)'
<1>1. CASE closedError # "none"
  <2>1. queue'[c] = queue[c] /\ closedError' = closedError BY <1>1, FailLive
  <2> QED BY <2>1 DEF QueueOf, Part
<1>2. CASE closedError = "none"
  <2>1. queue'[c] = Append(queue[c], Control(error)) /\ closedError' = error BY <1>2, FailLive
  <2>2. Control(error) \in Frame /\ Control(error).op = error BY ControlFrame
  <2> QED BY <1>2, <2>1, <2>2, QueueGrows
<1> QED BY <1>1, <1>2

(* A queue holds consecutive parts of its call's answer.                   *)
LEMMA QueuedStep ==
  ASSUME TypeOK, Stages, Ids, Owned, Registered, Written, Answers, Queued, Pending, WokenOnFailure,
         [Next]_vars
  PROVE  Queued'
<1> USE DEF callVars, tableVars
<1>0. SUFFICES ASSUME NEW d \in Calls, Live(d)' PROVE QueueOf(d)'
  BY DEF Queued, QueueOf
<1>a. Live(d) => QueueOf(d)
  BY DEF Queued, QueueOf
<1>b. \A i \in DOMAIN queue[d] : Part(queue[d][i], d) => PartNext(queue[d][i], d)
  BY QueueFacts, PartStep
<1>1. ASSUME NEW c \in Calls, Begin(c) PROVE QueueOf(d)'
  <2>1. CASE d # c
    BY <1>0, <1>1, <1>a, <1>b, <2>1, LiveBegin, QueueKept
  <2>2. CASE d = c
    <3>1. queue'[d] = <<>> BY <1>0, <1>1, <2>2, LiveBegin
    <3> QED BY <3>1 DEF QueueOf
  <2> QED BY <2>1, <2>2
<1>2. ASSUME NEW c \in Calls, PlainStep(c) PROVE QueueOf(d)'
  BY <1>0, <1>2, <1>a, <1>b, LivePlain, PlainEffect, QueueKept
<1>3. ASSUME NEW c \in Calls, EndStep(c) PROVE QueueOf(d)'
  <2>1. Live(d) /\ (d = c => GoesOn(c) /\ pc'[c] # "done")
    BY <1>0, <1>3, LiveEnd
  <2>2. closedError' = closedError
    BY <1>3, EndEffect DEF EndStep
  <2>3. Takes(d) \/ Raises(d) \/ (queue'[d] = queue[d] /\ got'[d] = got[d])
    BY <1>3, <2>1, EndData, GoesOnEffect
  <2> QED BY <1>a, <1>b, <2>1, <2>2, <2>3, QueueKept
<1>4. ASSUME NEW c \in Calls, AcloseFails(c) PROVE QueueOf(d)'
  <2>1. Live(d) /\ FailAll("ConnectionClosed") /\ UNCHANGED <<sent, srv, got>>
    BY <1>0, <1>4 DEF AcloseFails, Live, OpStream, Active, Goto, TypeOK, serverVars
  <2> QED BY <1>a, <2>1, QueueFails DEF Errors
<1>5. CASE ReaderEnds
  <2>1. PICK error \in Errors : Live(d) /\ FailAll(error) /\ UNCHANGED <<sent, srv, got>>
    BY <1>0, <1>5 DEF ReaderEnds, Live, OpStream, serverVars, Errors
  <2> QED BY <1>a, <2>1, QueueFails
<1>6. CASE ReaderFrame
  <2>1. Live(d) /\ UNCHANGED <<sent, srv, got>>
    BY <1>0, <1>6 DEF ReaderFrame, Live, OpStream
  <2>2. CASE Head(s2c).op = "BAD"
    <3>1. FailAll("ConnectionClosed") BY <1>6, <2>2 DEF ReaderFrame
    <3> QED BY <1>a, <2>1, <3>1, QueueFails DEF Errors
  <2>3. CASE Head(s2c).op = "SERVER_PING"
    <3>1. UNCHANGED <<queue, closedError>> BY <1>6, <2>3 DEF ReaderFrame
    <3> QED BY <1>a, <1>b, <2>1, <3>1, QueueKept
  <2>4. CASE Head(s2c).op \notin {"BAD", "SERVER_PING"}
    <3>1. s2c # <<>> /\ Head(s2c) \in Frame /\ closedError' = closedError
      BY <1>6, <2>4, Popped, PutEffect DEF ReaderFrame, TypeOK
    <3>2. CASE routes[Head(s2c).sid] = d
      <4>1. closedError = "none" /\ Part(Head(s2c), d) /\ Head(s2c).n = Reached(d) + 1
        BY <2>1, <2>4, <3>1, <3>2, NextPart
      <4>2. queue'[d] = Append(queue[d], Head(s2c))
        BY <1>6, <2>4, <3>2, PutEffect
      <4> QED BY <1>a, <2>1, <3>1, <4>1, <4>2, QueueGrows
    <3>3. CASE routes[Head(s2c).sid] # d
      <4>1. queue'[d] = queue[d] BY <1>6, <2>4, <3>3, PutEffect
      <4> QED BY <1>a, <1>b, <2>1, <3>1, <4>1, QueueKept
    <3> QED BY <3>2, <3>3
  <2> QED BY <2>2, <2>3, <2>4
<1>7. CASE Pong \/ ServerStep \/ UNCHANGED vars
  <2>1. UNCHANGED <<pc, kind, queue, got, closedError>> BY <1>7, QuietEffect
  <2>2. Live(d) BY <1>0, <2>1 DEF Live, OpStream
  <2> QED BY <1>a, <1>b, <2>1, <2>2, QueueKept
<1> QED BY <1>1, <1>2, <1>3, <1>4, <1>5, <1>6, <1>7, Steps

(* The rest of a call's answer, in one formula per call.                   *)
RestOf(c) ==
  /\ Reached(c) <= sent[c]
  /\ \A i \in DOMAIN s2c : s2c[i].of = c => s2c[i].n > Reached(c)
  /\ \A n \in 1..sent[c] : n > Reached(c) => \E i \in DOMAIN s2c : s2c[i].of = c /\ s2c[i].n = n

(* The reader takes the head of the wire, and the call moves on if it was  *)
(* the call's.                                                             *)
LEMMA RestPopped ==
  ASSUME TypeOK, NEW c \in Calls, RestOf(c), Answers, s2c # <<>>, s2c' = Tail(s2c), sent'[c] = sent[c],
         Reached(c)' = IF Head(s2c).of = c THEN Reached(c) + 1 ELSE Reached(c),
         Head(s2c).of = c => Head(s2c).n = Reached(c) + 1
  PROVE  RestOf(c)'
<1>1. /\ Head(s2c) = s2c[1] /\ DOMAIN s2c' = 1..(Len(s2c) - 1) /\ DOMAIN s2c = 1..Len(s2c)
      /\ Len(s2c) \in Nat /\ Len(s2c) >= 1 /\ \A i \in 1..(Len(s2c) - 1) : s2c'[i] = s2c[i + 1]
      /\ \A i \in DOMAIN s2c : s2c[i].n \in Nat
  BY Popped, ElementOfSeq, FrameFields DEF TypeOK
<1>2. Reached(c) \in Nat /\ sent[c] \in Nat
  BY Counts, Sums DEF Reached
<1>3. ASSUME Head(s2c).of = c PROVE RestOf(c)'
  <2>1. Reached(c) + 1 <= sent[c] /\ Reached(c)' = Reached(c) + 1 /\ s2c[1].n = Reached(c) + 1
    <3>1. Part(Head(s2c), c) BY <1>1, <1>3, AioCallsAssumption DEF Answers
    <3> QED BY <1>1, <1>3, <3>1 DEF Part
  <2>2. ASSUME NEW i \in DOMAIN s2c', s2c'[i].of = c PROVE s2c'[i].n > Reached(c)'
    <3>1. i + 1 \in DOMAIN s2c /\ 1 < i + 1 /\ s2c'[i] = s2c[i + 1] BY <1>1
    <3>2. s2c[1].n < s2c[i + 1].n BY <1>1, <1>3, <2>2, <3>1 DEF Answers
    <3> QED BY <1>1, <1>2, <2>1, <3>1, <3>2
  <2>3. ASSUME NEW n \in 1..sent'[c], n > Reached(c)'
        PROVE  \E i \in DOMAIN s2c' : s2c'[i].of = c /\ s2c'[i].n = n
    <3>1. PICK j \in DOMAIN s2c : s2c[j].of = c /\ s2c[j].n = n
      BY <1>2, <2>1, <2>3 DEF RestOf
    <3>2. j # 1 BY <1>2, <2>1, <2>3, <3>1
    <3>3. j - 1 \in DOMAIN s2c' /\ s2c'[j - 1] = s2c[j] BY <1>1, <3>1, <3>2
    <3> QED BY <3>1, <3>3
  <2> QED BY <1>2, <2>1, <2>2, <2>3 DEF RestOf
<1>4. ASSUME Head(s2c).of # c PROVE RestOf(c)'
  <2>1. Reached(c)' = Reached(c) BY <1>4
  <2>2. ASSUME NEW i \in DOMAIN s2c', s2c'[i].of = c PROVE s2c'[i].n > Reached(c)'
    BY <1>1, <2>1, <2>2 DEF RestOf
  <2>3. ASSUME NEW n \in 1..sent'[c], n > Reached(c)'
        PROVE  \E i \in DOMAIN s2c' : s2c'[i].of = c /\ s2c'[i].n = n
    <3>1. PICK j \in DOMAIN s2c : s2c[j].of = c /\ s2c[j].n = n
      BY <2>1, <2>3 DEF RestOf
    <3>2. j # 1 BY <1>1, <1>4, <3>1
    <3>3. j - 1 \in DOMAIN s2c' /\ s2c'[j - 1] = s2c[j] BY <1>1, <3>1, <3>2
    <3> QED BY <3>1, <3>3
  <2> QED BY <2>1, <2>2, <2>3 DEF RestOf
<1> QED BY <1>3, <1>4

(* The wire grows by an answer to the call, or by a frame that is none.    *)
LEMMA RestGrows ==
  ASSUME TypeOK, NEW c \in Calls, RestOf(c), NEW f \in Frame, s2c' = Append(s2c, f),
         UNCHANGED <<got, queue>>,
         \/ f.of = c /\ f.n = sent[c] + 1 /\ sent'[c] = sent[c] + 1
         \/ f.of # c /\ sent'[c] = sent[c]
  PROVE  RestOf(c)'
<1>1. /\ DOMAIN s2c = 1..Len(s2c) /\ Len(s2c) \in Nat /\ DOMAIN s2c' = 1..(Len(s2c) + 1)
      /\ s2c'[Len(s2c) + 1] = f /\ \A i \in 1..Len(s2c) : s2c'[i] = s2c[i]
  BY Appended DEF TypeOK
<1>2. Reached(c) \in Nat /\ sent[c] \in Nat /\ Reached(c)' = Reached(c)
  BY Counts, Sums DEF Reached
<1>3. ASSUME NEW i \in DOMAIN s2c', s2c'[i].of = c PROVE s2c'[i].n > Reached(c)'
  <2>1. i \in 1..Len(s2c) \/ i = Len(s2c) + 1 BY <1>1
  <2> QED BY <1>1, <1>2, <1>3, <2>1 DEF RestOf
<1>4. ASSUME NEW n \in 1..sent'[c], n > Reached(c)'
      PROVE  \E i \in DOMAIN s2c' : s2c'[i].of = c /\ s2c'[i].n = n
  <2>1. CASE n \in 1..sent[c]
    <3>1. PICK j \in DOMAIN s2c : s2c[j].of = c /\ s2c[j].n = n
      BY <1>2, <1>4, <2>1 DEF RestOf
    <3> QED BY <1>1, <3>1
  <2>2. CASE n \notin 1..sent[c]
    <3>1. sent'[c] # sent[c] BY <2>2
    <3>2. f.of = c /\ f.n = sent[c] + 1 /\ sent'[c] = sent[c] + 1 BY <3>1
    <3>3. n = sent[c] + 1 BY <1>2, <1>4, <2>2, <3>2
    <3> QED BY <1>1, <3>2, <3>3
  <2> QED BY <2>1, <2>2
<1> QED BY <1>2, <1>3, <1>4 DEF RestOf

(* A wire that does not change.                                            *)
LEMMA RestKept ==
  ASSUME NEW c \in Calls, RestOf(c), s2c' = s2c, sent'[c] = sent[c], Reached(c)' = Reached(c)
  PROVE  RestOf(c)'
BY DEF RestOf

(* Taking a frame moves it from the queue to what was handed out.          *)
LEMMA ReachedTakes ==
  ASSUME TypeOK, NEW c \in Calls, Takes(c) \/ (queue'[c] = queue[c] /\ got'[c] = got[c])
  PROVE  Reached(c)' = Reached(c)
<1>1. CASE Takes(c)
  <2>1. queue[c] # <<>> /\ queue'[c] = Tail(queue[c]) /\ got'[c] = Append(got[c], Head(queue[c]))
    BY <1>1 DEF Takes
  <2>2. Head(queue[c]) \in Frame /\ Len(queue'[c]) = Len(queue[c]) - 1
    BY <2>1, QueueFacts, Popped
  <2>3. Len(got'[c]) = Len(got[c]) + 1
    BY <2>1, <2>2, QueueFacts, Appended
  <2>4. Len(queue[c]) \in Nat /\ Len(got[c]) \in Nat BY Counts
  <2>5. (Len(got[c]) + 1) + (Len(queue[c]) - 1) = Len(got[c]) + Len(queue[c]) BY <2>4, Sums
  <2> QED BY <2>2, <2>3, <2>5 DEF Reached
<1>2. CASE queue'[c] = queue[c] /\ got'[c] = got[c]
  BY <1>2 DEF Reached
<1> QED BY <1>1, <1>2

(* What was sent to a live call and not yet put is on its way.             *)
LEMMA PendingStep ==
  ASSUME TypeOK, Stages, Ids, Owned, Registered, Written, Answers, Queued, Pending, WokenOnFailure,
         [Next]_vars
  PROVE  Pending'
<1> USE DEF callVars, tableVars, serverVars
<1>0. SUFFICES ASSUME NEW d \in Calls, Live(d)', closedError' = "none" PROVE RestOf(d)'
  BY DEF Pending, RestOf
<1>a. Live(d) /\ closedError = "none" => RestOf(d)
  BY DEF Pending, RestOf
<1>1. ASSUME NEW c \in Calls, Begin(c) PROVE RestOf(d)'
  <2>1. CASE d # c
    BY <1>0, <1>1, <1>a, <2>1, LiveBegin, RestKept DEF Reached
  <2>2. CASE d = c
    <3>1. got'[d] = <<>> /\ queue'[d] = <<>> /\ sent[d] = 0 /\ sent'[d] = 0 /\ s2c' = s2c
      BY <1>0, <1>1, <2>2, LiveBegin
    <3>2. Reached(d)' = 0 BY <3>1 DEF Reached
    <3>3. \A i \in DOMAIN s2c : s2c[i].of # d
      <4>1. \A i \in DOMAIN s2c : s2c[i].n \in Nat
        BY ElementOfSeq, LenProperties, FrameFields DEF TypeOK
      <4> QED BY <3>1, <4>1, AioCallsAssumption DEF Answers, Part
    <3> QED BY <3>1, <3>2, <3>3 DEF RestOf
  <2> QED BY <2>1, <2>2
<1>2. ASSUME NEW c \in Calls, PlainStep(c) PROVE RestOf(d)'
  BY <1>0, <1>2, <1>a, LivePlain, PlainEffect, RestKept DEF Reached
<1>3. ASSUME NEW c \in Calls, EndStep(c) PROVE RestOf(d)'
  <2>1. Live(d) /\ (d = c => GoesOn(c) /\ pc'[c] # "done")
    BY <1>0, <1>3, LiveEnd
  <2>2. closedError' = closedError /\ s2c' = s2c /\ sent' = sent
    BY <1>3, EndEffect DEF EndStep, others
  <2>3. ~Raises(d)
    <3>1. ASSUME Raises(d) PROVE Head(queue[d]).op = closedError
      <4>1. Head(queue[d]) = queue[d][1] /\ 1 \in DOMAIN queue[d]
        BY <3>1, QueueFacts, Popped DEF Raises
      <4> QED BY <2>1, <3>1, <4>1 DEF Queued, Raises, Part, Answering
    <3> QED BY <1>0, <2>2, <3>1 DEF Raises
  <2>4. Takes(d) \/ (queue'[d] = queue[d] /\ got'[d] = got[d])
    BY <1>3, <2>1, <2>3, EndData, GoesOnEffect
  <2> QED BY <1>0, <1>a, <2>1, <2>2, <2>4, ReachedTakes, RestKept
<1>4. ASSUME NEW c \in Calls, AcloseFails(c) PROVE FALSE
  BY <1>0, <1>4, FailEffect DEF AcloseFails, Errors
<1>5. CASE ReaderEnds
  BY <1>0, <1>5, FailEffect DEF ReaderEnds, Errors
<1>6. CASE ReaderFrame
  <2>1. Live(d) /\ UNCHANGED <<sent, srv, got>> /\ s2c # <<>> /\ s2c' = Tail(s2c)
    BY <1>0, <1>6 DEF ReaderFrame, Live, OpStream
  <2>2. CASE Head(s2c).op = "BAD"
    <3>1. FailAll("ConnectionClosed") BY <1>6, <2>2 DEF ReaderFrame
    <3> QED BY <1>0, <3>1, FailEffect DEF Errors
  <2>3. CASE Head(s2c).op = "SERVER_PING"
    <3>1. UNCHANGED <<queue, closedError>> BY <1>6, <2>3 DEF ReaderFrame
    <3>2. Head(s2c).of # d
      <4>1. Head(s2c) = s2c[1] /\ 1 \in DOMAIN s2c BY <2>1, Popped DEF TypeOK
      <4> QED BY <2>3, <4>1, AioCallsAssumption DEF Answers, Part, Answering
    <3>3. Reached(d)' = Reached(d) BY <2>1, <3>1 DEF Reached
    <3> QED BY <1>0, <1>a, <2>1, <3>1, <3>2, <3>3, RestPopped
  <2>4. CASE Head(s2c).op \notin {"BAD", "SERVER_PING"}
    <3>1. Head(s2c) \in Frame /\ closedError = "none"
      BY <1>0, <1>6, <2>1, <2>4, Popped, PutEffect DEF TypeOK
    <3>2. CASE Head(s2c).of = d
      <4>1. routes[Head(s2c).sid] = d
        BY <2>1, <2>4, <3>1, <3>2, NextPart
      <4>2. Head(s2c).n = Reached(d) + 1
        BY <2>1, <2>4, <4>1, NextPart
      <4>3. queue'[d] = Append(queue[d], Head(s2c))
        BY <1>6, <2>4, <4>1, PutEffect
      <4>4. Reached(d)' = Reached(d) + 1
        <5>1. Len(queue'[d]) = Len(queue[d]) + 1 BY <3>1, <4>3, QueueFacts, Appended
        <5>2. Len(queue[d]) \in Nat /\ Len(got[d]) \in Nat BY Counts
        <5>3. Len(got[d]) + (Len(queue[d]) + 1) = (Len(got[d]) + Len(queue[d])) + 1 BY <5>2, Sums
        <5> QED BY <2>1, <5>1, <5>3 DEF Reached
      <4> QED BY <1>a, <2>1, <3>1, <3>2, <4>2, <4>4, RestPopped
    <3>3. CASE Head(s2c).of # d
      <4>1. routes[Head(s2c).sid] # d
        BY <2>1, <2>4, <3>1, <3>3, NextPart DEF Part
      <4>2. queue'[d] = queue[d] BY <1>6, <2>4, <4>1, PutEffect
      <4>3. Reached(d)' = Reached(d) BY <2>1, <4>2 DEF Reached
      <4> QED BY <1>a, <2>1, <3>1, <3>3, <4>3, RestPopped
    <3> QED BY <3>2, <3>3
  <2> QED BY <2>2, <2>3, <2>4
<1>7. CASE Pong \/ ServerStep \/ UNCHANGED vars
  <2>1. UNCHANGED <<pc, kind, queue, got, closedError, sid>> BY <1>7, QuietEffect
  <2>2. RestOf(d) BY <1>0, <1>a, <2>1 DEF Live, OpStream
  <2>3. ASSUME NEW c \in Calls, ServerSend(c) PROVE RestOf(d)'
    <3>1. PICK f \in Frame : Sends(c, f)
      BY <2>3, SendEffect
    <3>2. d # c => sent'[d] = sent[d]
      BY <2>3 DEF ServerSend, TypeOK
    <3> QED BY <2>1, <2>2, <3>1, <3>2, RestGrows DEF Sends
  <2>4. CASE ServerPing \/ ServerCorrupts
    <3>1. PICK op \in {"BAD", "SERVER_PING"} : s2c' = Append(s2c, Control(op)) /\ sent' = sent
      BY <2>4 DEF ServerPing, ServerCorrupts
    <3>2. Control(op) \in Frame /\ Control(op).of # d
      BY ControlFrame, AioCallsAssumption
    <3> QED BY <2>1, <2>2, <3>1, <3>2, RestGrows
  <2>5. CASE Pong \/ ServerRecv \/ PeerDrops \/ UNCHANGED vars
    <3>1. s2c' = s2c /\ sent' = sent
      BY <2>5 DEF Pong, PongWrite, PongDone, ReaderCancelled, ServerRecv, PeerDrops, vars
    <3> QED BY <2>1, <2>2, <3>1, RestKept DEF Reached
  <2> QED BY <1>7, <2>3, <2>4, <2>5 DEF ServerStep
<1> QED BY <1>1, <1>2, <1>3, <1>4, <1>5, <1>6, <1>7, Steps

(* The failed connection, in one formula per call.                         *)
WokenCall(c) ==
  OpStream(c) =>
    /\ pc[c] \in {"lock", "drain", "wait"} => HasSentinel(c)
    /\ pc[c] \in {"open", "next"} /\ closedError = "ConnectionClosed" => HasSentinel(c)

(* Taking an item that is not the sentinel leaves the sentinel there.      *)
LEMMA SentinelKept ==
  ASSUME TypeOK, NEW c \in Calls, HasSentinel(c), Takes(c) \/ queue'[c] = queue[c]
  PROVE  HasSentinel(c)'
<1>1. CASE queue'[c] = queue[c] BY <1>1 DEF HasSentinel
<1>2. CASE Takes(c)
  <2>1. PICK i \in DOMAIN queue[c] : queue[c][i].op \in Errors BY DEF HasSentinel
  <2>2. /\ queue'[c] = Tail(queue[c]) /\ Head(queue[c]).op \notin Errors /\ Head(queue[c]) = queue[c][1]
        /\ DOMAIN queue[c] = 1..Len(queue[c]) /\ Len(queue[c]) \in Nat
        /\ DOMAIN queue'[c] = 1..(Len(queue[c]) - 1)
        /\ \A j \in 1..(Len(queue[c]) - 1) : queue'[c][j] = queue[c][j + 1]
    BY <1>2, QueueFacts, Popped DEF Takes
  <2>3. i # 1 BY <2>1, <2>2
  <2>4. i - 1 \in DOMAIN queue'[c] /\ queue'[c][i - 1] = queue[c][i] BY <2>1, <2>2, <2>3
  <2> QED BY <2>1, <2>4 DEF HasSentinel
<1> QED BY <1>1, <1>2

(* _fail_all leaves no live call without the sentinel.                     *)
LEMMA WokenFails ==
  ASSUME TypeOK, Registered, WokenOnFailure, NEW error \in Errors, FailAll(error), NEW c \in Calls,
         Live(c)' => Live(c) /\ pc'[c] = pc[c] /\ kind'[c] = kind[c]
  PROVE  WokenCall(c)'
<1> SUFFICES ASSUME Live(c)' PROVE WokenCall(c)'
  BY DEF WokenCall, Live, Active
<1>1. Live(c) /\ pc'[c] = pc[c] /\ kind'[c] = kind[c]
  OBVIOUS
<1>2. CASE closedError # "none"
  <2>1. queue'[c] = queue[c] /\ closedError' = closedError BY <1>1, <1>2, FailLive
  <2> QED BY <1>1, <1>2, <2>1 DEF WokenOnFailure, WokenCall, HasSentinel, OpStream
<1>3. CASE closedError = "none"
  <2>1. queue'[c] = Append(queue[c], Control(error)) BY <1>1, <1>3, FailLive
  <2>2. Control(error) \in Frame /\ Control(error).op = error BY ControlFrame
  <2>3. Len(queue[c]) + 1 \in DOMAIN queue'[c] /\ queue'[c][Len(queue[c]) + 1] = Control(error)
    BY <2>1, <2>2, QueueFacts, Appended
  <2>4. HasSentinel(c)' BY <2>2, <2>3 DEF HasSentinel
  <2> QED BY <2>4 DEF WokenCall
<1> QED BY <1>2, <1>3

(* Whoever waits on a failed connection has the sentinel.                  *)
LEMMA WokenStep ==
  ASSUME TypeOK, Stages, Ids, Owned, Registered, Written, Answers, Queued, Pending, WokenOnFailure,
         [Next]_vars
  PROVE  WokenOnFailure'
<1> USE AioCallsAssumption DEF callVars, tableVars
<1>0. SUFFICES ASSUME closedError' # "none"
               PROVE  /\ \A s \in StreamIds : routes'[s] = NoCall
                      /\ \A d \in Calls : WokenCall(d)'
  BY DEF WokenOnFailure, WokenCall
<1>a. closedError # "none" => /\ \A s \in StreamIds : routes[s] = NoCall
                              /\ \A d \in Calls : WokenCall(d)
  BY DEF WokenOnFailure, WokenCall
<1>b. ASSUME closedError' = closedError, routes' = routes,
             \A d \in Calls : Live(d)' =>
               /\ kind'[d] = kind[d] /\ (pc[d] \in {"lock", "drain", "wait"} \/ pc'[d] \in {"open", "next"})
               /\ Live(d) /\ (Takes(d) \/ queue'[d] = queue[d])
      PROVE  /\ \A s \in StreamIds : routes'[s] = NoCall
             /\ \A d \in Calls : WokenCall(d)'
  <2>1. ASSUME NEW d \in Calls PROVE WokenCall(d)'
    <3> SUFFICES ASSUME Live(d)', pc'[d] \in {"open", "next"} => closedError = "ConnectionClosed"
                 PROVE  HasSentinel(d)'
      BY <1>b DEF WokenCall, Live, Active
    <3>1. HasSentinel(d)
      BY <1>0, <1>a, <1>b DEF WokenCall, Live, OpStream, Active
    <3> QED BY <1>b, <3>1, SentinelKept
  <2> QED BY <1>0, <1>a, <1>b, <2>1
<1>c. ASSUME NEW error \in Errors, FailAll(error),
             \A d \in Calls : Live(d)' => Live(d) /\ pc'[d] = pc[d] /\ kind'[d] = kind[d]
      PROVE  /\ \A s \in StreamIds : routes'[s] = NoCall
             /\ \A d \in Calls : WokenCall(d)'
  BY <1>c, FailEffect, WokenFails
<1>1. ASSUME NEW c \in Calls, Begin(c)
      PROVE  /\ \A s \in StreamIds : routes'[s] = NoCall
             /\ \A d \in Calls : WokenCall(d)'
  <2>1. closedError # "none" /\ routes' = routes /\ UNCHANGED <<queue, closedError>>
    BY <1>0, <1>1 DEF Begin
  <2>2. \A d \in Calls : Live(d)' => d # c
    BY <1>0, <1>1, <2>1, LiveBegin
  <2>3. \A d \in Calls \ {c} : pc'[d] = pc[d] /\ kind'[d] = kind[d]
    BY <1>1 DEF Begin, Goto, TypeOK
  <2> QED BY <1>b, <2>1, <2>2, <2>3 DEF Live, OpStream, Active
<1>2. ASSUME NEW c \in Calls, PlainStep(c)
      PROVE  /\ \A s \in StreamIds : routes'[s] = NoCall
             /\ \A d \in Calls : WokenCall(d)'
  <2>1. UNCHANGED <<queue, closedError, routes>>
    BY <1>2, PlainEffect
  <2>2. ASSUME NEW d \in Calls, Live(d)'
        PROVE  /\ kind'[d] = kind[d] /\ (pc[d] \in {"lock", "drain", "wait"} \/ pc'[d] \in {"open", "next"})
               /\ Live(d)
    <3>1. Live(d) BY <1>2, <2>2, LivePlain
    <3>2. CASE d # c BY <1>2, <2>2, <3>1, <3>2, PlainEffect DEF Live, Active
    <3>3. CASE d = c BY <1>2, <2>2, <3>1, <3>3, PlainMoves DEF Live, Active, OpStream, OpKinds
    <3> QED BY <3>1, <3>2, <3>3
  <2> QED BY <1>b, <2>1, <2>2
<1>3. ASSUME NEW c \in Calls, EndStep(c)
      PROVE  /\ \A s \in StreamIds : routes'[s] = NoCall
             /\ \A d \in Calls : WokenCall(d)'
  <2>1. /\ (Ends(c) \/ GoesOn(c) \/ Closes(c)) /\ UNCHANGED <<kind, sid, closedError>>
    BY <1>3, EndEffect DEF EndStep
  <2>2. \A s \in StreamIds : routes'[s] = NoCall
    BY <1>0, <1>a, <2>1 DEF Ends, GoesOn, Closes, TypeOK
  <2>3. ASSUME NEW d \in Calls, Live(d)', d # c PROVE WokenCall(d)'
    BY <1>0, <1>3, <1>a, <2>1, <2>3, EndData DEF WokenCall, HasSentinel, OpStream
  <2>4. ASSUME Live(c)' PROVE WokenCall(c)'
    <3>1. Live(c) /\ GoesOn(c) /\ pc'[c] # "done" BY <1>3, <2>4, LiveEnd
    <3>2. Takes(c) \/ Raises(c) \/ (queue'[c] = queue[c] /\ got'[c] = got[c])
      BY <1>3, <3>1, GoesOnEffect
    <3>3. CASE Raises(c)
      <4>1. Head(queue[c]) = queue[c][1] /\ 1 \in DOMAIN queue[c]
        BY <3>3, QueueFacts, Popped DEF Raises
      <4>2. closedError = "OSError" BY <3>1, <3>3, <4>1 DEF Queued, Raises, Part, Answering
      <4> QED BY <2>1, <3>3, <4>2 DEF WokenCall, Raises
    <3>4. CASE Takes(c) \/ queue'[c] = queue[c]
      <4>1. pc'[c] = pc[c] \/ (pc'[c] = "open" /\ kind[c] = "subscribe")
        BY <3>1 DEF GoesOn, TypeOK
      <4>2. SUFFICES ASSUME pc'[c] \in {"open", "next"} => closedError = "ConnectionClosed"
                     PROVE  HasSentinel(c)'
        BY <2>1 DEF WokenCall
      <4>3. HasSentinel(c)
        BY <1>0, <1>a, <2>1, <3>1, <4>1, <4>2 DEF WokenCall, Live, Active, GoesOn, OpStream
      <4> QED BY <3>4, <4>3, SentinelKept
    <3> QED BY <3>2, <3>3, <3>4
  <2> QED BY <2>2, <2>3, <2>4 DEF WokenCall, Live, Active, OpStream
<1>4. ASSUME NEW c \in Calls, AcloseFails(c)
      PROVE  /\ \A s \in StreamIds : routes'[s] = NoCall
             /\ \A d \in Calls : WokenCall(d)'
  <2>1. \A d \in Calls : Live(d)' => Live(d) /\ pc'[d] = pc[d] /\ kind'[d] = kind[d]
    BY <1>4 DEF AcloseFails, Goto, TypeOK, Live, OpStream, Active
  <2> QED BY <1>4, <1>c, <2>1 DEF AcloseFails, Errors
<1>5. CASE ReaderEnds
  <2>1. \A d \in Calls : Live(d)' => Live(d) /\ pc'[d] = pc[d] /\ kind'[d] = kind[d]
    BY <1>5 DEF ReaderEnds, Live, OpStream
  <2> QED BY <1>5, <1>c, <2>1 DEF ReaderEnds, Errors
<1>6. CASE ReaderFrame
  <2>1. \A d \in Calls : Live(d)' => Live(d) /\ pc'[d] = pc[d] /\ kind'[d] = kind[d]
    BY <1>6 DEF ReaderFrame, Live, OpStream
  <2>2. CASE Head(s2c).op = "BAD"
    BY <1>6, <1>c, <2>1, <2>2 DEF ReaderFrame, Errors
  <2>3. CASE Head(s2c).op # "BAD"
    <3>1. UNCHANGED <<routes, closedError, pc, kind>>
      BY <1>6, <2>3 DEF ReaderFrame
    <3>2. ASSUME NEW d \in Calls PROVE queue'[d] = queue[d]
      <4>1. Head(s2c).sid \in StreamIds BY <1>6, Popped, FrameFields DEF ReaderFrame, TypeOK
      <4>2. routes[Head(s2c).sid] = NoCall BY <1>0, <1>a, <3>1, <4>1
      <4> QED BY <1>6, <2>3, <4>2 DEF ReaderFrame
    <3>3. ASSUME NEW d \in Calls PROVE WokenCall(d)'
      BY <1>0, <1>a, <3>1, <3>2 DEF WokenCall, HasSentinel, OpStream
    <3> QED BY <1>0, <1>a, <3>1, <3>3
  <2> QED BY <2>2, <2>3
<1>7. CASE Pong \/ ServerStep \/ UNCHANGED vars
  <2>1. UNCHANGED <<routes, closedError, pc, kind, queue>> BY <1>7, QuietEffect
  <2>2. ASSUME NEW d \in Calls PROVE WokenCall(d)'
    BY <1>0, <1>a, <2>1 DEF WokenCall, HasSentinel, OpStream
  <2> QED BY <1>0, <1>a, <2>1, <2>2
<1> QED BY <1>1, <1>2, <1>3, <1>4, <1>5, <1>6, <1>7, Steps

-----------------------------------------------------------------------------
(* The connection after its handshake satisfies the invariant.             *)
LEMMA InitIInv == Init => IInv
<1> SUFFICES ASSUME Init PROVE IInv
  OBVIOUS
<1> USE AioCallsAssumption, AioIdsAssumption, AioBoundsAssumption DEF Init
<1>1. TypeOK
  <2>1. <<>> \in Seq(Frame) /\ <<>> \in Seq(Calls \cup {Reader})
    OBVIOUS
  <2>2. queue \in [Calls -> Seq(Frame)] /\ got \in [Calls -> Seq(Frame)]
    BY <2>1
  <2>3. sid \in [Calls -> StreamIds] /\ nextId \in 1..MaxStreamId /\ nextId % 2 = 1
        /\ sent \in [Calls -> Nat]
    BY DEF StreamIds, HANDSHAKE_STREAM_ID
  <2>4. hasTimeout \in BOOLEAN
    OBVIOUS
  <2> QED BY <2>1, <2>2, <2>3, <2>4 DEF TypeOK, AllKinds, OpKinds, Outcomes
<1>2. Stages /\ Owned /\ Registered /\ Locks
  BY DEF Stages, Owned, Registered, Locks, Live, Active, HANDSHAKE_STREAM_ID, StreamIds
<1>3. Ids
  <2>1. Cardinality(Issued) \in Nat
    <3>1. IsFiniteSet(Issued) BY FS_Subset DEF Issued
    <3> QED BY <3>1, FS_CardinalityType
  <2> QED BY <2>1 DEF Ids, HANDSHAKE_STREAM_ID
<1>4. Acloses /\ AcloseEndsReader /\ WokenOnFailure
  BY DEF Acloses, AcloseEndsReader, WokenOnFailure
<1>5. Written /\ Answers /\ Queued /\ Pending
  BY DEF Written, Answers, Queued, Pending, Live, Active
<1> QED BY <1>1, <1>2, <1>3, <1>4, <1>5 DEF IInv

(* Every step keeps it.                                                    *)
LEMMA NextIInv == IInv /\ [Next]_vars => IInv'
BY TypeStep, LocksStep, OwnedStep, StagesStep, IdsStep, RegisteredStep, AclosesStep, WrittenStep, AnswersStep,
   QueuedStep, PendingStep, WokenStep DEF IInv

(* It holds in every reachable state.                                      *)
LEMMA Invariant == Spec => []IInv
BY InitIInv, NextIInv, PTL DEF Spec

(* Every reachable state is well-typed: stream ids stay in their width and *)
(* the write lock has a holder that exists.                                *)
THEOREM AioTyped == Spec => []TypeOK
<1>1. IInv => TypeOK BY DEF IInv
<1> QED BY Invariant, <1>1, PTL

(* Wherever a task is cancelled, its route and the write lock are given    *)
(* back (the finally clauses of request, _write and AsyncSubscription).    *)
THEOREM CancelIsClean == Spec => []CancelLeavesNothing
<1>1. IInv => CancelLeavesNothing
  BY DEF IInv, TypeOK, Owned, Locks, Active, CancelLeavesNothing
<1> QED BY Invariant, <1>1, PTL

(* No call waits on a failed connection without the sentinel of _fail_all  *)
(* in its queue.                                                           *)
THEOREM EveryoneWoken == Spec => []WokenOnFailure
<1>1. IInv => WokenOnFailure BY DEF IInv
<1> QED BY Invariant, <1>1, PTL

(* aclose never waits for a reader that will not end, and returns from a   *)
(* connection that refuses new calls.                                      *)
THEOREM AcloseEnds == Spec => []AcloseEndsReader
<1>1. IInv => AcloseEndsReader BY DEF IInv
<1> QED BY Invariant, <1>1, PTL

-----------------------------------------------------------------------------
(* The refinement.  First, what callers see of a call.                     *)

Answered(c) == IF OpStream(c) THEN sent[c] ELSE 0
Complete(c) == OpStream(c) /\ srv[c] = "finished"

DataKept(c) == Answered(c)' = Answered(c) /\ Complete(c)' = Complete(c) /\ TakenBy(c)' = TakenBy(c)
ViewKept(c) == PhaseOf(c)' = PhaseOf(c) /\ DataKept(c)

(* The cases of PhaseOf.                                                   *)
LEMMA PhaseCases ==
  ASSUME NEW c \in Calls
  PROVE  /\ ~OpStream(c) \/ pc[c] = "idle" => PhaseOf(c) = "idle"
         /\ OpStream(c) /\ pc[c] = "done" /\ outcome[c] \in {"ok", "ended"} => PhaseOf(c) = "returned"
         /\ OpStream(c) /\ pc[c] = "done" /\ outcome[c] \notin {"ok", "ended"} => PhaseOf(c) = "aborted"
         /\ OpStream(c) /\ pc[c] \notin {"idle", "done"} => PhaseOf(c) = "open"
BY DEF PhaseOf, OpStream

(* After the step.                                                         *)
LEMMA PhaseCasesNext ==
  ASSUME NEW c \in Calls
  PROVE  /\ ~OpStream(c)' \/ pc'[c] = "idle" => PhaseOf(c)' = "idle"
         /\ OpStream(c)' /\ pc'[c] = "done" /\ outcome'[c] \in {"ok", "ended"} => PhaseOf(c)' = "returned"
         /\ OpStream(c)' /\ pc'[c] = "done" /\ outcome'[c] \notin {"ok", "ended"} => PhaseOf(c)' = "aborted"
         /\ OpStream(c)' /\ pc'[c] \notin {"idle", "done"} => PhaseOf(c)' = "open"
BY DEF PhaseOf, OpStream

(* What a call was handed, named: as long, and longer by one when it is    *)
(* handed a frame.                                                         *)
LEMMA TakenFacts ==
  ASSUME TypeOK, NEW c \in Calls
  PROVE  /\ OpStream(c) => Len(TakenBy(c)) = Len(got[c])
         /\ got[c] = <<>> => TakenBy(c) = <<>>
         /\ Len(got[c]) \in Nat
<1> DEFINE names == [i \in 1..Len(got[c]) |-> NameOf(got[c][i])]
           Names == {NameOf(f) : f \in Frame}
<1>1. got[c] \in Seq(Frame) /\ Len(got[c]) \in Nat /\ DOMAIN got[c] = 1..Len(got[c])
      /\ \A i \in 1..Len(got[c]) : got[c][i] \in Frame
  BY LenProperties, ElementOfSeq DEF TypeOK
<1>2. names \in Seq(Names) /\ Len(names) = Len(got[c])
  <2>1. \A i \in 1..Len(got[c]) : NameOf(got[c][i]) \in Names BY <1>1
  <2> QED BY <1>1, <2>1, IsASeq
<1>3. OpStream(c) => TakenBy(c) = names
  BY <1>1 DEF TakenBy
<1>4. ASSUME got[c] = <<>> PROVE TakenBy(c) = <<>>
  <2>1. Len(got[c]) = 0 BY <1>4
  <2>2. names = <<>> BY <1>2, <2>1, EmptySeq
  <2> QED BY <1>3, <2>2 DEF TakenBy
<1> QED BY <1>1, <1>2, <1>3, <1>4

(* Handing a frame out.                                                    *)
LEMMA TakenGrows ==
  ASSUME TypeOK, NEW c \in Calls, OpStream(c), OpStream(c)', NEW f \in Frame, got'[c] = Append(got[c], f)
  PROVE  TakenBy(c)' = Append(TakenBy(c), NameOf(f)) /\ Len(TakenBy(c)') = Len(got[c]) + 1
<1> DEFINE Names == {NameOf(g) : g \in Frame}
           old == [i \in 1..Len(got[c]) |-> NameOf(got[c][i])]
           new == [i \in 1..(Len(got[c]) + 1) |-> NameOf(got'[c][i])]
<1>1. /\ got[c] \in Seq(Frame) /\ Len(got[c]) \in Nat /\ DOMAIN got[c] = 1..Len(got[c])
      /\ \A i \in 1..Len(got[c]) : got[c][i] \in Frame
  BY LenProperties, ElementOfSeq DEF TypeOK
<1>2. /\ DOMAIN got'[c] = 1..(Len(got[c]) + 1) /\ got'[c][Len(got[c]) + 1] = f
      /\ \A i \in 1..Len(got[c]) : got'[c][i] = got[c][i]
  BY <1>1, Appended
<1>3. TakenBy(c) = old
  BY <1>1 DEF TakenBy
<1>4. TakenBy(c)' = new
  BY <1>2 DEF TakenBy, NameOf
<1>5. old \in Seq(Names) /\ Len(old) = Len(got[c]) /\ NameOf(f) \in Names
  <2>1. \A i \in 1..Len(got[c]) : NameOf(got[c][i]) \in Names BY <1>1
  <2> QED BY <1>1, <2>1, IsASeq
<1>6. /\ Append(old, NameOf(f)) \in Seq(Names) /\ Len(Append(old, NameOf(f))) = Len(got[c]) + 1
      /\ \A i \in 1..Len(got[c]) : Append(old, NameOf(f))[i] = old[i]
      /\ Append(old, NameOf(f))[Len(got[c]) + 1] = NameOf(f)
  BY <1>5, Appended
<1>7. new \in Seq(Names) /\ Len(new) = Len(got[c]) + 1
  <2>1. \A i \in 1..(Len(got[c]) + 1) : got'[c][i] \in Frame BY <1>1, <1>2
  <2>2. \A i \in 1..(Len(got[c]) + 1) : NameOf(got'[c][i]) \in Names BY <2>1
  <2>3. Len(got[c]) + 1 \in Nat BY <1>1
  <2> QED BY <2>2, <2>3, IsASeq
<1>8. \A i \in 1..(Len(got[c]) + 1) : new[i] = Append(old, NameOf(f))[i]
  BY <1>1, <1>2, <1>6
<1>9. new = Append(old, NameOf(f))
  BY <1>6, <1>7, <1>8, SeqEqual
<1> QED BY <1>3, <1>4, <1>7, <1>9

-----------------------------------------------------------------------------
(* Steps of Demux from what callers see.                                   *)

(* Nothing is seen.                                                        *)
LEMMA Stutters ==
  ASSUME \A d \in Calls : ViewKept(d), (closedError' = "none") = (closedError = "none")
  PROVE  UNCHANGED Promise!vars
BY DEF Promise!vars, ViewKept, DataKept, Answered, Complete

(* The connection fails.                                                   *)
LEMMA Fails ==
  ASSUME \A d \in Calls : ViewKept(d), closedError' # "none"
  PROVE  Promise!Fail
BY DEF Promise!Fail, ViewKept, DataKept, Answered, Complete

(* A call is opened.                                                       *)
LEMMA Opens ==
  ASSUME NEW c \in Calls, \A d \in Calls \ {c} : ViewKept(d), DataKept(c), closedError' = "none",
         closedError = "none", PhaseOf(c) = "idle", PhaseOf(c)' = "open"
  PROVE  Promise!Open(c)
BY DEF Promise!Open, ViewKept, DataKept, Answered, Complete

(* A call is abandoned.                                                    *)
LEMMA Aborts ==
  ASSUME NEW c \in Calls, \A d \in Calls \ {c} : ViewKept(d), DataKept(c), closedError' = closedError,
         PhaseOf(c) \in {"idle", "open"}, PhaseOf(c)' = "aborted"
  PROVE  Promise!Abort(c)
BY DEF Promise!Abort, ViewKept, DataKept, Answered, Complete

(* The server answers a call.                                              *)
LEMMA AnswersCall ==
  ASSUME NEW c \in Calls, \A d \in Calls \ {c} : ViewKept(d), closedError' = closedError,
         PhaseOf(c)' = PhaseOf(c), PhaseOf(c) # "idle", TakenBy(c)' = TakenBy(c), ~Complete(c),
         Answered(c)' = Answered(c) + 1, Complete(c)' \in BOOLEAN
  PROVE  Promise!Answer(c)
BY DEF Promise!Answer, ViewKept, DataKept, Answered, Complete

(* A call is handed the next frame of its answer.                          *)
LEMMA Delivers ==
  ASSUME NEW c \in Calls, \A d \in Calls \ {c} : ViewKept(d), closedError' = closedError,
         PhaseOf(c) = "open", Len(TakenBy(c)) < Answered(c),
         TakenBy(c)' = Append(TakenBy(c), [of |-> c, n |-> Len(TakenBy(c)) + 1]),
         Answered(c)' = Answered(c), Complete(c)' = Complete(c),
         PhaseOf(c)' \in {"open", "aborted", "returned"},
         PhaseOf(c)' = "returned" => Complete(c) /\ Len(TakenBy(c)') = Answered(c)
  PROVE  Promise!Deliver(c)
BY DEF Promise!Deliver, ViewKept, DataKept, Answered, Complete

-----------------------------------------------------------------------------
(* What every step of the connection lets callers see.                     *)

(* A call none of whose data changes.                                      *)
LEMMA Untouched ==
  ASSUME NEW c \in Calls, pc'[c] = pc[c], kind'[c] = kind[c], outcome'[c] = outcome[c], got'[c] = got[c],
         sent'[c] = sent[c], srv'[c] = srv[c]
  PROVE  ViewKept(c)
BY DEF ViewKept, DataKept, PhaseOf, OpStream, Answered, Complete, TakenBy, NameOf

(* A ping, or an aclose: outside the promise.                              *)
LEMMA Outside ==
  ASSUME NEW c \in Calls, ~OpStream(c), ~OpStream(c)'
  PROVE  ViewKept(c)
BY PhaseCases, PhaseCasesNext DEF ViewKept, DataKept, Answered, Complete, TakenBy

(* A call that has not begun has no data, whatever its kind becomes.       *)
LEMMA NoData ==
  ASSUME TypeOK, Stages, Written, NEW c \in Calls, pc[c] = "idle", UNCHANGED <<got, sent, srv>>
  PROVE  DataKept(c) /\ PhaseOf(c) = "idle"
<1>1. got[c] = <<>> /\ got'[c] = <<>> /\ sent[c] = 0 /\ sent'[c] = 0 /\ srv[c] = "unseen" /\ srv'[c] = "unseen"
  BY DEF Stages, Written
<1>2. TakenBy(c) = <<>> BY <1>1, TakenFacts
<1>3. TakenBy(c)' = <<>>
  <2>1. OpStream(c) BY DEF Stages, OpStream, OpKinds
  <2> QED BY <1>2, <2>1 DEF TakenBy, NameOf
<1> QED BY <1>1, <1>2, <1>3, PhaseCases DEF DataKept, Answered, Complete

(* How a call ends: empty-handed and not normally, or with a last frame.   *)
LEMMA EndOutcome ==
  ASSUME TypeOK, NEW c \in Calls, EndStep(c), Ends(c)
  PROVE  \/ got'[c] = got[c] /\ outcome'[c] \notin {"ok", "ended"}
         \/ Takes(c) /\ (outcome'[c] \in {"ok", "ended"} => Head(queue[c]).eos)
<1> USE DEF Goto, Result, Leave, TypeOK, Ends, Active
<1>1. CASE WriteTooLarge(c) BY <1>1 DEF WriteTooLarge
<1>2. CASE DrainRaises(c) BY <1>2 DEF DrainRaises, WriteRaises
<1>3. CASE TakeFrame(c) BY <1>3 DEF TakeFrame, Takes, Errors
<1>4. CASE Timeout(c) BY <1>4 DEF Timeout
<1>5. CASE Cancel(c) BY <1>5 DEF Cancel, WriteRaises
<1>6. CASE NextItem(c) BY <1>6 DEF NextItem, Takes, Errors
<1>7. CASE SubClose(c) BY <1>7 DEF SubClose
<1> QED BY <1>1, <1>2, <1>3, <1>4, <1>5, <1>6, <1>7 DEF EndStep

(* Taking a frame from the queue of a live call delivers the next frame of *)
(* its answer.                                                             *)
LEMMA TakesDelivers ==
  ASSUME TypeOK, Queued, NEW c \in Calls, Live(c), Takes(c), kind' = kind, closedError' = closedError,
         sent' = sent, srv' = srv, \A d \in Calls \ {c} : ViewKept(d),
         PhaseOf(c)' \in {"open", "aborted", "returned"},
         PhaseOf(c)' = "returned" => Head(queue[c]).eos
  PROVE  Promise!Deliver(c)
<1> DEFINE f == Head(queue[c])
<1>1. f = queue[c][1] /\ 1 \in DOMAIN queue[c] /\ f \in Frame /\ got'[c] = Append(got[c], f) /\ f.op \notin Errors
  BY QueueFacts, Popped DEF Takes
<1>2. Part(f, c) /\ f.n = Len(got[c]) + 1
  BY <1>1 DEF Queued
<1>3. OpStream(c) /\ OpStream(c)' /\ PhaseOf(c) = "open" /\ Answered(c) = sent[c] /\ Answered(c)' = Answered(c)
      /\ Complete(c)' = Complete(c)
  BY PhaseCases DEF Live, OpStream, Active, Answered, Complete
<1>4. Len(TakenBy(c)) = Len(got[c]) /\ Len(got[c]) \in Nat /\ sent[c] \in Nat
  BY <1>3, TakenFacts, Counts
<1>5. NameOf(f) = [of |-> c, n |-> Len(TakenBy(c)) + 1]
  BY <1>2, <1>4 DEF NameOf, Part
<1>6. TakenBy(c)' = Append(TakenBy(c), [of |-> c, n |-> Len(TakenBy(c)) + 1])
  BY <1>1, <1>3, <1>5, TakenGrows
<1>7. Len(TakenBy(c)) < Answered(c)
  <2>1. Len(got[c]) + 1 <= sent[c] BY <1>2 DEF Part
  <2> QED BY <1>3, <1>4, <2>1
<1>8. Len(TakenBy(c)') = Len(got[c]) + 1
  BY <1>1, <1>3, TakenGrows
<1>9. PhaseOf(c)' = "returned" => Complete(c) /\ Len(TakenBy(c)') = Answered(c)
  BY <1>2, <1>3, <1>8 DEF Part, Complete
<1> QED BY <1>3, <1>6, <1>7, <1>9, Delivers

(* Every step of the connection is a step of Demux, or nothing to callers. *)
LEMMA NextImplements == IInv /\ [Next]_vars => [Promise!Next]_(Promise!vars)
<1> SUFFICES ASSUME IInv, [Next]_vars PROVE Promise!Next \/ UNCHANGED Promise!vars
  OBVIOUS
<1> USE DEF callVars, tableVars, serverVars
<1>0. TypeOK /\ Stages /\ Written /\ Answers /\ Queued
  BY DEF IInv
<1>1. ASSUME NEW c \in Calls, Begin(c) PROVE Promise!Next \/ UNCHANGED Promise!vars
  <2>1. UNCHANGED <<got, sent, srv, closedError>> /\ pc[c] = "idle"
    BY <1>1 DEF Begin, others
  <2>2. DataKept(c) /\ PhaseOf(c) = "idle"
    BY <1>0, <2>1, NoData
  <2>3. PICK k \in AllKinds \ {"aclose"} : \E s \in StreamIds : Began(c, k, s)
    BY <1>0, <1>1, BeginEffect
  <2>4. PICK s \in StreamIds : Began(c, k, s)
    BY <2>3
  <2>5. ASSUME NEW d \in Calls \ {c} PROVE ViewKept(d)
    <3>1. pc'[d] = pc[d] /\ kind'[d] = kind[d] /\ outcome'[d] = outcome[d]
      BY <1>0, <2>4 DEF Began, TypeOK
    <3> QED BY <2>1, <3>1, Untouched
  <2>6. kind'[c] = k
    BY <1>0, <2>4 DEF Began, TypeOK
  <2>7. CASE k = "ping"
    <3>1. PhaseOf(c)' = "idle" BY <2>6, <2>7, PhaseCasesNext DEF OpStream, OpKinds
    <3>2. \A d \in Calls : ViewKept(d) BY <2>2, <2>5, <3>1 DEF ViewKept
    <3> QED BY <2>1, <3>2, Stutters
  <2>8. CASE k \in OpKinds /\ closedError # "none"
    <3>1. pc'[c] = "done" /\ outcome'[c] = closedError
      BY <1>0, <2>4, <2>8 DEF Began, TypeOK
    <3>2. PhaseOf(c)' = "aborted"
      BY <1>0, <2>6, <2>8, <3>1, PhaseCasesNext DEF OpStream, TypeOK, Errors
    <3> QED BY <2>1, <2>2, <2>5, <3>2, Aborts DEF Promise!Next
  <2>9. CASE k \in OpKinds /\ closedError = "none"
    <3>1. pc'[c] = "lock"
      BY <1>0, <2>4, <2>9 DEF Began, TypeOK
    <3>2. PhaseOf(c)' = "open"
      BY <2>6, <2>9, <3>1, PhaseCasesNext DEF OpStream
    <3> QED BY <2>1, <2>2, <2>5, <2>9, <3>2, Opens DEF Promise!Next
  <2> QED BY <2>4, <2>7, <2>8, <2>9 DEF Began
<1>2. ASSUME NEW c \in Calls, PlainStep(c) PROVE Promise!Next \/ UNCHANGED Promise!vars
  <2>1. /\ UNCHANGED <<got, sent, srv, closedError>>
        /\ \A d \in Calls \ {c} : pc'[d] = pc[d] /\ kind'[d] = kind[d] /\ outcome'[d] = outcome[d]
    BY <1>0, <1>2, PlainEffect
  <2>2. \A d \in Calls \ {c} : ViewKept(d)
    BY <2>1, Untouched
  <2>3. CASE pc[c] = "idle"
    <3>1. DataKept(c) /\ PhaseOf(c) = "idle"
      BY <1>0, <2>1, <2>3, NoData
    <3>2. CASE OpStream(c)'
      <4>1. pc'[c] = "done" /\ outcome'[c] = "ProtocolError"
        BY <1>0, <1>2, <2>3, <3>2, PlainMoves DEF OpStream, OpKinds
      <4>2. PhaseOf(c)' = "aborted" BY <3>2, <4>1, PhaseCasesNext
      <4> QED BY <2>1, <2>2, <3>1, <4>2, Aborts DEF Promise!Next
    <3>3. CASE ~OpStream(c)'
      <4>1. PhaseOf(c)' = "idle" BY <3>3, PhaseCasesNext
      <4>2. \A d \in Calls : ViewKept(d) BY <2>2, <3>1, <4>1 DEF ViewKept
      <4> QED BY <2>1, <4>2, Stutters
    <3> QED BY <3>2, <3>3
  <2>4. CASE pc[c] # "idle"
    <3>1. kind'[c] = kind[c]
      BY <1>0, <1>2, <2>4, PlainMoves
    <3>2. CASE ~OpStream(c)
      <4>1. ~OpStream(c)' BY <3>1, <3>2 DEF OpStream
      <4>2. \A d \in Calls : ViewKept(d) BY <2>2, <3>2, <4>1, Outside
      <4> QED BY <2>1, <4>2, Stutters
    <3>3. CASE OpStream(c)
      <4>1. pc[c] \notin {"idle", "done"} /\ pc'[c] \notin {"idle", "done"} /\ OpStream(c)'
        BY <1>0, <1>2, <2>4, <3>1, <3>3, PlainMoves DEF OpStream, OpKinds, Stages
      <4>2. PhaseOf(c) = "open" /\ PhaseOf(c)' = "open"
        BY <3>3, <4>1, PhaseCases, PhaseCasesNext
      <4>3. DataKept(c)
        BY <2>1, <3>1 DEF DataKept, Answered, Complete, TakenBy, OpStream, NameOf
      <4>4. \A d \in Calls : ViewKept(d) BY <2>2, <4>2, <4>3 DEF ViewKept
      <4> QED BY <2>1, <4>4, Stutters
    <3> QED BY <3>2, <3>3
  <2> QED BY <2>3, <2>4
<1>3. ASSUME NEW c \in Calls, EndStep(c) PROVE Promise!Next \/ UNCHANGED Promise!vars
  <2>1. (Ends(c) \/ GoesOn(c) \/ Closes(c)) /\ UNCHANGED <<kind, closedError, sent, srv>>
    BY <1>0, <1>3, EndEffect DEF EndStep, others
  <2>2. \A d \in Calls \ {c} : ViewKept(d)
    BY <1>0, <1>3, <2>1, EndData, Untouched
  <2>3. CASE ~OpStream(c)
    <3>1. ~OpStream(c)' BY <2>1, <2>3 DEF OpStream
    <3>2. \A d \in Calls : ViewKept(d) BY <2>2, <2>3, <3>1, Outside
    <3> QED BY <2>1, <3>2, Stutters
  <2>4. CASE OpStream(c) /\ Ends(c)
    <3>1. Live(c) /\ pc'[c] = "done" /\ OpStream(c)'
      BY <1>0, <2>1, <2>4 DEF Live, Ends, OpStream, TypeOK
    <3>2. PhaseOf(c) = "open"
      BY <2>4, <3>1, PhaseCases DEF Live, Active
    <3>3. CASE got'[c] = got[c] /\ outcome'[c] \notin {"ok", "ended"}
      <4>1. PhaseOf(c)' = "aborted" BY <3>1, <3>3, PhaseCasesNext
      <4>2. DataKept(c)
        BY <2>1, <3>3 DEF DataKept, Answered, Complete, TakenBy, OpStream, NameOf
      <4> QED BY <2>1, <2>2, <3>2, <4>1, <4>2, Aborts DEF Promise!Next
    <3>4. CASE Takes(c) /\ (outcome'[c] \in {"ok", "ended"} => Head(queue[c]).eos)
      <4>1. /\ PhaseOf(c)' \in {"open", "aborted", "returned"}
            /\ PhaseOf(c)' = "returned" => Head(queue[c]).eos
        BY <3>1, <3>4, PhaseCasesNext
      <4> QED BY <1>0, <2>1, <2>2, <3>1, <3>4, <4>1, TakesDelivers DEF Promise!Next
    <3> QED BY <1>0, <1>3, <2>4, <3>3, <3>4, EndOutcome
  <2>5. CASE OpStream(c) /\ GoesOn(c)
    <3>1. Live(c) /\ pc'[c] \in Active /\ OpStream(c)' /\ outcome'[c] = outcome[c]
      BY <1>0, <2>1, <2>5 DEF Live, GoesOn, OpStream, Active, TypeOK
    <3>2. PhaseOf(c) = "open" /\ PhaseOf(c)' = "open"
      BY <2>5, <3>1, PhaseCases, PhaseCasesNext DEF Live, Active
    <3>3. CASE got'[c] = got[c]
      <4>1. DataKept(c)
        BY <2>1, <3>3 DEF DataKept, Answered, Complete, TakenBy, OpStream, NameOf
      <4>2. \A d \in Calls : ViewKept(d) BY <2>2, <3>2, <4>1 DEF ViewKept
      <4> QED BY <2>1, <4>2, Stutters
    <3>4. CASE Takes(c)
      BY <1>0, <2>1, <2>2, <3>1, <3>2, <3>4, TakesDelivers DEF Promise!Next
    <3>5. Takes(c) \/ got'[c] = got[c]
      BY <1>0, <1>3, <2>5, <3>1, GoesOnEffect DEF Raises, Active
    <3> QED BY <3>3, <3>4, <3>5
  <2>6. CASE Closes(c)
    BY <2>3, <2>6 DEF Closes, OpStream, OpKinds
  <2> QED BY <2>1, <2>3, <2>4, <2>5, <2>6
<1>4. ASSUME NEW c \in Calls, AcloseFails(c) PROVE Promise!Next \/ UNCHANGED Promise!vars
  <2>1. /\ UNCHANGED <<kind, got, outcome, sent, srv>> /\ pc[c] = "close" /\ closedError' # "none"
        /\ \A d \in Calls \ {c} : pc'[d] = pc[d]
    BY <1>0, <1>4, FailEffect DEF AcloseFails, Errors, Goto, TypeOK
  <2>2. ~OpStream(c) /\ ~OpStream(c)'
    BY <1>0, <2>1 DEF Stages, OpStream, OpKinds
  <2>3. \A d \in Calls : ViewKept(d)
    BY <2>1, <2>2, Outside, Untouched
  <2> QED BY <2>1, <2>3, Fails DEF Promise!Next
<1>5. CASE ReaderEnds
  <2>1. UNCHANGED <<pc, kind, got, outcome, sent, srv>> /\ closedError' # "none"
    BY <1>0, <1>5, FailEffect DEF ReaderEnds, Errors
  <2>2. \A d \in Calls : ViewKept(d) BY <2>1, Untouched
  <2> QED BY <2>1, <2>2, Fails DEF Promise!Next
<1>6. CASE ReaderFrame
  <2>1. UNCHANGED <<pc, kind, got, outcome, sent, srv>> /\ (closedError' # "none" \/ closedError' = closedError)
    BY <1>0, <1>6, FailEffect DEF ReaderFrame, Errors
  <2>2. \A d \in Calls : ViewKept(d) BY <2>1, Untouched
  <2>3. CASE closedError' # "none" BY <2>2, <2>3, Fails DEF Promise!Next
  <2>4. CASE closedError' = closedError BY <2>2, <2>4, Stutters
  <2> QED BY <2>1, <2>3, <2>4
<1>7. CASE Pong \/ ServerPing \/ ServerCorrupts \/ PeerDrops \/ UNCHANGED vars
  <2>1. UNCHANGED <<pc, kind, got, outcome, sent, srv, closedError>>
    BY <1>7 DEF Pong, PongWrite, PongDone, ReaderCancelled, ServerPing, ServerCorrupts, PeerDrops, vars
  <2>2. \A d \in Calls : ViewKept(d) BY <2>1, Untouched
  <2> QED BY <2>1, <2>2, Stutters
<1>8. CASE ServerRecv
  <2>1. UNCHANGED <<pc, kind, got, outcome, sent, closedError>> /\ c2s # <<>>
        /\ (srv' = srv \/ (Head(c2s) \in Calls /\ srv' = [srv EXCEPT ![Head(c2s)] = "open"]))
    BY <1>8 DEF ServerRecv
  <2>2. Head(c2s) = c2s[1] /\ 1 \in DOMAIN c2s
    BY <1>0, <2>1, Popped DEF TypeOK
  <2>3. \A d \in Calls : srv'[d] = "finished" <=> srv[d] = "finished"
    BY <1>0, <2>1, <2>2 DEF Written, TypeOK
  <2>4. \A d \in Calls : ViewKept(d)
    BY <2>1, <2>3 DEF ViewKept, DataKept, PhaseOf, OpStream, Answered, Complete, TakenBy, NameOf
  <2> QED BY <2>1, <2>4, Stutters
<1>9. ASSUME NEW c \in Calls, ServerSend(c) PROVE Promise!Next \/ UNCHANGED Promise!vars
  <2>1. /\ UNCHANGED <<pc, kind, got, outcome, closedError>> /\ srv[c] = "open" /\ sent'[c] = sent[c] + 1
        /\ \A d \in Calls \ {c} : srv'[d] = srv[d] /\ sent'[d] = sent[d]
    BY <1>0, <1>9 DEF ServerSend, TypeOK
  <2>2. \A d \in Calls \ {c} : ViewKept(d)
    BY <2>1, Untouched
  <2>3. CASE ~OpStream(c)
    <3>1. ~OpStream(c)' BY <2>1, <2>3 DEF OpStream
    <3>2. \A d \in Calls : ViewKept(d) BY <2>2, <2>3, <3>1, Outside
    <3> QED BY <2>1, <3>2, Stutters
  <2>4. CASE OpStream(c)
    <3>1. pc[c] # "idle" BY <1>0, <2>1 DEF Written
    <3>2. PhaseOf(c) # "idle" /\ PhaseOf(c)' = PhaseOf(c)
      <4>1. PhaseOf(c)' = PhaseOf(c) BY <2>1 DEF PhaseOf, OpStream
      <4>2. PhaseOf(c) # "idle" BY <2>4, <3>1, PhaseCases
      <4> QED BY <4>1, <4>2
    <3>3. OpStream(c)' /\ TakenBy(c)' = TakenBy(c)
      BY <2>1, <2>4 DEF OpStream, TakenBy, NameOf
    <3>4. ~Complete(c) /\ Answered(c)' = Answered(c) + 1 /\ Complete(c)' \in BOOLEAN
      BY <2>1, <2>4, <3>3 DEF Complete, Answered
    <3> QED BY <2>1, <2>2, <3>2, <3>3, <3>4, AnswersCall DEF Promise!Next
  <2> QED BY <2>3, <2>4
<1> QED BY <1>1, <1>2, <1>3, <1>4, <1>5, <1>6, <1>7, <1>8, <1>9, Steps DEF ServerStep

(* The initial states agree.                                               *)
LEMMA InitImplements == Init => Promise!Init
<1> SUFFICES ASSUME Init PROVE Promise!Init
  OBVIOUS
<1>1. TypeOK /\ Stages /\ Written
  BY InitIInv DEF IInv
<1>2. ASSUME NEW c \in Calls
      PROVE  PhaseOf(c) = "idle" /\ TakenBy(c) = <<>> /\ Answered(c) = 0 /\ Complete(c) = FALSE
  <2>1. pc[c] = "idle" /\ got[c] = <<>> /\ sent[c] = 0 /\ srv[c] = "unseen"
    BY DEF Init
  <2> QED BY <1>1, <2>1, PhaseCases, TakenFacts DEF Answered, Complete
<1>3. closedError = "none"
  BY DEF Init
<1> QED BY <1>2, <1>3 DEF Promise!Init, Answered, Complete

(* The asyncio connection implements Demux: whatever tasks are cancelled,  *)
(* time out, answer late or fail, a call is handed its own answer in order *)
(* and without a gap, returns normally only with all of it, and is not     *)
(* opened on a connection that has failed.                                 *)
THEOREM ImplementsDemux == Spec => Implements
<1>1. Init => Promise!Init BY InitImplements
<1>2. IInv /\ [Next]_vars => [Promise!Next]_(Promise!vars) BY NextImplements
<1> QED BY <1>1, <1>2, Invariant, PTL DEF Spec, Implements, Promise!Spec
=============================================================================
