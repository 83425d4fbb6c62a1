---------------------------- MODULE MuxPyProofs ----------------------------
(***************************************************************************)
(* Proofs about the threaded Python connection, for every set of calls,    *)
(* every width of the stream id and every bound of the environment.        *)
(*                                                                         *)
(* The argument.  A frame bears the id of the call it answers (Tagged), a  *)
(* route bears the id of the call whose queue it names (RouteOwner), and   *)
(* until an id is issued twice no two calls on op streams share an id      *)
(* (SidUnique).  So the queue the reader finds is the queue of the call the*)
(* frame answers, even if the call deregisters between the look-up and the *)
(* put.  Because _register and _fail_all each decide and write in one      *)
(* critical section, a call past its registration is in the table exactly  *)
(* while the connection lives (Registered), and has the sentinel once it   *)
(* has failed (Woken).                                                     *)
(***************************************************************************)
EXTENDS MuxPy, SequenceTheorems, TLAPS

(* The sentinel and the control frames are frames. *)
LEMMA FrameFacts ==
  /\ \A error \in Errors : Closed(error) \in Frame
  /\ \A op \in FrameOps : Control(op) \in Frame
  /\ NoFrame \in Frame
BY StreamIdAssumption DEF Closed, Control, NoFrame, Frame, FrameOps, Errors, StreamIds

(* _fail_all keeps the types of the table. *)
LEMMA FailAllType ==
  ASSUME TypeTable, NEW error \in Errors, FailAll(error)
  PROVE  TypeTable' /\ rpc' = "dead"
BY FrameFacts DEF TypeTable, FailAll, Errors

(* A send keeps the type of the wire. *)
LEMMA TransmitType ==
  ASSUME c2s \in Seq(Part), NEW from \in Calls \cup {Reader}, NEW part \in {"head", "tail"},
         Transmit(from, part)
  PROVE  c2s' \in Seq(Part)
<1>1. [from |-> from, part |-> part] \in Part
  BY DEF Part
<1> QED
  BY <1>1, AppendProperties DEF Transmit

(* Taking the first item of a queue. *)
LEMMA QueueHead ==
  ASSUME TypeTable, NEW c \in Calls, queue[c] # <<>>
  PROVE  /\ Head(queue[c]) \in Frame
         /\ [queue EXCEPT ![c] = Tail(@)] \in [Calls -> Seq(Frame)]
BY HeadTailProperties DEF TypeTable

(* Collecting a frame. *)
LEMMA GotAppend ==
  ASSUME TypeCalls, NEW c \in Calls, NEW f \in Frame
  PROVE  [got EXCEPT ![c] = Append(@, f)] \in [Calls -> Seq(Frame)]
BY AppendProperties DEF TypeCalls

(* Splitting a sequence in two. *)
LEMMA SubSeqType ==
  ASSUME NEW S, NEW seq \in Seq(S), NEW n \in 1..Len(seq)
  PROVE  SubSeq(seq, 1, n) \in Seq(S) /\ SubSeq(seq, n + 1, Len(seq)) \in Seq(S)
BY SubSeqProperties, LenProperties

(* Every step keeps the types. *)
LEMMA TypeStep == TypeOK /\ [Next]_vars => TypeOK'
<1> SUFFICES ASSUME TypeOK, [Next]_vars PROVE TypeOK'
  OBVIOUS
<1> USE DEF TypeOK, callVars, tableVars, idVars, connVars, readerVars, serverVars, others, Goto, Result

<1>1. ASSUME NEW c \in Calls, TakeStreamId(c) PROVE TypeOK'
  <2>1. TypeCalls'
    BY <1>1 DEF TakeStreamId, TypeCalls, TypeConnection, PCs, AllKinds, StreamIds
  <2>2. TypeConnection'
    BY <1>1, StreamIdAssumption DEF TakeStreamId, TypeConnection, Advance
  <2> QED
    BY <1>1, <2>1, <2>2 DEF TakeStreamId, TypeTable, TypeReader, TypeServer
<1>2. ASSUME NEW c \in Calls, StartPing(c) PROVE TypeOK'
  <2>1. TypeCalls'
    BY <1>2, StreamIdAssumption DEF StartPing, TypeCalls, PCs, AllKinds, StreamIds, HANDSHAKE_STREAM_ID
  <2> QED
    BY <1>2, <2>1 DEF StartPing, TypeTable, TypeConnection, TypeReader, TypeServer
<1>3. ASSUME NEW c \in Calls, StartClose(c) PROVE TypeOK'
  <2>1. TypeCalls'
    BY <1>3 DEF StartClose, TypeCalls, PCs, AllKinds
  <2> QED
    BY <1>3, <2>1 DEF StartClose, TypeTable, TypeConnection, TypeReader, TypeServer
<1>4. ASSUME NEW c \in Calls, Register(c) PROVE TypeOK'
  <2>1. TypeCalls'
    BY <1>4, ZenonT(30) DEF Register, TypeCalls, TypeTable, PCs, Outcomes
  <2>2. TypeTable'
    BY <1>4 DEF Register, TypeTable, TypeCalls
  <2> QED
    BY <1>4, <2>1, <2>2 DEF Register, TypeConnection, TypeReader, TypeServer
<1>5. ASSUME NEW c \in Calls, WriteTooLarge(c) PROVE TypeOK'
  <2>1. TypeCalls'
    BY <1>5 DEF WriteTooLarge, TypeCalls, PCs, WriteRaises, Outcomes
  <2> QED
    BY <1>5, <2>1 DEF WriteTooLarge, TypeTable, TypeConnection, TypeReader, TypeServer
<1>6. ASSUME NEW c \in Calls, LockWrite(c) PROVE TypeOK'
  <2>1. TypeCalls'
    BY <1>6 DEF LockWrite, TypeCalls, PCs
  <2>2. TypeConnection'
    BY <1>6 DEF LockWrite, TypeConnection
  <2> QED
    BY <1>6, <2>1, <2>2 DEF LockWrite, TypeTable, TypeReader, TypeServer
<1>7. ASSUME NEW c \in Calls, SendHead(c) PROVE TypeOK'
  <2>1. TypeCalls'
    BY <1>7 DEF SendHead, TypeCalls, PCs
  <2>2. TypeServer'
    BY <1>7, TransmitType DEF SendHead, TypeServer
  <2> QED
    BY <1>7, <2>1, <2>2 DEF SendHead, TypeTable, TypeConnection, TypeReader
<1>8. ASSUME NEW c \in Calls, SendTail(c) PROVE TypeOK'
  <2>1. TypeCalls'
    BY <1>8 DEF SendTail, TypeCalls, PCs
  <2>2. TypeServer'
    BY <1>8, TransmitType DEF SendTail, TypeServer
  <2>3. TypeConnection'
    BY <1>8 DEF SendTail, TypeConnection
  <2> QED
    BY <1>8, <2>1, <2>2, <2>3 DEF SendTail, TypeTable, TypeReader
<1>9. ASSUME NEW c \in Calls, SendRaises(c) PROVE TypeOK'
  <2>1. TypeCalls'
    BY <1>9 DEF SendRaises, TypeCalls, PCs, WriteRaises, Outcomes, Errors
  <2>2. TypeConnection'
    BY <1>9 DEF SendRaises, TypeConnection
  <2> QED
    BY <1>9, <2>1, <2>2 DEF SendRaises, TypeTable, TypeReader, TypeServer
<1>10. ASSUME NEW c \in Calls, TakeFrame(c) PROVE TypeOK'
  <2>1. TypeCalls'
    <3> DEFINE f == Head(queue[c])
    <3>1. f \in Frame
      BY <1>10, QueueHead DEF TakeFrame
    <3>2. got' \in [Calls -> Seq(Frame)]
      <4>1. got' = got \/ got' = [got EXCEPT ![c] = Append(@, f)]
        BY <1>10 DEF TakeFrame
      <4>2. [got EXCEPT ![c] = Append(@, f)] \in [Calls -> Seq(Frame)]
        BY <3>1, GotAppend
      <4> QED
        BY <4>1, <4>2 DEF TypeCalls
    <3>3. pc' \in [Calls -> PCs]
      BY <1>10 DEF TakeFrame, TypeCalls, PCs
    <3>4. outcome' \in [Calls -> Outcomes]
      BY <1>10 DEF TakeFrame, TypeCalls, Outcomes, FinalResult
    <3> QED
      BY <1>10, <3>2, <3>3, <3>4 DEF TakeFrame, TypeCalls
  <2>2. TypeTable'
    BY <1>10 DEF TakeFrame, TypeTable
  <2> QED
    BY <1>10, <2>1, <2>2 DEF TakeFrame, TypeConnection, TypeReader, TypeServer
<1>11. ASSUME NEW c \in Calls, Timeout(c) PROVE TypeOK'
  <2>1. TypeCalls'
    BY <1>11 DEF Timeout, TypeCalls, PCs, Outcomes
  <2> QED
    BY <1>11, <2>1 DEF Timeout, TypeTable, TypeConnection, TypeReader, TypeServer
<1>12. ASSUME NEW c \in Calls, Deregister(c) PROVE TypeOK'
  <2>1. TypeCalls'
    BY <1>12 DEF Deregister, TypeCalls, PCs
  <2>2. TypeTable'
    BY <1>12 DEF Deregister, TypeTable
  <2> QED
    BY <1>12, <2>1, <2>2 DEF Deregister, TypeConnection, TypeReader, TypeServer
<1>13. ASSUME NEW c \in Calls, NextStart(c) PROVE TypeOK'
  <2>1. TypeCalls'
    BY <1>13 DEF NextStart, TypeCalls, PCs
  <2> QED
    BY <1>13, <2>1 DEF NextStart, TypeTable, TypeConnection, TypeReader, TypeServer
<1>14. ASSUME NEW c \in Calls, NextItem(c) PROVE TypeOK'
  <2>1. TypeCalls'
    <3> DEFINE f == Head(queue[c])
    <3>1. f \in Frame
      BY <1>14, QueueHead DEF NextItem
    <3>2. got' \in [Calls -> Seq(Frame)]
      <4>1. got' = got \/ got' = [got EXCEPT ![c] = Append(@, f)]
        BY <1>14 DEF NextItem
      <4>2. [got EXCEPT ![c] = Append(@, f)] \in [Calls -> Seq(Frame)]
        BY <3>1, GotAppend
      <4> QED
        BY <4>1, <4>2 DEF TypeCalls
    <3>3. pc' \in [Calls -> PCs]
      BY <1>14 DEF NextItem, TypeCalls, PCs
    <3>4. outcome' \in [Calls -> Outcomes]
      BY <1>14 DEF NextItem, TypeCalls, Outcomes
    <3> QED
      BY <1>14, <3>2, <3>3, <3>4 DEF NextItem, TypeCalls
  <2>2. TypeTable'
    BY <1>14, QueueHead DEF NextItem, TypeTable
  <2> QED
    BY <1>14, <2>1, <2>2 DEF NextItem, TypeConnection, TypeReader, TypeServer
<1>15. ASSUME NEW c \in Calls, SubClose(c) PROVE TypeOK'
  <2>1. TypeCalls'
    BY <1>15 DEF SubClose, TypeCalls, PCs
  <2> QED
    BY <1>15, <2>1 DEF SubClose, TypeTable, TypeConnection, TypeReader, TypeServer
<1>16. ASSUME NEW c \in Calls, Close(c) PROVE TypeOK'
  <2>1. TypeCalls'
    BY <1>16 DEF Close, TypeCalls, PCs
  <2>2. TypeConnection'
    BY <1>16 DEF Close, TypeConnection
  <2> QED
    BY <1>16, <2>1, <2>2 DEF Close, TypeTable, TypeReader, TypeServer
<1>17. ASSUME NEW c \in Calls, ServerSend(c) PROVE TypeOK'
  <2>1. TypeServer'
    BY <1>17 DEF ServerSend, TypeServer, TypeCalls, Frame, FrameOps
  <2> QED
    BY <1>17, <2>1 DEF ServerSend, TypeCalls, TypeTable, TypeConnection, TypeReader
<1>18. CASE ReaderNeedsBytes
  <2>1. (TypeTable /\ TypeReader)'
    BY <1>18, FailAllType DEF ReaderNeedsBytes, TypeTable, TypeReader, Errors
  <2> QED
    BY <1>18, <2>1 DEF ReaderNeedsBytes, TypeCalls, TypeConnection, TypeServer
<1>19. CASE ReaderRecv
  <2>1. CASE \E n \in 1..Len(s2c) : /\ buf' = SubSeq(s2c, 1, n)
                                   /\ s2c' = SubSeq(s2c, n + 1, Len(s2c))
                                   /\ rpc' = "loop" /\ UNCHANGED tableVars
    <3>1. buf' \in Seq(Frame) /\ s2c' \in Seq(Frame)
      BY <2>1, SubSeqType DEF TypeServer
    <3> QED
      BY <1>19, <2>1, <3>1 DEF ReaderRecv, TypeCalls, TypeTable, TypeConnection, TypeReader, TypeServer
  <2>2. CASE UNCHANGED <<buf, s2c>> /\ \E error \in Errors : FailAll(error)
    BY <1>19, <2>2, FailAllType DEF ReaderRecv, TypeCalls, TypeConnection, TypeReader, TypeServer
  <2> QED
    BY <1>19, <2>1, <2>2 DEF ReaderRecv, Errors
<1>20. CASE ReaderDecode
  <2>1. Head(buf) \in Frame /\ buf' \in Seq(Frame)
    BY <1>20, HeadTailProperties DEF ReaderDecode, TypeReader
  <2>2. Head(buf).sid \in StreamIds
    BY <2>1 DEF Frame
  <2>3. TypeTable'
    BY <1>20, FailAllType DEF ReaderDecode, TypeTable, Errors
  <2>4. TypeReader'
    BY <1>20, <2>1, <2>2, FailAllType DEF ReaderDecode, TypeReader, TypeTable, Errors
  <2> QED
    BY <1>20, <2>3, <2>4 DEF ReaderDecode, TypeCalls, TypeConnection, TypeServer
<1>21. CASE ReaderPut
  <2>1. TypeTable'
    BY <1>21 DEF ReaderPut, TypeTable, TypeReader
  <2>2. TypeReader'
    BY <1>21, FrameFacts DEF ReaderPut, TypeReader
  <2> QED
    BY <1>21, <2>1, <2>2 DEF ReaderPut, TypeCalls, TypeConnection, TypeServer
<1>22. CASE ReaderLockWrite
  <2>1. TypeReader'
    BY <1>22 DEF ReaderLockWrite, TypeReader
  <2>2. TypeConnection'
    BY <1>22 DEF ReaderLockWrite, TypeConnection
  <2> QED
    BY <1>22, <2>1, <2>2 DEF ReaderLockWrite, TypeCalls, TypeTable, TypeServer
<1>23. CASE ReaderSendHead
  <2>1. TypeReader'
    BY <1>23 DEF ReaderSendHead, TypeReader
  <2>2. TypeServer'
    BY <1>23, TransmitType DEF ReaderSendHead, TypeServer
  <2> QED
    BY <1>23, <2>1, <2>2 DEF ReaderSendHead, TypeCalls, TypeTable, TypeConnection
<1>24. CASE ReaderSendTail
  <2>1. TypeReader'
    BY <1>24 DEF ReaderSendTail, TypeReader
  <2>2. TypeServer'
    BY <1>24, TransmitType DEF ReaderSendTail, TypeServer
  <2>3. TypeConnection'
    BY <1>24 DEF ReaderSendTail, TypeConnection
  <2> QED
    BY <1>24, <2>1, <2>2, <2>3 DEF ReaderSendTail, TypeCalls, TypeTable
<1>25. CASE ReaderSendRaises
  <2>1. TypeReader'
    BY <1>25 DEF ReaderSendRaises, TypeReader
  <2>2. TypeConnection'
    BY <1>25 DEF ReaderSendRaises, TypeConnection
  <2> QED
    BY <1>25, <2>1, <2>2 DEF ReaderSendRaises, TypeCalls, TypeTable, TypeServer
<1>26. CASE ServerRecv
  <2>1. TypeServer'
    BY <1>26 DEF ServerRecv, TypeServer
  <2> QED
    BY <1>26, <2>1 DEF ServerRecv, TypeCalls, TypeTable, TypeConnection, TypeReader
<1>27. CASE ServerPing
  <2>1. TypeServer'
    BY <1>27, FrameFacts DEF ServerPing, TypeServer, FrameOps
  <2> QED
    BY <1>27, <2>1 DEF ServerPing, TypeCalls, TypeTable, TypeConnection, TypeReader
<1>28. CASE ServerCorrupts
  <2>1. TypeServer'
    BY <1>28, FrameFacts DEF ServerCorrupts, TypeServer, FrameOps
  <2> QED
    BY <1>28, <2>1 DEF ServerCorrupts, TypeCalls, TypeTable, TypeConnection, TypeReader
<1>29. CASE PeerDrops
  <2>1. TypeServer'
    BY <1>29 DEF PeerDrops, TypeServer
  <2> QED
    BY <1>29, <2>1 DEF PeerDrops, TypeCalls, TypeTable, TypeConnection, TypeReader
<1>30. CASE UNCHANGED vars
  BY <1>30 DEF vars, TypeCalls, TypeTable, TypeConnection, TypeReader, TypeServer
<1> QED
  BY <1>1, <1>2, <1>3, <1>4, <1>5, <1>6, <1>7, <1>8, <1>9, <1>10, <1>11, <1>12, <1>13, <1>14, <1>15, <1>16, <1>17, <1>18, <1>19, <1>20, <1>21, <1>22, <1>23, <1>24, <1>25, <1>26, <1>27, <1>28, <1>29, <1>30 DEF Next, CallStep, ReaderStep, Environment

(* The types hold initially. *)
LEMMA TypeInit == Init => TypeOK
<1> SUFFICES ASSUME Init PROVE TypeOK
  OBVIOUS
<1>1. TypeCalls
  BY StreamIdAssumption
  DEF Init, TypeCalls, PCs, AllKinds, StreamIds, Outcomes, HANDSHAKE_STREAM_ID
<1>2. TypeTable
  BY DEF Init, TypeTable
<1>3. TypeConnection
  <2>1. hasTimeout \in BOOLEAN /\ sockOpen \in BOOLEAN /\ reused \in BOOLEAN
    BY BoundsAssumption, Zenon DEF Init
  <2>2. nextId \in 1..MaxStreamId /\ nextId % 2 = 1
    BY StreamIdAssumption DEF Init
  <2> QED
    BY <2>1, <2>2, Zenon DEF Init, TypeConnection
<1>4. TypeReader
  BY FrameFacts DEF Init, TypeReader
<1>5. TypeServer
  BY DEF Init, TypeServer
<1> QED
  BY <1>1, <1>2, <1>3, <1>4, <1>5 DEF TypeOK

(* Every variable stays in its domain, for every set of calls and every    *)
(* width of the stream id (TypeOK; _take_stream_id, _reader_loop).         *)
THEOREM TypeCorrect == Spec => []TypeOK
BY TypeInit, TypeStep, PTL DEF Spec

-----------------------------------------------------------------------------
(* The inductive invariant.                                                *)

Live == {"write", "send1", "send2", "wait", "open", "next", "drop"}

(* Only op streams have a non-zero id, and, until an id is issued twice,   *)
(* two calls never share one.                                              *)
SidShape == \A c \in Calls : sid[c] = 0 <=> (pc[c] = "idle" \/ ~OpStream(c))
SidUnique == ~reused => \A c, d \in Calls : sid[c] = sid[d] /\ sid[c] # 0 => c = d

(* A route names the id of a call between its register and its clean-up.   *)
RouteOwner ==
  \A s \in StreamIds : routes[s] # NoCall =>
    sid[routes[s]] = s /\ pc[routes[s]] \in Live /\ kind[routes[s]] # "close"

RegisterKind == \A c \in Calls : pc[c] = "register" => kind[c] # "close"

(* The server knows only calls that have started.                          *)
ServerSeen ==
  /\ \A c \in Calls : srv[c] # "unseen" => pc[c] # "idle"
  /\ \A i \in DOMAIN c2s : c2s[i].from \in Calls => pc[c2s[i].from] # "idle"

(* A frame bears the stream id of the call it answers, on the wire, in the *)
(* buffer and in the reader's hand.                                        *)
Tagged(f) ==
  /\ f.of \in Calls => f.sid = sid[f.of] /\ pc[f.of] # "idle"
  /\ f.of \notin Calls => f.op \in {"SERVER_PING", "BAD"}
WireTagged == \A i \in DOMAIN s2c : Tagged(s2c[i])
BufTagged == \A i \in DOMAIN buf : Tagged(buf[i])
HandTagged ==
  rpc = "put" => /\ rFrame.of \in Calls /\ rFrame.sid = sid[rFrame.of] /\ pc[rFrame.of] # "idle"
                 /\ rFrame.sid = sid[rTo] /\ pc[rTo] # "idle"

(* Queues and results hold the call's own frames, and sentinels.           *)
QueueOwn ==
  /\ \A c \in Calls : pc[c] = "idle" => queue[c] = <<>>
  /\ ~reused => \A c \in Calls : sid[c] # 0 =>
       \A i \in DOMAIN queue[c] : queue[c][i].op \in Errors \/ queue[c][i].of = c
GotOwn ==
  /\ \A c \in Calls : pc[c] = "idle" => got[c] = <<>>
  /\ ~reused => \A c \in Calls : sid[c] # 0 => \A i \in DOMAIN got[c] : got[c][i].of = c

(* While the connection lives, a live call is registered under its id;     *)
(* once it has failed, the call has the sentinel.                          *)
Failed == closedError = "none" <=> rpc # "dead"
Registered ==
  ~reused /\ closedError = "none" => \A c \in Calls :
    sid[c] # 0 /\ pc[c] \in Live \ {"drop"} => routes[sid[c]] = c
Awaits(c) ==
  \/ pc[c] \in {"write", "send1", "send2", "wait"}
  \/ pc[c] \in {"open", "next"} /\ closedError = "ConnectionClosed"
Woken ==
  ~reused /\ closedError # "none" => \A c \in Calls : sid[c] # 0 /\ Awaits(c) =>
    \E i \in DOMAIN queue[c] : queue[c][i].op = closedError

IInv ==
  /\ TypeOK /\ SidShape /\ SidUnique /\ RouteOwner /\ RegisterKind /\ ServerSeen
  /\ WireTagged /\ BufTagged /\ HandTagged /\ QueueOwn /\ GotOwn
  /\ Failed /\ FailedTableEmpty /\ Registered /\ Woken

-----------------------------------------------------------------------------
(* Who writes what.                                                        *)

ReaderFails == UNCHANGED <<callVars, idVars>> /\ \E error \in Errors : FailAll(error)

(* For each variable, the actions that write it. *)
LEMMA Writers ==
  ASSUME [Next]_vars
  PROVE  /\ \/ UNCHANGED <<sid, kind, reused>>
            \/ \E c \in Calls : TakeStreamId(c) \/ StartPing(c) \/ StartClose(c)
         /\ \/ UNCHANGED <<routes, closedError>>
            \/ \E c \in Calls : Register(c) \/ Deregister(c)
            \/ ReaderFails
         /\ \/ UNCHANGED queue
            \/ \E c \in Calls : TakeFrame(c) \/ NextItem(c)
            \/ ReaderPut
            \/ ReaderFails
         /\ \/ UNCHANGED got
            \/ \E c \in Calls : TakeFrame(c) \/ NextItem(c)
         /\ \/ UNCHANGED srv
            \/ ServerRecv \/ \E c \in Calls : ServerSend(c)
         /\ \/ UNCHANGED s2c
            \/ ReaderRecv \/ ServerPing \/ ServerCorrupts \/ \E c \in Calls : ServerSend(c)
         /\ UNCHANGED buf \/ ReaderRecv \/ ReaderDecode
<1> USE DEF callVars, tableVars, idVars, connVars, readerVars, serverVars, others, Errors, ReaderFails
<1>1. CASE \E c \in Calls : CallStep(c)
  BY <1>1, SMTT(30) DEF CallStep, TakeStreamId, StartPing, StartClose, Register, WriteTooLarge, LockWrite,
     SendHead, SendTail, SendRaises, TakeFrame, Timeout, Deregister, NextStart, NextItem, SubClose,
     Close
<1>2. CASE ReaderStep
  BY <1>2 DEF ReaderStep, ReaderNeedsBytes, ReaderRecv, ReaderDecode, ReaderPut, ReaderLockWrite,
     ReaderSendHead, ReaderSendTail, ReaderSendRaises
<1>3. CASE Environment
  BY <1>3 DEF Environment, ServerRecv, ServerSend, ServerPing, ServerCorrupts, PeerDrops
<1>4. CASE UNCHANGED vars
  BY <1>4 DEF vars
<1> QED
  BY <1>1, <1>2, <1>3, <1>4 DEF Next

(* A call that has started keeps its id and its kind; only the three start
   actions make a call leave "idle"; and reused is never reset. *)
LEMMA Started ==
  ASSUME TypeOK, [Next]_vars, NEW d \in Calls
  PROVE  /\ pc[d] # "idle" => pc'[d] # "idle" /\ sid'[d] = sid[d] /\ kind'[d] = kind[d]
         /\ pc'[d] = "idle" => sid'[d] = sid[d] /\ kind'[d] = kind[d]
         /\ pc[d] = "idle" /\ pc'[d] # "idle" => TakeStreamId(d) \/ StartPing(d) \/ StartClose(d)
         /\ pc'[d] = "register" => pc[d] = "register" \/ TakeStreamId(d) \/ StartPing(d)
         /\ reused => reused'
<1> USE DEF TypeOK, TypeCalls, callVars, tableVars, idVars, connVars, readerVars, serverVars, others, Goto
<1>1. CASE \E c \in Calls : CallStep(c)
  <2> PICK c \in Calls : CallStep(c)
    BY <1>1
  <2>1. CASE TakeStreamId(c) \/ StartPing(c) \/ StartClose(c)
    <3>1. reused => reused'
      BY <2>1, Zenon DEF TakeStreamId, StartPing, StartClose
    <3> QED
      BY <2>1, <3>1 DEF TakeStreamId, StartPing, StartClose
  <2>2. CASE WriteTooLarge(c) \/ LockWrite(c) \/ SendHead(c) \/ SendTail(c) \/ SendRaises(c)
    BY <2>2 DEF WriteTooLarge, LockWrite, SendHead, SendTail, SendRaises, WriteRaises
  <2>3. CASE TakeFrame(c) \/ Timeout(c) \/ NextItem(c) \/ Register(c)
    BY <2>3 DEF TakeFrame, Timeout, NextItem, Register
  <2>4. CASE Deregister(c) \/ NextStart(c) \/ SubClose(c) \/ Close(c)
    BY <2>4 DEF Deregister, NextStart, SubClose, Close
  <2> QED
    BY <2>1, <2>2, <2>3, <2>4 DEF CallStep
<1>2. CASE ReaderStep
  BY <1>2 DEF ReaderStep, ReaderNeedsBytes, ReaderRecv, ReaderDecode, ReaderPut, ReaderLockWrite,
     ReaderSendHead, ReaderSendTail, ReaderSendRaises
<1>3. CASE Environment
  BY <1>3 DEF Environment, ServerRecv, ServerSend, ServerPing, ServerCorrupts, PeerDrops
<1>4. CASE UNCHANGED vars
  BY <1>4 DEF vars
<1> QED
  BY <1>1, <1>2, <1>3, <1>4 DEF Next

(* Who puts bytes on the wire to the server, or takes them off it. *)
LEMMA WireWriters ==
  ASSUME TypeOK, [Next]_vars
  PROVE  \/ UNCHANGED c2s
         \/ c2s' = <<>>
         \/ ServerRecv
         \/ \E e \in Calls, part \in {"head", "tail"} : Transmit(e, part) /\ pc'[e] # "idle"
         \/ \E part \in {"head", "tail"} : Transmit(Reader, part)
<1> USE DEF TypeOK, TypeCalls, callVars, tableVars, idVars, connVars, readerVars, serverVars, others, Goto
<1>1. CASE \E c \in Calls : CallStep(c)
  BY <1>1 DEF CallStep, TakeStreamId, StartPing, StartClose, Register, WriteTooLarge, LockWrite,
     SendHead, SendTail, SendRaises, TakeFrame, Timeout, Deregister, NextStart, NextItem, SubClose,
     Close
<1>2. CASE ReaderStep
  BY <1>2 DEF ReaderStep, ReaderNeedsBytes, ReaderRecv, ReaderDecode, ReaderPut, ReaderLockWrite,
     ReaderSendHead, ReaderSendTail, ReaderSendRaises
<1>3. CASE Environment
  BY <1>3 DEF Environment, ServerRecv, ServerSend, ServerPing, ServerCorrupts, PeerDrops
<1>4. CASE UNCHANGED vars
  BY <1>4 DEF vars
<1> QED
  BY <1>1, <1>2, <1>3, <1>4 DEF Next

(* Where the frame in the reader's hand comes from. *)
LEMMA HandWriters ==
  ASSUME TypeOK, [Next]_vars, rpc' = "put"
  PROVE  ReaderDecode \/ (rpc = "put" /\ UNCHANGED <<rFrame, rTo>>)
<1> USE DEF callVars, tableVars, idVars, connVars, readerVars, serverVars, others, FailAll
<1>1. CASE \E c \in Calls : CallStep(c)
  BY <1>1 DEF CallStep, TakeStreamId, StartPing, StartClose, Register, WriteTooLarge, LockWrite,
     SendHead, SendTail, SendRaises, TakeFrame, Timeout, Deregister, NextStart, NextItem, SubClose,
     Close
<1>2. CASE ReaderStep
  BY <1>2 DEF ReaderStep, ReaderNeedsBytes, ReaderRecv, ReaderPut, ReaderLockWrite,
     ReaderSendHead, ReaderSendTail, ReaderSendRaises
<1>3. CASE Environment
  BY <1>3 DEF Environment, ServerRecv, ServerSend, ServerPing, ServerCorrupts, PeerDrops
<1>4. CASE UNCHANGED vars
  BY <1>4 DEF vars
<1> QED
  BY <1>1, <1>2, <1>3, <1>4 DEF Next

(* The reader ends exactly when it fails the connection. *)
LEMMA DeadWriters ==
  ASSUME TypeOK, [Next]_vars
  PROVE  rpc' = "dead" <=> (rpc = "dead" \/ ReaderFails)
<1> USE DEF callVars, tableVars, idVars, connVars, readerVars, serverVars, others, FailAll, ReaderFails,
        Errors
<1>1. CASE \E c \in Calls : CallStep(c)
  BY <1>1 DEF CallStep, TakeStreamId, StartPing, StartClose, Register, WriteTooLarge, LockWrite,
     SendHead, SendTail, SendRaises, TakeFrame, Timeout, Deregister, NextStart, NextItem, SubClose,
     Close
<1>2. CASE ReaderStep
  BY <1>2 DEF ReaderStep, ReaderNeedsBytes, ReaderRecv, ReaderDecode, ReaderPut, ReaderLockWrite,
     ReaderSendHead, ReaderSendTail, ReaderSendRaises
<1>3. CASE Environment
  BY <1>3 DEF Environment, ServerRecv, ServerSend, ServerPing, ServerCorrupts, PeerDrops
<1>4. CASE UNCHANGED vars
  BY <1>4 DEF vars
<1> QED
  BY <1>1, <1>2, <1>3, <1>4 DEF Next

(* How a call enters and leaves the span between register and clean-up. *)
LEMMA Moves ==
  ASSUME TypeOK, [Next]_vars, NEW d \in Calls
  PROVE  /\ pc[d] \in Live /\ kind[d] # "close" /\ pc'[d] \notin Live => Deregister(d)
         /\ pc'[d] \in Live \ {"drop"} /\ kind'[d] # "close" =>
              \/ pc[d] \in Live \ {"drop"}
              \/ Register(d) /\ closedError = "none"
         /\ Awaits(d)' /\ kind'[d] # "close" /\ closedError' = closedError =>
              Awaits(d) \/ (Register(d) /\ closedError = "none")
<1> USE DEF TypeOK, TypeCalls, callVars, tableVars, idVars, connVars, readerVars, serverVars, others, Goto,
        Live, Awaits
<1>1. CASE \E c \in Calls : CallStep(c)
  <2> PICK c \in Calls : CallStep(c)
    BY <1>1
  <2>1. CASE TakeStreamId(c) \/ StartPing(c) \/ StartClose(c) \/ Register(c)
    BY <2>1 DEF TakeStreamId, StartPing, StartClose, Register
  <2>2. CASE WriteTooLarge(c) \/ LockWrite(c) \/ SendHead(c) \/ SendTail(c) \/ SendRaises(c)
    BY <2>2 DEF WriteTooLarge, LockWrite, SendHead, SendTail, SendRaises, WriteRaises
  <2>3. CASE TakeFrame(c) \/ Timeout(c) \/ NextItem(c)
    BY <2>3 DEF TakeFrame, Timeout, NextItem
  <2>4. CASE Deregister(c) \/ NextStart(c) \/ SubClose(c) \/ Close(c)
    BY <2>4 DEF Deregister, NextStart, SubClose, Close
  <2> QED
    BY <2>1, <2>2, <2>3, <2>4 DEF CallStep
<1>2. CASE ReaderStep
  BY <1>2 DEF ReaderStep, ReaderNeedsBytes, ReaderRecv, ReaderDecode, ReaderPut, ReaderLockWrite,
     ReaderSendHead, ReaderSendTail, ReaderSendRaises
<1>3. CASE Environment
  BY <1>3 DEF Environment, ServerRecv, ServerSend, ServerPing, ServerCorrupts, PeerDrops
<1>4. CASE UNCHANGED vars
  BY <1>4 DEF vars
<1> QED
  BY <1>1, <1>2, <1>3, <1>4 DEF Next

-----------------------------------------------------------------------------
(* Each part of the inductive invariant is preserved.                      *)

(* SidShape is preserved. *)
LEMMA SidShapeStep ==
  ASSUME IInv, [Next]_vars
  PROVE  SidShape'
<1> SUFFICES ASSUME NEW d \in Calls
             PROVE  (sid[d] = 0 <=> (pc[d] = "idle" \/ ~OpStream(d)))'
  BY DEF SidShape
<1>1. CASE pc[d] # "idle" \/ pc'[d] = "idle"
  BY <1>1, Started DEF IInv, SidShape, OpStream
<1>2. CASE TakeStreamId(d)
  BY <1>2 DEF IInv, TypeOK, TypeCalls, TypeConnection, TakeStreamId, OpStream, Goto
<1>3. CASE StartPing(d) \/ StartClose(d)
  BY <1>3 DEF IInv, SidShape, TypeOK, TypeCalls, StartPing, StartClose, OpStream, HANDSHAKE_STREAM_ID
<1> QED
  BY <1>1, <1>2, <1>3, Started DEF IInv

(* SidUnique is preserved. *)
LEMMA SidUniqueStep ==
  ASSUME IInv, [Next]_vars
  PROVE  SidUnique'
<1>1. CASE UNCHANGED <<sid, kind, reused>>
  BY <1>1 DEF IInv, SidUnique
<1>2. ASSUME NEW e \in Calls, TakeStreamId(e) PROVE SidUnique'
  BY <1>2 DEF IInv, TypeOK, TypeCalls, SidUnique, TakeStreamId
<1>3. ASSUME NEW e \in Calls, StartPing(e) \/ StartClose(e) PROVE SidUnique'
  BY <1>3 DEF IInv, TypeOK, TypeCalls, SidUnique, StartPing, StartClose, HANDSHAKE_STREAM_ID, idVars
<1> QED
  BY <1>1, <1>2, <1>3, Writers

(* RegisterKind is preserved. *)
LEMMA RegisterKindStep ==
  ASSUME IInv, [Next]_vars
  PROVE  RegisterKind'
<1> SUFFICES ASSUME NEW d \in Calls, pc'[d] = "register" PROVE kind'[d] # "close"
  BY DEF RegisterKind
<1>1. CASE pc[d] = "register"
  BY <1>1, Started DEF IInv, RegisterKind
<1>2. CASE TakeStreamId(d) \/ StartPing(d)
  BY <1>2 DEF TakeStreamId, StartPing, IInv, TypeOK, TypeCalls
<1> QED
  BY <1>1, <1>2, Started DEF IInv

(* RouteOwner is preserved. *)
LEMMA RouteOwnerStep ==
  ASSUME IInv, [Next]_vars
  PROVE  RouteOwner'
<1> SUFFICES ASSUME NEW s \in StreamIds, routes'[s] # NoCall
             PROVE  /\ sid'[routes'[s]] = s /\ pc'[routes'[s]] \in Live
                    /\ kind'[routes'[s]] # "close"
  BY DEF RouteOwner
<1>1. CASE routes'[s] = routes[s]
  <2> DEFINE d == routes[s]
  <2>1. d \in Calls /\ sid[d] = s /\ pc[d] \in Live /\ kind[d] # "close"
    BY <1>1 DEF IInv, RouteOwner, TypeOK, TypeTable
  <2>2. ~Deregister(d)
    BY <1>1, <2>1 DEF Deregister, IInv, TypeOK, TypeTable
  <2> QED
    BY <1>1, <2>1, <2>2, Started, Moves DEF IInv, Live
<1>2. ASSUME NEW e \in Calls, Register(e), routes'[s] # routes[s]
      PROVE  /\ sid'[routes'[s]] = s /\ pc'[routes'[s]] \in Live
             /\ kind'[routes'[s]] # "close"
  BY <1>2 DEF Register, IInv, RegisterKind, TypeOK, TypeCalls, TypeTable, Live, Goto
<1>3. ASSUME NEW e \in Calls, Deregister(e) PROVE routes'[s] = routes[s]
  BY <1>3 DEF Deregister, IInv, TypeOK, TypeCalls, TypeTable
<1>4. ASSUME ReaderFails PROVE FALSE
  BY <1>4 DEF ReaderFails, FailAll
<1> QED
  BY <1>1, <1>2, <1>3, <1>4, Writers

(* ServerSeen is preserved. *)
LEMMA ServerSeenStep ==
  ASSUME IInv, [Next]_vars
  PROVE  ServerSeen'
<1>1. ASSUME NEW d \in Calls, srv'[d] # "unseen" PROVE pc'[d] # "idle"
  <2>1. CASE UNCHANGED srv
    BY <1>1, <2>1, Started DEF IInv, ServerSeen
  <2>2. CASE ServerRecv
    <3>1. srv[d] # "unseen" \/ (1 \in DOMAIN c2s /\ c2s[1].from = d)
      BY <1>1, <2>2 DEF ServerRecv, IInv, TypeOK, TypeServer
    <3> QED
      BY <3>1, Started DEF IInv, ServerSeen
  <2>3. ASSUME NEW e \in Calls, ServerSend(e) PROVE pc'[d] # "idle"
    <3>1. srv[d] # "unseen"
      BY <1>1, <2>3 DEF ServerSend, IInv, TypeOK, TypeServer
    <3> QED
      BY <3>1, Started DEF IInv, ServerSeen
  <2> QED
    BY <2>1, <2>2, <2>3, Writers
<1>2. ASSUME NEW i \in DOMAIN c2s', c2s'[i].from \in Calls PROVE pc'[c2s'[i].from] # "idle"
  <2>1. ASSUME NEW j \in DOMAIN c2s, c2s'[i].from = c2s[j].from PROVE pc'[c2s'[i].from] # "idle"
    BY <1>2, <2>1, Started DEF IInv, ServerSeen
  <2>2. CASE UNCHANGED c2s
    BY <2>1, <2>2
  <2>3. CASE c2s' = <<>>
    BY <2>3
  <2>4. CASE ServerRecv
    <3>1. c2s \in Seq(Part) /\ Len(c2s) >= 2 /\ c2s' = SubSeq(c2s, 3, Len(c2s))
      BY <2>4 DEF ServerRecv, IInv, TypeOK, TypeServer
    <3>2. i + 2 \in DOMAIN c2s /\ c2s'[i] = c2s[i + 2]
      BY <3>1
    <3> QED
      BY <2>1, <3>2
  <2>5. ASSUME NEW e \in Calls, NEW part \in {"head", "tail"}, Transmit(e, part), pc'[e] # "idle"
        PROVE  pc'[c2s'[i].from] # "idle"
    <3>1. c2s \in Seq(Part) /\ Len(c2s) \in Nat /\ DOMAIN c2s = 1..Len(c2s)
      BY DEF IInv, TypeOK, TypeServer
    <3>2. CASE c2s' = Append(c2s, [from |-> e, part |-> part])
      <4>1. (i \in DOMAIN c2s /\ c2s'[i] = c2s[i]) \/ c2s'[i] = [from |-> e, part |-> part]
        BY <3>1, <3>2
      <4> QED
        BY <2>1, <2>5, <4>1
    <3> QED
      BY <2>2, <2>5, <3>2 DEF Transmit
  <2>6. ASSUME NEW part \in {"head", "tail"}, Transmit(Reader, part)
        PROVE  pc'[c2s'[i].from] # "idle"
    <3>1. c2s \in Seq(Part) /\ Len(c2s) \in Nat /\ DOMAIN c2s = 1..Len(c2s)
      BY DEF IInv, TypeOK, TypeServer
    <3>2. CASE c2s' = Append(c2s, [from |-> Reader, part |-> part])
      <4>1. (i \in DOMAIN c2s /\ c2s'[i] = c2s[i]) \/ c2s'[i] = [from |-> Reader, part |-> part]
        BY <3>1, <3>2
      <4> QED
        BY <1>2, <2>1, <4>1, CallsAssumption
    <3> QED
      BY <2>2, <2>6, <3>2 DEF Transmit
  <2> QED
    BY <2>2, <2>3, <2>4, <2>5, <2>6, WireWriters DEF IInv
<1> QED
  BY <1>1, <1>2 DEF ServerSeen

(* A frame that is tagged stays tagged: its call keeps its id.             *)
LEMMA TagStays ==
  ASSUME IInv, [Next]_vars, NEW f, Tagged(f)
  PROVE  Tagged(f)'
<1>1. CASE f.of \in Calls
  BY <1>1, Started DEF Tagged, IInv
<1> QED
  BY <1>1 DEF Tagged

(* WireTagged is preserved. *)
LEMMA WireTaggedStep ==
  ASSUME IInv, [Next]_vars
  PROVE  WireTagged'
<1>0. s2c \in Seq(Frame) /\ Len(s2c) \in Nat /\ DOMAIN s2c = 1..Len(s2c)
  BY DEF IInv, TypeOK, TypeServer
<1> SUFFICES ASSUME NEW i \in DOMAIN s2c' PROVE Tagged(s2c[i])'
  BY DEF WireTagged
<1>1. ASSUME NEW j \in DOMAIN s2c, s2c'[i] = s2c[j] PROVE Tagged(s2c[i])'
  <2>1. Tagged(s2c[j])
    BY DEF IInv, WireTagged
  <2> QED
    BY <1>1, <2>1, TagStays DEF Tagged
<1>2. CASE UNCHANGED s2c
  BY <1>1, <1>2
<1>3. CASE ReaderRecv
  <2>1. ASSUME NEW n \in 1..Len(s2c), s2c' = SubSeq(s2c, n + 1, Len(s2c))
        PROVE  \E j \in DOMAIN s2c : s2c'[i] = s2c[j]
    <3>1. i \in 1..(Len(s2c) - n) /\ s2c'[i] = s2c[n + i]
      BY <1>0, <2>1
    <3> QED
      BY <1>0, <3>1
  <2> QED
    BY <1>1, <1>2, <1>3, <2>1 DEF ReaderRecv
<1>4. ASSUME NEW g, Tagged(g)', s2c' = Append(s2c, g) PROVE Tagged(s2c[i])'
  <2>1. (i \in DOMAIN s2c /\ s2c'[i] = s2c[i]) \/ s2c'[i] = g
    BY <1>0, <1>4
  <2> QED
    BY <1>1, <1>4, <2>1 DEF Tagged
<1>5. CASE ServerPing \/ ServerCorrupts
  <2>1. PICK op \in {"SERVER_PING", "BAD"} : s2c' = Append(s2c, Control(op))
    BY <1>5 DEF ServerPing, ServerCorrupts
  <2>2. Tagged(Control(op))'
    BY CallsAssumption DEF Tagged, Control
  <2> QED
    BY <1>4, <2>1, <2>2
<1>6. ASSUME NEW c \in Calls, ServerSend(c) PROVE Tagged(s2c[i])'
  <2>1. PICK g : s2c' = Append(s2c, g) /\ g.of = c /\ g.sid = sid[c]
    BY <1>6 DEF ServerSend
  <2>2. sid'[c] = sid[c] /\ pc'[c] # "idle"
    BY <1>6, Started DEF ServerSend, IInv, ServerSeen
  <2>3. Tagged(g)'
    BY <2>1, <2>2 DEF Tagged
  <2> QED
    BY <1>4, <2>1, <2>3
<1> QED
  BY <1>2, <1>3, <1>5, <1>6, Writers

(* BufTagged is preserved. *)
LEMMA BufTaggedStep ==
  ASSUME IInv, [Next]_vars
  PROVE  BufTagged'
<1>0. /\ s2c \in Seq(Frame) /\ Len(s2c) \in Nat /\ DOMAIN s2c = 1..Len(s2c)
      /\ buf \in Seq(Frame) /\ Len(buf) \in Nat /\ DOMAIN buf = 1..Len(buf)
  BY DEF IInv, TypeOK, TypeServer, TypeReader
<1> SUFFICES ASSUME NEW i \in DOMAIN buf' PROVE Tagged(buf[i])'
  BY DEF BufTagged
<1>1. ASSUME NEW f, Tagged(f), buf'[i] = f PROVE Tagged(buf[i])'
  BY <1>1, TagStays DEF Tagged
<1>2. CASE UNCHANGED buf
  BY <1>1, <1>2 DEF IInv, BufTagged
<1>3. CASE ReaderRecv
  <2>1. ASSUME NEW n \in 1..Len(s2c), buf' = SubSeq(s2c, 1, n)
        PROVE  i \in DOMAIN s2c /\ buf'[i] = s2c[i]
    BY <1>0, <2>1
  <2> QED
    BY <1>1, <1>2, <1>3, <2>1 DEF ReaderRecv, IInv, WireTagged
<1>4. CASE ReaderDecode
  <2>1. i + 1 \in DOMAIN buf /\ buf'[i] = buf[i + 1]
    BY <1>0, <1>4 DEF ReaderDecode
  <2> QED
    BY <1>1, <2>1 DEF IInv, BufTagged
<1> QED
  BY <1>2, <1>3, <1>4, Writers

(* HandTagged is preserved: look-up and put may be far apart. *)
LEMMA HandTaggedStep ==
  ASSUME IInv, [Next]_vars
  PROVE  HandTagged'
<1> SUFFICES ASSUME rpc' = "put"
             PROVE  /\ rFrame'.of \in Calls /\ rFrame'.sid = sid'[rFrame'.of]
                    /\ pc'[rFrame'.of] # "idle"
                    /\ rFrame'.sid = sid'[rTo'] /\ pc'[rTo'] # "idle"
  BY DEF HandTagged
<1>1. CASE ReaderDecode
  <2> DEFINE f == Head(buf)
  <2>1. f = buf[1] /\ 1 \in DOMAIN buf /\ f \in Frame
    BY <1>1 DEF ReaderDecode, IInv, TypeOK, TypeReader
  <2>2. Tagged(f) /\ f.sid \in StreamIds
    BY <2>1 DEF IInv, BufTagged, Frame
  <2>3. /\ f.op \notin {"BAD", "SERVER_PING"} /\ routes[f.sid] # NoCall
        /\ rFrame' = f /\ rTo' = routes[f.sid]
    BY <1>1 DEF ReaderDecode, FailAll
  <2>4. sid[routes[f.sid]] = f.sid /\ pc[routes[f.sid]] # "idle"
    BY <2>2, <2>3 DEF IInv, RouteOwner, Live
  <2> QED
    BY <1>1, <2>2, <2>3, <2>4 DEF ReaderDecode, Tagged, callVars
<1>2. CASE rpc = "put" /\ UNCHANGED <<rFrame, rTo>>
  <2>1. /\ rTo \in Calls /\ rFrame.of \in Calls /\ rFrame.sid = sid[rFrame.of]
        /\ pc[rFrame.of] # "idle" /\ rFrame.sid = sid[rTo] /\ pc[rTo] # "idle"
    BY <1>2 DEF IInv, HandTagged, TypeOK, TypeReader
  <2> QED
    BY <1>2, <2>1, Started DEF IInv
<1> QED
  BY <1>1, <1>2, HandWriters DEF IInv

(* Failed and FailedTableEmpty are preserved. *)
LEMMA FailedStep ==
  ASSUME IInv, [Next]_vars
  PROVE  Failed' /\ FailedTableEmpty'
<1>1. CASE ReaderFails
  BY <1>1 DEF ReaderFails, FailAll, Failed, FailedTableEmpty, Errors, IInv, TypeOK, TypeTable
<1>2. CASE ~ReaderFails
  <2>1. Failed'
    BY <1>2, DeadWriters, Writers DEF IInv, Failed, Register, Deregister
  <2>2. FailedTableEmpty'
    BY <1>2, Writers DEF IInv, FailedTableEmpty, Register, Deregister, TypeOK, TypeTable, TypeCalls
  <2> QED
    BY <2>1, <2>2
<1> QED
  BY <1>1, <1>2

(* Registered is preserved: no other call's register or clean-up touches
   the route, because ids differ. *)
LEMMA RegisteredStep ==
  ASSUME IInv, [Next]_vars
  PROVE  Registered'
<1> SUFFICES ASSUME ~reused', closedError' = "none", NEW d \in Calls,
                    sid'[d] # 0, pc'[d] \in Live \ {"drop"}
             PROVE  routes'[sid'[d]] = d
  BY DEF Registered
<1>1. ~reused /\ ~ReaderFails /\ kind'[d] # "close" /\ pc'[d] # "idle" /\ closedError = "none"
  <2>1. kind'[d] # "close" /\ pc'[d] # "idle"
    BY SidShapeStep DEF SidShape, OpStream
  <2>2. ~ReaderFails
    BY FailedStep DEF ReaderFails, FailAll, Errors, IInv, TypeOK, TypeTable
  <2>3. ~reused
    BY Started DEF IInv
  <2>4. closedError = "none"
    BY <2>2, Writers DEF Register, Deregister
  <2> QED
    BY <2>1, <2>2, <2>3, <2>4
<1>2. CASE Register(d)
  BY <1>1, <1>2 DEF Register, IInv, TypeOK, TypeCalls, TypeTable
<1>3. CASE pc[d] \in Live \ {"drop"}
  <2>1. sid'[d] = sid[d] /\ sid[d] \in StreamIds /\ routes[sid[d]] = d
    BY <1>1, <1>3, Started DEF IInv, Registered, Live, TypeOK, TypeCalls
  <2>2. ASSUME NEW e \in Calls, Register(e) \/ Deregister(e), e # d PROVE routes'[sid[d]] = d
    <3>1. sid[e] # sid[d]
      BY <1>1, <2>1, <2>2 DEF IInv, SidUnique
    <3> QED
      BY <2>1, <2>2, <3>1 DEF Register, Deregister, IInv, TypeOK, TypeTable, TypeCalls
  <2>3. ~Deregister(d)
    BY <1>3 DEF Deregister
  <2> QED
    BY <1>1, <1>2, <2>1, <2>2, <2>3, Writers
<1> QED
  BY <1>1, <1>2, <1>3, Moves DEF IInv

(* Taking an item leaves the rest of the queue, in place.                  *)
LEMMA TakenQueue ==
  ASSUME IInv, NEW e \in Calls, TakeFrame(e) \/ NextItem(e)
  PROVE  /\ queue[e] # <<>> /\ pc[e] # "idle"
         /\ Head(queue[e]) = queue[e][1] /\ 1 \in DOMAIN queue[e]
         /\ \A d \in Calls \ {e} : queue'[d] = queue[d]
         /\ \A i \in DOMAIN queue'[e] : i + 1 \in DOMAIN queue[e] /\ queue'[e][i] = queue[e][i + 1]
         /\ \A i \in DOMAIN queue[e] : i # 1 => i - 1 \in DOMAIN queue'[e] /\ queue'[e][i - 1] = queue[e][i]
<1>1. /\ queue[e] \in Seq(Frame) /\ queue[e] # <<>> /\ pc[e] # "idle"
      /\ queue' = [queue EXCEPT ![e] = Tail(@)] /\ queue \in [Calls -> Seq(Frame)]
  BY DEF TakeFrame, NextItem, IInv, TypeOK, TypeTable
<1>2. queue'[e] = Tail(queue[e]) /\ \A d \in Calls \ {e} : queue'[d] = queue[d]
  BY <1>1
<1> QED
  BY <1>1, <1>2

(* Putting an item adds it at the end.                                     *)
LEMMA PutQueue ==
  ASSUME IInv, NEW d \in Calls, NEW g, queue'[d] = Append(queue[d], g)
  PROVE  /\ \A i \in DOMAIN queue'[d] : (i \in DOMAIN queue[d] /\ queue'[d][i] = queue[d][i]) \/ queue'[d][i] = g
         /\ \A i \in DOMAIN queue[d] : i \in DOMAIN queue'[d] /\ queue'[d][i] = queue[d][i]
         /\ \E i \in DOMAIN queue'[d] : queue'[d][i] = g
<1>1. queue[d] \in Seq(Frame)
  BY DEF IInv, TypeOK, TypeTable
<1>2. Len(queue[d]) + 1 \in DOMAIN queue'[d] /\ queue'[d][Len(queue[d]) + 1] = g
  BY <1>1
<1> QED
  BY <1>1, <1>2

(* QueueOwn is preserved. *)
LEMMA QueueOwnStep ==
  ASSUME IInv, [Next]_vars
  PROVE  QueueOwn'
<1> DEFINE Own(q, c) == \A i \in DOMAIN q : q[i].op \in Errors \/ q[i].of = c
<1> SUFFICES ASSUME NEW d \in Calls
             PROVE  /\ pc'[d] = "idle" => queue'[d] = <<>>
                    /\ ~reused' /\ sid'[d] # 0 => Own(queue'[d], d)
  BY DEF QueueOwn
<1>1. /\ pc[d] = "idle" => queue[d] = <<>>
      /\ ~reused /\ sid[d] # 0 => Own(queue[d], d)
      /\ pc'[d] = "idle" => pc[d] = "idle"
      /\ pc[d] # "idle" => sid'[d] = sid[d]
      /\ ~reused' => ~reused
  BY Started DEF IInv, QueueOwn
<1>2. CASE queue'[d] = queue[d]
  BY <1>1, <1>2
<1>3. ASSUME NEW e \in Calls, TakeFrame(e) \/ NextItem(e)
      PROVE  queue'[d] = queue[d] \/ (pc[d] # "idle" /\ (Own(queue[d], d) => Own(queue'[d], d)))
  BY <1>3, TakenQueue
<1>4. CASE ReaderPut
  <2>1. CASE d = rTo
    <3>1. queue'[d] = Append(queue[d], rFrame) /\ pc[d] # "idle" /\ rFrame.of \in Calls /\ sid[rFrame.of] = sid[d]
      BY <1>4, <2>1 DEF ReaderPut, IInv, HandTagged, TypeOK, TypeTable
    <3>2. ~reused' /\ sid'[d] # 0 => rFrame.of = d
      BY <1>1, <3>1 DEF IInv, SidUnique
    <3>3. pc'[d] # "idle"
      BY <1>1, <3>1
    <3> QED
      BY <1>1, <3>1, <3>2, <3>3, PutQueue
  <2>2. CASE d # rTo
    BY <1>2, <1>4, <2>2 DEF ReaderPut, IInv, TypeOK, TypeTable
  <2> QED
    BY <2>1, <2>2
<1>5. CASE ReaderFails
  <2>1. PICK error \in Errors : FailAll(error)
    BY <1>5 DEF ReaderFails
  <2>2. CASE \E s \in StreamIds : routes[s] = d
    <3>1. queue'[d] = Append(queue[d], Closed(error)) /\ pc[d] # "idle"
      BY <2>1, <2>2, CallsAssumption DEF FailAll, IInv, RouteOwner, Live, TypeOK, TypeTable
    <3>2. pc'[d] # "idle" /\ Closed(error).op \in Errors
      BY <1>1, <3>1 DEF Closed
    <3> QED
      BY <1>1, <3>1, <3>2, PutQueue
  <2> QED
    BY <1>2, <2>1, <2>2 DEF FailAll
<1> QED
  BY <1>1, <1>2, <1>3, <1>4, <1>5, Writers

(* GotOwn is preserved. *)
LEMMA GotOwnStep ==
  ASSUME IInv, [Next]_vars
  PROVE  GotOwn'
<1> SUFFICES ASSUME NEW d \in Calls
             PROVE  /\ pc'[d] = "idle" => got'[d] = <<>>
                    /\ ~reused' /\ sid'[d] # 0 => \A i \in DOMAIN got'[d] : got'[d][i].of = d
  BY DEF GotOwn
<1>1. /\ pc[d] = "idle" => got[d] = <<>>
      /\ ~reused /\ sid[d] # 0 => \A i \in DOMAIN got[d] : got[d][i].of = d
      /\ pc'[d] = "idle" => pc[d] = "idle"
      /\ pc[d] # "idle" => sid'[d] = sid[d]
      /\ ~reused' => ~reused
  BY Started DEF IInv, GotOwn
<1>2. CASE got'[d] = got[d]
  BY <1>1, <1>2
<1>3. CASE TakeFrame(d) \/ NextItem(d)
  <2> DEFINE f == Head(queue[d])
  <2>1. CASE f.op \notin Errors /\ got' = [got EXCEPT ![d] = Append(@, f)]
    <3>1. got[d] \in Seq(Frame) /\ got'[d] = Append(got[d], f)
      BY <2>1 DEF IInv, TypeOK, TypeCalls
    <3>2. ~reused' /\ sid'[d] # 0 => f.of = d
      BY <1>1, <1>3, <2>1, TakenQueue DEF IInv, QueueOwn
    <3>3. pc'[d] # "idle"
      BY <1>1, <1>3, TakenQueue
    <3>4. \A i \in DOMAIN got'[d] : (i \in DOMAIN got[d] /\ got'[d][i] = got[d][i]) \/ got'[d][i] = f
      BY <3>1
    <3> QED
      BY <1>1, <3>2, <3>3, <3>4, <1>3, TakenQueue
  <2> QED
    BY <1>2, <1>3, <2>1 DEF TakeFrame, NextItem
<1>4. ASSUME NEW e \in Calls, TakeFrame(e) \/ NextItem(e), e # d PROVE got'[d] = got[d]
  BY <1>4 DEF TakeFrame, NextItem, IInv, TypeOK, TypeCalls
<1> QED
  BY <1>2, <1>3, <1>4, Writers

(* Woken is preserved: the sentinel is put in the critical section that
   closes the connection, and only the call itself removes it. *)
LEMMA WokenStep ==
  ASSUME IInv, [Next]_vars
  PROVE  Woken'
<1> SUFFICES ASSUME ~reused', closedError' # "none", NEW d \in Calls, sid'[d] # 0, Awaits(d)'
             PROVE  \E i \in DOMAIN queue'[d] : queue'[d][i].op = closedError'
  BY DEF Woken
<1>1. kind'[d] # "close" /\ pc'[d] # "idle" /\ ~reused
  BY SidShapeStep, Started DEF SidShape, OpStream, IInv
<1>2. CASE ReaderFails /\ closedError = "none"
  <2>1. PICK error \in Errors : FailAll(error)
    BY <1>2 DEF ReaderFails
  <2>2. closedError = "none" /\ closedError' = error
    BY <1>2, <2>1 DEF FailAll
  <2>3. pc[d] = pc'[d] /\ sid[d] = sid'[d]
    BY <1>2 DEF ReaderFails, callVars
  <2>4. routes[sid[d]] = d /\ sid[d] \in StreamIds
    BY <1>1, <2>2, <2>3 DEF IInv, Registered, Awaits, Live, TypeOK, TypeCalls
  <2>5. queue'[d] = Append(queue[d], Closed(error))
    BY <2>1, <2>4 DEF FailAll
  <2>6. Closed(error).op = error
    BY DEF Closed
  <2> QED
    BY <2>2, <2>5, <2>6, PutQueue
<1>3. CASE ~ReaderFails \/ closedError # "none"
  <2>0. ReaderFails => closedError' = closedError /\ queue'[d] = queue[d]
    BY <1>3, CallsAssumption
    DEF ReaderFails, FailAll, IInv, FailedTableEmpty, TypeOK, TypeTable
  <2>1. closedError' = closedError
    BY <2>0, Writers DEF Register, Deregister
  <2>2. Awaits(d) /\ sid[d] = sid'[d]
    BY <1>1, <2>1, Moves, Started DEF IInv, Awaits
  <2>3. PICK j \in DOMAIN queue[d] : queue[d][j].op = closedError
    BY <1>1, <2>1, <2>2 DEF IInv, Woken
  <2>4. CASE queue'[d] = queue[d]
    BY <2>1, <2>3, <2>4
  <2>5. CASE ReaderPut
    <3>1. queue'[d] = queue[d] \/ queue'[d] = Append(queue[d], rFrame)
      BY <2>5 DEF ReaderPut, IInv, TypeOK, TypeTable
    <3> QED
      BY <2>1, <2>3, <2>4, <3>1, PutQueue
  <2>6. CASE TakeFrame(d) \/ NextItem(d)
    <3>1. j # 1
      BY <2>1, <2>2, <2>3, <2>6, TakenQueue
      DEF Awaits, TakeFrame, NextItem, Goto, Errors, IInv, TypeOK, TypeCalls, TypeTable
    <3> QED
      BY <2>1, <2>3, <2>6, <3>1, TakenQueue
  <2>7. ASSUME NEW e \in Calls, TakeFrame(e) \/ NextItem(e), e # d PROVE queue'[d] = queue[d]
    BY <2>7, TakenQueue
  <2> QED
    BY <2>0, <2>4, <2>5, <2>6, <2>7, Writers
<1> QED
  BY <1>2, <1>3

-----------------------------------------------------------------------------
(* IInv is an invariant of the specification. *)
LEMMA Invariant == Spec => []IInv
<1>1. Init => IInv
  <2> SUFFICES ASSUME Init PROVE IInv
    OBVIOUS
  <2>1. TypeOK
    BY TypeInit
  <2>2. SidShape /\ SidUnique /\ RouteOwner /\ RegisterKind
    BY DEF Init, SidShape, SidUnique, RouteOwner, RegisterKind, HANDSHAKE_STREAM_ID
  <2>3. ServerSeen /\ WireTagged /\ BufTagged /\ HandTagged
    BY DEF Init, ServerSeen, WireTagged, BufTagged, HandTagged
  <2>4. QueueOwn /\ GotOwn
    BY DEF Init, QueueOwn, GotOwn
  <2>5. Failed /\ FailedTableEmpty /\ Registered /\ Woken
    BY DEF Init, Failed, FailedTableEmpty, Registered, Woken, Live
  <2> QED
    BY <2>1, <2>2, <2>3, <2>4, <2>5 DEF IInv
<1>2. IInv /\ [Next]_vars => IInv'
  <2> SUFFICES ASSUME IInv, [Next]_vars PROVE IInv'
    OBVIOUS
  <2>1. TypeOK'
    BY TypeStep DEF IInv
  <2> QED
    BY <2>1, SidShapeStep, SidUniqueStep, RouteOwnerStep, RegisterKindStep, ServerSeenStep,
       WireTaggedStep, BufTaggedStep, HandTaggedStep, QueueOwnStep, GotOwnStep, FailedStep,
       RegisteredStep, WokenStep
    DEF IInv
<1> QED
  BY <1>1, <1>2, PTL DEF Spec

(* Responses route back by stream_id: no call on an op stream takes a frame
   that answers another call (OwnFrames; request, _reader_loop). *)
THEOREM RoutingCorrect == Spec => []OwnFrames
<1>1. IInv => OwnFrames
  <2> SUFFICES ASSUME IInv, ~reused, NEW c \in Calls, OpStream(c), NEW i \in DOMAIN got[c]
               PROVE  got[c][i].of = c
    BY DEF OwnFrames
  <2>1. CASE pc[c] = "idle"
    BY <2>1 DEF IInv, GotOwn
  <2>2. CASE pc[c] # "idle"
    BY <2>2 DEF IInv, GotOwn, SidShape
  <2> QED
    BY <2>1, <2>2
<1> QED
  BY <1>1, Invariant, PTL

(* The reader fails every outstanding request when it dies: whoever waits,
   or is about to, has the sentinel (WokenOnFailure; _fail_all). *)
THEOREM FailureWakes == Spec => []WokenOnFailure
<1>1. IInv => WokenOnFailure
  <2> SUFFICES ASSUME IInv, ~reused, closedError # "none", NEW c \in Calls, OpStream(c), Awaits(c)
               PROVE  HasSentinel(c)
    BY DEF WokenOnFailure, Awaits
  <2>1. sid[c] # 0
    BY DEF IInv, SidShape, Awaits
  <2>2. closedError \in Errors
    BY DEF IInv, TypeOK, TypeTable
  <2> QED
    BY <2>1, <2>2 DEF IInv, Woken, HasSentinel
<1> QED
  BY <1>1, Invariant, PTL

(* Nothing is registered on a failed connection (FailedTableEmpty;
   _register and _fail_all exclude each other). *)
THEOREM FailedTable == Spec => []FailedTableEmpty
<1>1. IInv => FailedTableEmpty
  BY DEF IInv
<1> QED
  BY <1>1, Invariant, PTL

(* No finished call leaves a route behind (NoRouteLeak; the finally clauses
   of request and request_on_connection, Subscription.close). *)
THEOREM NoLeak == Spec => []NoRouteLeak
<1>1. IInv => NoRouteLeak
  BY DEF IInv, RouteOwner, NoRouteLeak, Live
<1> QED
  BY <1>1, Invariant, PTL

(* Only its own call, or the failure of the connection, removes the route
   of an op stream (RouteLostOnlyByOwner; _deregister, _register). *)
THEOREM RouteKept == Spec => RouteLostOnlyByOwner
<1> DEFINE Kept == \A s \in StreamIds, c \in Calls :
       (~reused' /\ OpStream(c) /\ routes[s] = c /\ routes'[s] # c)
         => (pc[c] = "drop" /\ pc'[c] = "done") \/ closedError' # "none"
<1>1. IInv /\ [Next]_vars => [Kept]_vars
  <2> SUFFICES ASSUME IInv, [Next]_vars, NEW s \in StreamIds, NEW c \in Calls,
                      ~reused', OpStream(c), routes[s] = c, routes'[s] # c
               PROVE  (pc[c] = "drop" /\ pc'[c] = "done") \/ closedError' # "none"
    BY Zenon
  <2>1. ~reused /\ sid[c] = s /\ sid[c] # 0
    BY Started, CallsAssumption DEF IInv, RouteOwner, SidShape, Live
  <2>2. CASE ReaderFails
    BY <2>2 DEF ReaderFails, FailAll, Errors
  <2>3. ASSUME NEW e \in Calls, Register(e) \/ Deregister(e), e # c PROVE routes'[s] = routes[s]
    <3>1. sid[e] # s
      BY <2>1, <2>3 DEF IInv, SidUnique
    <3> QED
      BY <2>3, <3>1 DEF Register, Deregister, IInv, TypeOK, TypeCalls, TypeTable
  <2>4. CASE Register(c)
    BY <2>1, <2>4 DEF Register, IInv, TypeOK, TypeCalls, TypeTable
  <2>5. CASE Deregister(c)
    BY <2>5 DEF Deregister, IInv, TypeOK, TypeCalls, Goto
  <2> QED
    BY <2>2, <2>3, <2>4, <2>5, Writers
<1> QED
  BY <1>1, Invariant, PTL DEF Spec, RouteLostOnlyByOwner
=============================================================================
