-------------------------- MODULE MuxPyOrderProofs --------------------------
(***************************************************************************)
(* What the threaded Python connection puts on the wire, and in which      *)
(* order a call takes its answer: WholeFrames and FramesInOrder, for every *)
(* set of calls and every bound, on top of the invariant of MuxPyProofs.   *)
(***************************************************************************)
EXTENDS MuxPyProofs

(* A sequence has a length, and loses its first two items as one expects. *)
LEMMA LenIsNat == ASSUME NEW S, NEW q \in Seq(S) PROVE Len(q) \in Nat /\ DOMAIN q = 1..Len(q)
BY LenProperties

-----------------------------------------------------------------------------
(* Writing.  _write_lock is held by whoever is between its two sends       *)
(* (LockHeld).  While the socket can be written, a head at the end of the  *)
(* wire is that of the holder, and the holder has written one exactly when *)
(* its tail is due (HalfWritten).                                          *)

Senders == Calls \cup {Reader}
TailDue(w) == IF w = Reader THEN rpc = "pong2" ELSE pc[w] = "send2"
HeadDue(w) == IF w = Reader THEN rpc = "pong1" ELSE pc[w] = "send1"

LockHeld == \A w \in Senders : HeadDue(w) \/ TailDue(w) <=> writer = w

HalfWritten ==
  peer = "up" /\ sockOpen => \A w \in Senders : TailDue(w) <=>
    c2s # <<>> /\ c2s[Len(c2s)] = [from |-> w, part |-> "head"]

WriteInv == TypeOK /\ LockHeld /\ HalfWritten /\ WholeFrames

(* Whether a writer owes a head or a tail is changed by its own steps of   *)
(* the write path, and by nothing else.                                    *)
Owes(w) == UNCHANGED <<HeadDue(w), TailDue(w)>>

(* What a step does to the wire and to the lock, by kind of step. *)
Locks(w) == /\ ~HeadDue(w) /\ ~TailDue(w) /\ writer = NoCall /\ writer' = w
            /\ HeadDue(w)' /\ ~TailDue(w)' /\ UNCHANGED c2s
Heads(w) == /\ HeadDue(w) /\ ~TailDue(w) /\ Transmit(w, "head") /\ UNCHANGED writer
            /\ ~HeadDue(w)' /\ TailDue(w)'
Tails(w) == /\ ~HeadDue(w) /\ TailDue(w) /\ Transmit(w, "tail") /\ writer' = NoCall
            /\ ~HeadDue(w)' /\ ~TailDue(w)'
Raises(w) == /\ HeadDue(w) \/ TailDue(w)
             /\ ~sockOpen \/ peer # "up"
             /\ writer' = NoCall /\ ~HeadDue(w)' /\ ~TailDue(w)' /\ UNCHANGED c2s
WriteStep(w) == /\ Locks(w) \/ Heads(w) \/ Tails(w) \/ Raises(w)
                /\ UNCHANGED <<peer, sockOpen>>
                /\ \A v \in Senders \ {w} : Owes(v)
OtherStep == /\ UNCHANGED writer /\ \A v \in Senders : Owes(v)
             /\ \/ UNCHANGED <<c2s, peer>> /\ sockOpen' \in {sockOpen, FALSE}
                \/ peer' # "up" /\ c2s' = <<>> /\ UNCHANGED sockOpen
                \/ ServerRecv

(* Every step is a step of one writer on the write path, or leaves the
   write path alone. *)
LEMMA WriteSteps ==
  ASSUME TypeOK, [Next]_vars
  PROVE  OtherStep \/ \E w \in Senders : WriteStep(w)
<1> USE CallsAssumption DEF TypeOK, TypeCalls, callVars, tableVars, idVars, connVars, readerVars,
        serverVars, others, Goto, Owes, HeadDue, TailDue, Senders
<1>1. ASSUME NEW c \in Calls, LockWrite(c) PROVE WriteStep(c)
  BY <1>1 DEF LockWrite, WriteStep, Locks
<1>2. ASSUME NEW c \in Calls, SendHead(c) PROVE WriteStep(c)
  <2>1. Heads(c) /\ UNCHANGED <<peer, sockOpen>>
    BY <1>2 DEF SendHead, Heads
  <2> QED
    BY <1>2, <2>1 DEF SendHead, WriteStep
<1>3. ASSUME NEW c \in Calls, SendTail(c) PROVE WriteStep(c)
  <2>1. pc'[c] # "send1" /\ pc'[c] # "send2"
    BY <1>3 DEF SendTail
  <2>2. Tails(c) /\ UNCHANGED <<peer, sockOpen>>
    BY <1>3, <2>1 DEF SendTail, Tails
  <2> QED
    BY <1>3, <2>2 DEF SendTail, WriteStep
<1>4. ASSUME NEW c \in Calls, SendRaises(c) PROVE WriteStep(c)
  BY <1>4 DEF SendRaises, WriteRaises, WriteStep, Raises
<1>5. ASSUME NEW c \in Calls,
             \/ TakeStreamId(c) \/ StartPing(c) \/ StartClose(c) \/ Register(c)
             \/ WriteTooLarge(c) \/ TakeFrame(c) \/ Timeout(c) \/ Deregister(c)
             \/ NextStart(c) \/ NextItem(c) \/ SubClose(c) \/ Close(c)
      PROVE  OtherStep
  <2>1. \A d \in Calls : /\ pc'[d] = "send1" <=> pc[d] = "send1"
                         /\ pc'[d] = "send2" <=> pc[d] = "send2"
    BY <1>5 DEF TakeStreamId, StartPing, StartClose, Register, WriteTooLarge, WriteRaises, TakeFrame,
       Timeout, Deregister, NextStart, NextItem, SubClose, Close
  <2>2. UNCHANGED <<writer, rpc, c2s, peer>> /\ sockOpen' \in {sockOpen, FALSE}
    BY <1>5 DEF TakeStreamId, StartPing, StartClose, Register, WriteTooLarge, WriteRaises, TakeFrame,
       Timeout, Deregister, NextStart, NextItem, SubClose, Close
  <2> QED
    BY <2>1, <2>2 DEF OtherStep
<1>6. CASE ReaderLockWrite
  BY <1>6 DEF ReaderLockWrite, WriteStep, Locks
<1>7. CASE ReaderSendHead
  <2>1. WriteStep(Reader)
    BY <1>7 DEF ReaderSendHead, WriteStep, Heads
  <2> QED
    BY <2>1
<1>8. CASE ReaderSendTail
  <2>1. WriteStep(Reader)
    BY <1>8 DEF ReaderSendTail, WriteStep, Tails
  <2> QED
    BY <2>1
<1>9. CASE ReaderSendRaises
  BY <1>9 DEF ReaderSendRaises, WriteStep, Raises
<1>10. CASE ReaderNeedsBytes \/ ReaderRecv \/ ReaderDecode \/ ReaderPut
  BY <1>10 DEF ReaderNeedsBytes, ReaderRecv, ReaderDecode, ReaderPut, FailAll, OtherStep
<1>11. CASE ServerRecv
  BY <1>11 DEF ServerRecv, OtherStep
<1>12. CASE PeerDrops
  BY <1>12 DEF PeerDrops, OtherStep
<1>13. CASE ServerPing \/ ServerCorrupts \/ \E c \in Calls : ServerSend(c)
  BY <1>13 DEF ServerPing, ServerCorrupts, ServerSend, OtherStep
<1>14. CASE UNCHANGED vars
  BY <1>14 DEF vars, OtherStep
<1> QED
  BY <1>1, <1>2, <1>3, <1>4, <1>5, <1>6, <1>7, <1>8, <1>9, <1>10, <1>11, <1>12, <1>13, <1>14
  DEF Next, CallStep, ReaderStep, Environment

(* LockHeld is preserved: a sender enters the write path when the lock is
   free and leaves it when it frees the lock. *)
LEMMA LockHeldStep ==
  ASSUME TypeOK, LockHeld, [Next]_vars
  PROVE  LockHeld'
<1>1. NoCall \notin Senders
  BY CallsAssumption DEF Senders
<1>2. CASE OtherStep
  BY <1>2 DEF OtherStep, LockHeld, Owes
<1>3. ASSUME NEW w \in Senders, WriteStep(w) PROVE LockHeld'
  <2>1. \A v \in Senders \ {w} : (HeadDue(v)' <=> HeadDue(v)) /\ (TailDue(v)' <=> TailDue(v))
    BY <1>3 DEF WriteStep, Owes
  <2>2. writer' = w \/ writer' = NoCall
    BY <1>3 DEF WriteStep, Locks, Heads, Tails, Raises, LockHeld
  <2>3. \A v \in Senders \ {w} : writer # v
    BY <1>1, <1>3 DEF WriteStep, Locks, Heads, Tails, Raises, LockHeld
  <2>4. HeadDue(w)' \/ TailDue(w)' <=> writer' = w
    BY <1>1, <1>3 DEF WriteStep, Locks, Heads, Tails, Raises, LockHeld
  <2> QED
    BY <1>1, <2>1, <2>2, <2>3, <2>4 DEF LockHeld
<1> QED
  BY <1>2, <1>3, WriteSteps

(* WholeFrames at one place of the wire. *)
LEMMA WholeAt ==
  ASSUME TypeOK, WholeFrames, NEW i \in 1..Len(c2s)
  PROVE  /\ c2s[i] \in Part
         /\ c2s[i].part \in {"head", "tail"}
         /\ c2s[i].part = "head" /\ i < Len(c2s) =>
              c2s[i + 1] = [from |-> c2s[i].from, part |-> "tail"]
         /\ c2s[i].part = "tail" =>
              i > 1 /\ c2s[i - 1] = [from |-> c2s[i].from, part |-> "head"]
<1>1. c2s \in Seq(Part) /\ i \in DOMAIN c2s
  BY LenIsNat DEF TypeOK, TypeServer
<1>2. c2s[i] \in Part
  BY <1>1, ElementOfSeq
<1>3. c2s[i].part \in {"head", "tail"}
  BY <1>2 DEF Part
<1> QED
  BY <1>1, <1>2, <1>3, Zenon DEF WholeFrames

(* The first two items of a wire of whole frames are one frame, and taking
   them leaves the others where they were, two places nearer. *)
LEMMA FirstFrame ==
  ASSUME TypeOK, WholeFrames, ServerRecv
  PROVE  /\ c2s[1].part = "head" /\ c2s[2].part = "tail"
         /\ Len(c2s') = Len(c2s) - 2 /\ Len(c2s) \in Nat /\ Len(c2s) >= 2
         /\ \A i \in 1..Len(c2s') : c2s'[i] = c2s[i + 2]
         /\ DOMAIN c2s' = 1..Len(c2s')
<1>1. c2s \in Seq(Part) /\ Len(c2s) \in Nat /\ DOMAIN c2s = 1..Len(c2s) /\ Len(c2s) >= 2
  BY LenIsNat DEF TypeOK, TypeServer, ServerRecv
<1>2. 1 \in 1..Len(c2s) /\ 2 \in 1..Len(c2s)
  BY <1>1
<1>3. c2s[1].part = "head"
  <2>1. c2s[1].part \in {"head", "tail"}
    BY <1>2, WholeAt, Zenon
  <2>2. c2s[1].part = "tail" => 1 > 1
    BY <1>2, WholeAt, Zenon
  <2> QED
    BY <2>1, <2>2
<1>4. c2s[2].part = "tail"
  <2>1. 1 < Len(c2s) /\ 1 + 1 = 2
    BY <1>1
  <2>2. c2s[1 + 1] = [from |-> c2s[1].from, part |-> "tail"]
    BY <1>2, <1>3, <2>1, WholeAt, Zenon
  <2> QED
    BY <2>1, <2>2
<1>5. c2s' = SubSeq(c2s, 3, Len(c2s))
  BY DEF ServerRecv
<1>6. /\ Len(c2s') = Len(c2s) - 2
      /\ \A i \in 1..Len(c2s') : c2s'[i] = c2s[i + 2]
      /\ DOMAIN c2s' = 1..Len(c2s')
  BY <1>1, <1>5
<1> QED
  BY <1>1, <1>3, <1>4, <1>6

(* Appending to the wire. *)
LEMMA Extended ==
  ASSUME TypeOK, NEW w \in Senders, NEW part \in {"head", "tail"},
         c2s' = Append(c2s, [from |-> w, part |-> part])
  PROVE  /\ Len(c2s) \in Nat /\ Len(c2s') = Len(c2s) + 1
         /\ DOMAIN c2s = 1..Len(c2s) /\ DOMAIN c2s' = 1..(Len(c2s) + 1)
         /\ \A i \in DOMAIN c2s : c2s'[i] = c2s[i]
         /\ c2s'[Len(c2s) + 1] = [from |-> w, part |-> part]
         /\ c2s' # <<>>
<1>1. c2s \in Seq(Part)
  BY DEF TypeOK, TypeServer
<1>2. [from |-> w, part |-> part] \in Part
  BY DEF Part, Senders
<1> QED
  BY <1>1, <1>2, AppendProperties, LenIsNat

(* HalfWritten and WholeFrames are preserved. *)
LEMMA WireStep ==
  ASSUME WriteInv, [Next]_vars
  PROVE  HalfWritten' /\ WholeFrames'
<1>0. c2s \in Seq(Part) /\ Len(c2s) \in Nat /\ DOMAIN c2s = 1..Len(c2s) /\ TypeOK
  BY LenIsNat DEF WriteInv, TypeOK, TypeServer
<1>1. ASSUME \A w \in Senders : TailDue(w)' <=> TailDue(w), UNCHANGED c2s,
             peer' = "up" /\ sockOpen' => peer = "up" /\ sockOpen
      PROVE  HalfWritten' /\ WholeFrames'
  <2>1. WholeFrames'
    BY <1>1 DEF WriteInv, WholeFrames
  <2> QED
    BY <1>1, <2>1 DEF WriteInv, HalfWritten
<1>2. CASE c2s' = <<>> /\ peer' # "up"
  BY <1>2 DEF HalfWritten, WholeFrames
<1>3. CASE ServerRecv /\ \A w \in Senders : TailDue(w)' <=> TailDue(w)
  <2>1. WholeFrames'
    <3> SUFFICES ASSUME NEW i \in DOMAIN c2s'
                 PROVE  /\ c2s'[i].part = "head" /\ i < Len(c2s') =>
                             c2s'[i + 1] = [from |-> c2s'[i].from, part |-> "tail"]
                        /\ c2s'[i].part = "tail" =>
                             i > 1 /\ c2s'[i - 1] = [from |-> c2s'[i].from, part |-> "head"]
      BY DEF WholeFrames
    <3>1. i \in 1..Len(c2s') /\ i + 2 \in DOMAIN c2s /\ c2s'[i] = c2s[i + 2]
      BY <1>0, <1>3, FirstFrame DEF WriteInv
    <3>2. ASSUME c2s'[i].part = "head", i < Len(c2s')
          PROVE  c2s'[i + 1] = [from |-> c2s'[i].from, part |-> "tail"]
      <4>1. c2s'[i + 1] = c2s[i + 3] /\ i + 2 < Len(c2s)
        BY <1>0, <1>3, <3>1, <3>2, FirstFrame DEF WriteInv
      <4>2. c2s[(i + 2) + 1] = [from |-> c2s[i + 2].from, part |-> "tail"]
        BY <1>0, <3>1, <3>2, <4>1, WholeAt DEF WriteInv
      <4>3. (i + 2) + 1 = i + 3
        BY <3>1, <1>0
      <4> QED
        BY <3>1, <4>1, <4>2, <4>3
    <3>3. ASSUME c2s'[i].part = "tail"
          PROVE  i > 1 /\ c2s'[i - 1] = [from |-> c2s'[i].from, part |-> "head"]
      <4>0. (i + 2) - 1 = i + 1
        BY <3>1, <1>0
      <4>1. c2s[i + 1] = [from |-> c2s[i + 2].from, part |-> "head"]
        BY <1>0, <3>1, <3>3, <4>0, WholeAt DEF WriteInv
      <4>2. i > 1
        BY <1>3, <3>1, <4>1, FirstFrame DEF WriteInv
      <4>3. c2s'[i - 1] = c2s[i + 1]
        BY <1>0, <1>3, <3>1, <4>2, FirstFrame DEF WriteInv
      <4> QED
        BY <3>1, <4>1, <4>2, <4>3
    <3> QED
      BY <3>2, <3>3
  <2>2. HalfWritten'
    <3> SUFFICES ASSUME peer' = "up", sockOpen', NEW w \in Senders
                 PROVE  TailDue(w)' <=>
                          c2s' # <<>> /\ c2s'[Len(c2s')] = [from |-> w, part |-> "head"]
      BY DEF HalfWritten
    <3>1. TailDue(w)' <=> c2s # <<>> /\ c2s[Len(c2s)] = [from |-> w, part |-> "head"]
      <4>1. peer = "up" /\ sockOpen
        BY <1>3 DEF ServerRecv, connVars
      <4> QED
        BY <1>3, <4>1 DEF WriteInv, HalfWritten
    <3>2. c2s' # <<>> => c2s'[Len(c2s')] = c2s[Len(c2s)]
      <4>1. c2s' \in Seq(Part)
        BY TypeStep, <1>0 DEF TypeOK, TypeServer
      <4>2. c2s' # <<>> => Len(c2s') >= 1 /\ Len(c2s') \in Nat
        BY <4>1
      <4> QED
        BY <1>0, <1>3, <4>2, FirstFrame DEF WriteInv
    <3>3. c2s' = <<>> => c2s[Len(c2s)].part = "tail"
      <4>1. Len(c2s) \in Nat /\ Len(c2s') = Len(c2s) - 2 /\ c2s[2].part = "tail"
        BY <1>0, <1>3, FirstFrame DEF WriteInv
      <4>2. Len(c2s') = 0 => Len(c2s) = 2
        BY <4>1
      <4>3. c2s' = <<>> => Len(c2s') = 0
        OBVIOUS
      <4> QED
        BY <4>1, <4>2, <4>3, Zenon
    <3>4. c2s # <<>>
      BY <1>0, <1>3, FirstFrame DEF WriteInv
    <3> QED
      BY <3>1, <3>2, <3>3, <3>4
  <2> QED
    BY <2>1, <2>2
<1>4. ASSUME NEW w \in Senders, WriteStep(w), Heads(w) \/ Tails(w),
             NEW part \in {"head", "tail"}, part = "head" <=> Heads(w),
             c2s' = Append(c2s, [from |-> w, part |-> part]), peer = "up", sockOpen
      PROVE  HalfWritten' /\ WholeFrames'
  <2> DEFINE L == Len(c2s)
  <2>1. /\ L \in Nat /\ Len(c2s') = L + 1 /\ DOMAIN c2s' = 1..(L + 1)
        /\ \A i \in 1..L : c2s'[i] = c2s[i]
        /\ c2s'[L + 1] = [from |-> w, part |-> part] /\ c2s' # <<>>
    BY <1>0, <1>4, Extended
  <2>2. \A v \in Senders : TailDue(v)' <=> v = w /\ part = "head"
    <3>1. TailDue(w)' <=> part = "head"
      BY <1>4 DEF Heads, Tails
    <3>2. ASSUME NEW v \in Senders, v # w PROVE ~TailDue(v)'
      BY <1>4, <3>2 DEF WriteInv, LockHeld, WriteStep, Owes, Heads, Tails
    <3> QED
      BY <3>1, <3>2
  <2>3. HalfWritten'
    <3>1. c2s'[Len(c2s')] = [from |-> w, part |-> part]
      BY <2>1
    <3>2. \A v \in Senders :
            c2s'[Len(c2s')] = [from |-> v, part |-> "head"] <=> v = w /\ part = "head"
      BY <3>1
    <3> QED
      BY <2>1, <2>2, <3>2, Zenon DEF HalfWritten
  <2>4. part = "tail" => L >= 1 /\ c2s[L] = [from |-> w, part |-> "head"]
    <3>1. part = "tail" => TailDue(w)
      BY <1>4 DEF Tails
    <3>2. c2s # <<>> => L >= 1
      BY <1>0
    <3> QED
      BY <1>4, <3>1, <3>2, Zenon DEF WriteInv, HalfWritten
  <2>5. part = "head" /\ L >= 1 => c2s[L].part = "tail"
    <3> SUFFICES ASSUME part = "head", L >= 1, c2s[L].part # "tail" PROVE FALSE
      OBVIOUS
    <3>1. L \in 1..Len(c2s) /\ c2s # <<>>
      BY <2>1
    <3>2. c2s[L] \in Part /\ c2s[L].part = "head"
      BY <1>0, <3>1, WholeAt DEF WriteInv
    <3>3. c2s[L].from \in Senders /\ c2s[L] = [from |-> c2s[L].from, part |-> "head"]
      BY <3>2 DEF Part, Senders
    <3>4. TailDue(c2s[L].from)
      BY <1>4, <3>1, <3>3, Zenon DEF WriteInv, HalfWritten
    <3> QED
      BY <1>4, <3>3, <3>4 DEF WriteInv, LockHeld, Heads
  <2>6. WholeFrames'
    <3> SUFFICES ASSUME NEW i \in DOMAIN c2s'
                 PROVE  /\ c2s'[i].part = "head" /\ i < Len(c2s') =>
                             c2s'[i + 1] = [from |-> c2s'[i].from, part |-> "tail"]
                        /\ c2s'[i].part = "tail" =>
                             i > 1 /\ c2s'[i - 1] = [from |-> c2s'[i].from, part |-> "head"]
      BY DEF WholeFrames
    <3>1. CASE i = L + 1
      BY <2>1, <2>4, <3>1
    <3>2. CASE i \in 1..L
      <4>1. c2s'[i] = c2s[i] /\ i \in Nat
        BY <2>1, <3>2
      <4>2. ASSUME c2s[i].part = "head" PROVE c2s'[i + 1] = [from |-> c2s[i].from, part |-> "tail"]
        <5>1. CASE i < L
          <6>1. c2s[i + 1] = [from |-> c2s[i].from, part |-> "tail"]
            BY <1>0, <3>2, <4>2, <5>1, WholeAt, Zenon DEF WriteInv
          <6> QED
            BY <2>1, <3>2, <5>1, <6>1
        <5>2. CASE i = L
          BY <2>1, <2>4, <2>5, <3>2, <4>2, <5>2
        <5> QED
          BY <2>1, <3>2, <5>1, <5>2
      <4>3. ASSUME c2s[i].part = "tail"
            PROVE  i > 1 /\ c2s'[i - 1] = [from |-> c2s[i].from, part |-> "head"]
        <5>1. i > 1 /\ c2s[i - 1] = [from |-> c2s[i].from, part |-> "head"]
          BY <1>0, <3>2, <4>3, WholeAt, Zenon DEF WriteInv
        <5> QED
          BY <2>1, <3>2, <5>1
      <4> QED
        BY <4>1, <4>2, <4>3
    <3> QED
      BY <2>1, <3>1, <3>2
  <2> QED
    BY <2>3, <2>6
<1>5. CASE OtherStep
  <2>1. \A w \in Senders : TailDue(w)' <=> TailDue(w)
    BY <1>5 DEF OtherStep, Owes
  <2>2. CASE UNCHANGED <<c2s, peer>> /\ sockOpen' \in {sockOpen, FALSE}
    <3>1. peer' = "up" /\ sockOpen' => peer = "up" /\ sockOpen
      BY <2>2, Zenon
    <3> QED
      BY <1>1, <2>1, <2>2, <3>1
  <2> QED
    BY <1>2, <1>3, <1>5, <2>1, <2>2 DEF OtherStep
<1>6. ASSUME NEW w \in Senders, WriteStep(w) PROVE HalfWritten' /\ WholeFrames'
  <2>1. UNCHANGED <<peer, sockOpen>> /\ \A v \in Senders \ {w} : TailDue(v)' <=> TailDue(v)
    BY <1>6 DEF WriteStep, Owes
  <2>2. CASE Locks(w)
    <3>1. ASSUME NEW v \in Senders PROVE TailDue(v)' <=> TailDue(v)
      BY <2>1, <2>2 DEF Locks
    <3>2. UNCHANGED c2s
      BY <2>2 DEF Locks
    <3> QED
      BY <1>1, <2>1, <3>1, <3>2
  <2>3. CASE Raises(w)
    <3>1. ~(peer' = "up" /\ sockOpen') /\ UNCHANGED c2s
      BY <2>1, <2>3 DEF Raises
    <3> QED
      BY <3>1 DEF HalfWritten, WriteInv, WholeFrames
  <2>4. CASE Heads(w) \/ Tails(w)
    <3>1. CASE peer # "up"
      <4>1. UNCHANGED c2s
        BY <2>4, <3>1 DEF Heads, Tails, Transmit
      <4> QED
        BY <2>1, <3>1, <4>1 DEF HalfWritten, WriteInv, WholeFrames
    <3>2. CASE peer = "up"
      <4>1. CASE Heads(w)
        <5>1. ~Tails(w) /\ sockOpen /\ c2s' = Append(c2s, [from |-> w, part |-> "head"])
          BY <3>2, <4>1 DEF Heads, Tails, Transmit
        <5> QED
          BY <1>4, <1>6, <3>2, <4>1, <5>1
      <4>2. CASE Tails(w)
        <5>1. ~Heads(w) /\ sockOpen /\ c2s' = Append(c2s, [from |-> w, part |-> "tail"])
          BY <3>2, <4>2 DEF Heads, Tails, Transmit
        <5> QED
          BY <1>4, <1>6, <3>2, <4>2, <5>1
      <4> QED
        BY <2>4, <4>1, <4>2
    <3> QED
      BY <3>1, <3>2
  <2> QED
    BY <1>6, <2>2, <2>3, <2>4 DEF WriteStep
<1> QED
  BY <1>0, <1>5, <1>6, WriteSteps

(* Writes are serialized by _write_lock, which the callers share with the
   reader's CLIENT_PONG: on the wire every head is directly followed by its
   own tail, whoever writes, fails or closes meanwhile (WholeFrames; _write,
   _reader_loop). *)
THEOREM FramesWhole == Spec => []WholeFrames
<1>1. Init => WriteInv
  <2> SUFFICES ASSUME Init PROVE WriteInv
    OBVIOUS
  <2>1. LockHeld
    BY CallsAssumption DEF Init, LockHeld, Senders, HeadDue, TailDue
  <2>2. HalfWritten /\ WholeFrames
    BY CallsAssumption DEF Init, HalfWritten, WholeFrames, Senders, TailDue
  <2> QED
    BY <2>1, <2>2, TypeInit DEF WriteInv
<1>2. WriteInv /\ [Next]_vars => WriteInv'
  BY TypeStep, LockHeldStep, WireStep DEF WriteInv
<1>3. WriteInv => WholeFrames
  BY DEF WriteInv
<1> QED
  BY <1>1, <1>2, <1>3, PTL DEF Spec

-----------------------------------------------------------------------------
(* Reading.  What the reader thread has not yet put into a queue is one    *)
(* sequence: the frame in its hand, its buffer, and the socket's.  Taking a*)
(* frame out of the buffer for a put, or bytes out of the socket, leaves   *)
(* that sequence alone; a put or a dropped frame removes its first item.   *)

Hand == IF rpc = "put" THEN <<rFrame>> ELSE <<>>
Ahead == Hand \o (buf \o s2c)

EmptyRecv == rpc = "recv" => buf = <<>>

(* A call writes one request: the server opens its stream once, and has    *)
(* answered nothing before.                                                *)
Unsent == {"idle", "register", "write", "send1"}
Once ==
  /\ \A c \in Calls : pc[c] \in Unsent => srv[c] = "unseen" /\ \A i \in DOMAIN c2s : c2s[i].from # c
  /\ \A c \in Calls : pc[c] = "send2" =>
       srv[c] = "unseen" /\ \A i \in DOMAIN c2s : c2s[i] # [from |-> c, part |-> "tail"]
  /\ \A c \in Calls : srv[c] = "unseen" => sent[c] = 0
  /\ \A i \in DOMAIN c2s : c2s[i].from \in Calls => srv[c2s[i].from] = "unseen"
  /\ \A i, j \in DOMAIN c2s : c2s[i].from \in Calls /\ c2s[i] = c2s[j] => i = j

(* The frame f is a piece of the answer to c, and an EOS frame the last.   *)
Piece(f, c) ==
  /\ f.op \in {"DATA", "END", "ERROR"} /\ f.of = c
  /\ f.n >= 1 /\ f.n <= sent[c]
  /\ f.eos => srv[c] = "finished" /\ f.n = sent[c]

(* What lies ahead of the queues is pieces of answers in the order sent.   *)
Answers ==
  /\ \A i \in DOMAIN Ahead : Ahead[i].of \in Calls => Piece(Ahead[i], Ahead[i].of)
  /\ \A i, j \in DOMAIN Ahead :
       i < j /\ Ahead[i].of = Ahead[j].of /\ Ahead[i].of \in Calls => Ahead[i].n < Ahead[j].n

(* A call that has not yet ended its collection.                           *)
Taking(c) == OpStream(c) /\ pc[c] \in {"register", "write", "send1", "send2", "wait", "open", "next"}

(* Its queue holds the next pieces of its answer, and then the sentinel.   *)
QueueOf(c) ==
  \A i \in DOMAIN queue[c] :
    \/ queue[c][i].op \in Errors /\ closedError # "none" /\ i = Len(queue[c])
    \/ Piece(queue[c][i], c) /\ queue[c][i].n = Len(got[c]) + i
Queued == ~reused => \A c \in Calls : Taking(c) => QueueOf(c)

(* And the rest of the answer sent so far lies ahead.                      *)
Reached(c) == Len(got[c]) + Len(queue[c])
RestOf(c) ==
  /\ Reached(c) <= sent[c]
  /\ \A i \in DOMAIN Ahead : Ahead[i].of = c => Ahead[i].n > Reached(c)
  /\ \A n \in 1..sent[c] : n > Reached(c) => \E i \in DOMAIN Ahead : Ahead[i].of = c /\ Ahead[i].n = n
Pending == ~reused /\ closedError = "none" => \A c \in Calls : Taking(c) => RestOf(c)

(* What a call collected is a prefix of its answer, and the whole of it    *)
(* once the EOS frame was taken.                                           *)
Collected ==
  /\ \A c \in Calls : outcome[c] = "ok" => pc[c] \in {"drop", "done"}
  /\ ~reused => \A c \in Calls : OpStream(c) =>
       /\ \A i \in DOMAIN got[c] : got[c][i].n = i
       /\ outcome[c] = "ok" => Len(got[c]) = sent[c] /\ srv[c] = "finished"

OrderInv ==
  /\ IInv /\ WriteInv /\ EmptyRecv /\ Once /\ Answers /\ Queued /\ Pending /\ Collected

-----------------------------------------------------------------------------
(* One request per call.                                                   *)

(* What a step does to the request's way to the server. *)
LEMMA RequestSteps ==
  ASSUME TypeOK, [Next]_vars
  PROVE  /\ \/ ServerRecv
            \/ \E e \in Calls : ServerSend(e)
            \/ UNCHANGED <<srv, sent>> /\ (UNCHANGED c2s \/ c2s' = <<>>)
            \/ /\ UNCHANGED <<srv, sent>>
               /\ \/ \E e \in Calls : SendHead(e) /\ c2s' = Append(c2s, [from |-> e, part |-> "head"])
                  \/ \E e \in Calls : SendTail(e) /\ c2s' = Append(c2s, [from |-> e, part |-> "tail"])
                  \/ \E part \in {"head", "tail"} :
                        UNCHANGED pc /\ c2s' = Append(c2s, [from |-> Reader, part |-> part])
         /\ \A d \in Calls : /\ pc'[d] \in Unsent => pc[d] \in Unsent
                             /\ pc'[d] = "send2" => pc[d] = "send2" \/ SendHead(d)
<1> USE DEF TypeOK, TypeCalls, callVars, tableVars, idVars, connVars, readerVars, serverVars, others, Goto,
        Unsent
<1>1. ASSUME NEW c \in Calls,
             \/ TakeStreamId(c) \/ StartPing(c) \/ StartClose(c) \/ Register(c)
             \/ WriteTooLarge(c) \/ LockWrite(c) \/ SendRaises(c)
      PROVE  /\ UNCHANGED <<srv, sent, c2s>>
             /\ \A d \in Calls : /\ pc'[d] \in Unsent => pc[d] \in Unsent
                                 /\ pc'[d] = "send2" => pc[d] = "send2"
  BY <1>1 DEF TakeStreamId, StartPing, StartClose, Register, WriteTooLarge, LockWrite, SendRaises,
     WriteRaises
<1>2. ASSUME NEW c \in Calls,
             \/ TakeFrame(c) \/ Timeout(c) \/ Deregister(c)
             \/ NextStart(c) \/ NextItem(c) \/ SubClose(c) \/ Close(c)
      PROVE  /\ UNCHANGED <<srv, sent, c2s>>
             /\ \A d \in Calls : /\ pc'[d] \in Unsent => pc[d] \in Unsent
                                 /\ pc'[d] = "send2" => pc[d] = "send2"
  BY <1>2 DEF TakeFrame, Timeout, Deregister, NextStart, NextItem, SubClose, Close
<1>3. ASSUME NEW c \in Calls, SendHead(c)
      PROVE  /\ UNCHANGED <<srv, sent>>
             /\ UNCHANGED c2s \/ c2s' = Append(c2s, [from |-> c, part |-> "head"])
             /\ \A d \in Calls : /\ pc'[d] \in Unsent => pc[d] \in Unsent
                                 /\ pc'[d] = "send2" => pc[d] = "send2" \/ d = c
  BY <1>3 DEF SendHead, Transmit
<1>4. ASSUME NEW c \in Calls, SendTail(c)
      PROVE  /\ UNCHANGED <<srv, sent>>
             /\ UNCHANGED c2s \/ c2s' = Append(c2s, [from |-> c, part |-> "tail"])
             /\ \A d \in Calls : /\ pc'[d] \in Unsent => pc[d] \in Unsent
                                 /\ pc'[d] = "send2" => pc[d] = "send2"
  <2>1. pc'[c] \notin Unsent \cup {"send2"} /\ \A d \in Calls \ {c} : pc'[d] = pc[d]
    BY <1>4 DEF SendTail
  <2>2. UNCHANGED <<srv, sent>>
    BY <1>4 DEF SendTail
  <2>3. UNCHANGED c2s \/ c2s' = Append(c2s, [from |-> c, part |-> "tail"])
    BY <1>4 DEF SendTail, Transmit
  <2> QED
    BY <2>1, <2>2, <2>3
<1>5. CASE ReaderStep
  <2>1. UNCHANGED <<pc, srv, sent>>
    BY <1>5 DEF ReaderStep, ReaderNeedsBytes, ReaderRecv, ReaderDecode, ReaderPut, ReaderLockWrite,
       ReaderSendHead, ReaderSendTail, ReaderSendRaises
  <2>2. \/ UNCHANGED c2s
        \/ \E part \in {"head", "tail"} : c2s' = Append(c2s, [from |-> Reader, part |-> part])
    BY <1>5 DEF ReaderStep, ReaderNeedsBytes, ReaderRecv, ReaderDecode, ReaderPut, ReaderLockWrite,
       ReaderSendHead, ReaderSendTail, ReaderSendRaises, Transmit
  <2> QED
    BY <2>1, <2>2
<1>6. CASE ServerPing \/ ServerCorrupts \/ PeerDrops \/ UNCHANGED vars
  BY <1>6 DEF ServerPing, ServerCorrupts, PeerDrops, vars
<1>7. CASE ServerRecv \/ \E e \in Calls : ServerSend(e)
  <2>1. UNCHANGED pc
    BY <1>7 DEF ServerRecv, ServerSend
  <2> QED
    BY <1>7, <2>1
<1> QED
  BY <1>1, <1>2, <1>3, <1>4, <1>5, <1>6, <1>7 DEF Next, CallStep, Environment

(* Appending a part nobody has written yet keeps each part unique. *)
LEMMA OnceAppend ==
  ASSUME TypeOK, Once, NEW w \in Senders, NEW part \in {"head", "tail"},
         c2s' = Append(c2s, [from |-> w, part |-> part]), UNCHANGED <<srv, sent>>,
         w \in Calls => /\ srv[w] = "unseen"
                        /\ \A i \in DOMAIN c2s : c2s[i] # [from |-> w, part |-> part]
  PROVE  /\ \A i \in DOMAIN c2s' : c2s'[i].from \in Calls => srv'[c2s'[i].from] = "unseen"
         /\ \A i, j \in DOMAIN c2s' : c2s'[i].from \in Calls /\ c2s'[i] = c2s'[j] => i = j
         /\ \A i \in DOMAIN c2s' : (i \in DOMAIN c2s /\ c2s'[i] = c2s[i])
                                   \/ c2s'[i] = [from |-> w, part |-> part]
<1> DEFINE L == Len(c2s)
<1>1. /\ L \in Nat /\ DOMAIN c2s = 1..L /\ DOMAIN c2s' = 1..(L + 1)
      /\ \A i \in DOMAIN c2s : c2s'[i] = c2s[i]
      /\ c2s'[L + 1] = [from |-> w, part |-> part]
  BY Extended
<1> HIDE DEF L
<1>2. \A i \in DOMAIN c2s' : i \in DOMAIN c2s \/ i = L + 1
  BY <1>1
<1>3. c2s'[L + 1].from = w
  BY <1>1
<1>4. ASSUME NEW i \in DOMAIN c2s', c2s'[i].from \in Calls PROVE srv'[c2s'[i].from] = "unseen"
  BY <1>1, <1>2, <1>3, <1>4 DEF Once
<1>5. ASSUME NEW i \in DOMAIN c2s', NEW j \in DOMAIN c2s', c2s'[i].from \in Calls, c2s'[i] = c2s'[j]
      PROVE  i = j
  BY <1>1, <1>2, <1>3, <1>5 DEF Once
<1> QED
  BY <1>1, <1>2, <1>4, <1>5

(* Once is preserved. *)
LEMMA OnceStep ==
  ASSUME WriteInv, Once, [Next]_vars
  PROVE  Once'
<1>0. TypeOK /\ WholeFrames /\ Len(c2s) \in Nat /\ DOMAIN c2s = 1..Len(c2s)
      /\ \A i \in DOMAIN c2s : c2s[i] \in Part
  BY LenIsNat, ElementOfSeq DEF WriteInv, TypeOK, TypeServer
<1>a. \A d \in Calls : /\ pc'[d] \in Unsent => pc[d] \in Unsent
                       /\ pc'[d] = "send2" => pc[d] = "send2" \/ SendHead(d)
  BY <1>0, RequestSteps
<1>b. \A d \in Calls : SendHead(d) => pc[d] = "send1" /\ "send1" \in Unsent
  BY DEF SendHead, Unsent
<1>1. CASE UNCHANGED <<srv, sent, c2s>>
  BY <1>1, <1>a, <1>b DEF Once
<1>2. CASE UNCHANGED <<srv, sent>> /\ c2s' = <<>>
  BY <1>2, <1>a, <1>b DEF Once
<1>3. ASSUME NEW e \in Calls, ServerSend(e) PROVE Once'
  <2>1. UNCHANGED <<pc, c2s>> /\ srv[e] = "open" /\ srv'[e] \in {"open", "finished"}
        /\ \A d \in Calls \ {e} : srv'[d] = srv[d] /\ sent'[d] = sent[d]
    BY <1>0, <1>3 DEF ServerSend, TypeOK, TypeServer, callVars
  <2> QED
    BY <2>1 DEF Once
<1>4. CASE ServerRecv
  <2> DEFINE c == c2s[1].from
  <2>1. /\ UNCHANGED <<pc, sent>>
        /\ srv' = srv \/ (c \in Calls /\ srv' = [srv EXCEPT ![c] = "open"])
    BY <1>4 DEF ServerRecv, callVars
  <2>2. /\ c2s[1].part = "head" /\ c2s[2].part = "tail" /\ Len(c2s) >= 2
        /\ DOMAIN c2s' = 1..Len(c2s') /\ Len(c2s') = Len(c2s) - 2
        /\ \A i \in 1..Len(c2s') : c2s'[i] = c2s[i + 2]
    BY <1>0, <1>4, FirstFrame
  <2>3. \A i \in DOMAIN c2s' : i + 2 \in DOMAIN c2s /\ i + 2 # 1 /\ i + 2 # 2 /\ c2s'[i] = c2s[i + 2]
    BY <1>0, <2>2
  <2>4. 1 \in DOMAIN c2s /\ 2 \in DOMAIN c2s
    BY <1>0, <2>2
  <2>5. c2s[1] = [from |-> c, part |-> "head"] /\ c2s[2] = [from |-> c, part |-> "tail"]
    <3>1. 1 \in 1..Len(c2s) /\ 1 < Len(c2s) /\ 1 + 1 = 2
      BY <1>0, <2>2
    <3>2. c2s[1 + 1] = [from |-> c2s[1].from, part |-> "tail"]
      BY <1>0, <2>2, <3>1, WholeAt, Zenon
    <3>3. c2s[1] \in Part
      BY <1>0, <2>4
    <3> QED
      BY <2>2, <3>1, <3>2, <3>3 DEF Part
  <2>6. c \in Calls => \A i \in DOMAIN c2s : i # 1 /\ i # 2 => c2s[i].from # c
    <3> SUFFICES ASSUME c \in Calls, NEW i \in DOMAIN c2s, i # 1, i # 2, c2s[i].from = c PROVE FALSE
      OBVIOUS
    <3>1. c2s[i] \in Part
      BY <1>0
    <3>2. c2s[i] = [from |-> c, part |-> "head"] \/ c2s[i] = [from |-> c, part |-> "tail"]
      BY <3>1 DEF Part
    <3> QED
      BY <2>4, <2>5, <3>2 DEF Once
  <2>7. c \in Calls => pc[c] \notin Unsent /\ pc[c] # "send2"
    <3>1. c2s[2].from = c
      BY <2>5
    <3> QED
      BY <2>4, <2>5, <3>1 DEF Once
  <2>8. /\ \A d \in Calls : d # c => srv'[d] = srv[d]
        /\ \A d \in Calls : srv'[d] = "unseen" => srv[d] = "unseen"
    BY <1>0, <2>1 DEF TypeOK, TypeServer
  <2>9. \A d \in Calls : pc'[d] \in Unsent =>
           srv'[d] = "unseen" /\ \A i \in DOMAIN c2s' : c2s'[i].from # d
    BY <2>1, <2>3, <2>7, <2>8 DEF Once
  <2>10. \A d \in Calls : pc'[d] = "send2" =>
           srv'[d] = "unseen" /\ \A i \in DOMAIN c2s' : c2s'[i] # [from |-> d, part |-> "tail"]
    BY <2>1, <2>3, <2>7, <2>8 DEF Once
  <2>11. \A d \in Calls : srv'[d] = "unseen" => sent'[d] = 0
    BY <2>1, <2>8 DEF Once
  <2>12. \A i \in DOMAIN c2s' : c2s'[i].from \in Calls => srv'[c2s'[i].from] = "unseen"
    BY <2>3, <2>6, <2>8 DEF Once
  <2>13. \A i, j \in DOMAIN c2s' : c2s'[i].from \in Calls /\ c2s'[i] = c2s'[j] => i = j
    <3> SUFFICES ASSUME NEW i \in DOMAIN c2s', NEW j \in DOMAIN c2s', c2s'[i].from \in Calls,
                        c2s'[i] = c2s'[j]
                 PROVE  i = j
      OBVIOUS
    <3>1. i + 2 = j + 2
      BY <2>3 DEF Once
    <3> QED
      BY <2>2, <3>1
  <2> QED
    BY <2>9, <2>10, <2>11, <2>12, <2>13 DEF Once
<1>5. ASSUME NEW e \in Calls, SendHead(e), c2s' = Append(c2s, [from |-> e, part |-> "head"]),
             UNCHANGED <<srv, sent>>
      PROVE  Once'
  <2>1. pc[e] = "send1" /\ pc'[e] = "send2" /\ e \in Senders /\ pc[e] \in Unsent
    BY <1>0, <1>5 DEF SendHead, Goto, TypeOK, TypeCalls, Senders, Unsent
  <2>2. srv[e] = "unseen" /\ \A i \in DOMAIN c2s : c2s[i].from # e
    BY <2>1 DEF Once
  <2>3. \A i \in DOMAIN c2s : c2s[i] # [from |-> e, part |-> "head"]
    BY <2>2
  <2>4. /\ \A i \in DOMAIN c2s' : c2s'[i].from \in Calls => srv'[c2s'[i].from] = "unseen"
        /\ \A i, j \in DOMAIN c2s' : c2s'[i].from \in Calls /\ c2s'[i] = c2s'[j] => i = j
        /\ \A i \in DOMAIN c2s' : (i \in DOMAIN c2s /\ c2s'[i] = c2s[i])
                                   \/ c2s'[i] = [from |-> e, part |-> "head"]
    BY <1>0, <1>5, <2>1, <2>2, <2>3, OnceAppend
  <2>5. \A d \in Calls : pc'[d] \in Unsent =>
           srv'[d] = "unseen" /\ \A i \in DOMAIN c2s' : c2s'[i].from # d
    BY <1>5, <1>a, <2>1, <2>4 DEF Once, Unsent
  <2>6. \A d \in Calls : pc'[d] = "send2" =>
           srv'[d] = "unseen" /\ \A i \in DOMAIN c2s' : c2s'[i] # [from |-> d, part |-> "tail"]
    BY <1>5, <1>a, <1>b, <2>1, <2>2, <2>4 DEF Once
  <2>7. \A d \in Calls : srv'[d] = "unseen" => sent'[d] = 0
    BY <1>5 DEF Once
  <2> QED
    BY <2>4, <2>5, <2>6, <2>7 DEF Once
<1>6. ASSUME NEW e \in Calls, SendTail(e), c2s' = Append(c2s, [from |-> e, part |-> "tail"]),
             UNCHANGED <<srv, sent>>
      PROVE  Once'
  <2>1. /\ pc[e] = "send2" /\ pc'[e] # "send2" /\ e \in Senders /\ pc'[e] \notin Unsent
        /\ \A d \in Calls \ {e} : pc'[d] = pc[d]
    BY <1>0, <1>6 DEF SendTail, Goto, TypeOK, TypeCalls, Senders, Unsent
  <2>2. srv[e] = "unseen" /\ \A i \in DOMAIN c2s : c2s[i] # [from |-> e, part |-> "tail"]
    BY <2>1 DEF Once
  <2>4. /\ \A i \in DOMAIN c2s' : c2s'[i].from \in Calls => srv'[c2s'[i].from] = "unseen"
        /\ \A i, j \in DOMAIN c2s' : c2s'[i].from \in Calls /\ c2s'[i] = c2s'[j] => i = j
        /\ \A i \in DOMAIN c2s' : (i \in DOMAIN c2s /\ c2s'[i] = c2s[i])
                                   \/ c2s'[i] = [from |-> e, part |-> "tail"]
    BY <1>0, <1>6, <2>1, <2>2, OnceAppend
  <2>5. \A d \in Calls : pc'[d] \in Unsent =>
           srv'[d] = "unseen" /\ \A i \in DOMAIN c2s' : c2s'[i].from # d
    BY <1>6, <2>1, <2>4 DEF Once
  <2>6. \A d \in Calls : pc'[d] = "send2" =>
           srv'[d] = "unseen" /\ \A i \in DOMAIN c2s' : c2s'[i] # [from |-> d, part |-> "tail"]
    BY <1>6, <2>1, <2>4 DEF Once
  <2>7. \A d \in Calls : srv'[d] = "unseen" => sent'[d] = 0
    BY <1>6 DEF Once
  <2> QED
    BY <2>4, <2>5, <2>6, <2>7 DEF Once
<1>7. ASSUME NEW part \in {"head", "tail"}, c2s' = Append(c2s, [from |-> Reader, part |-> part]),
             UNCHANGED <<pc, srv, sent>>
      PROVE  Once'
  <2>1. Reader \in Senders /\ Reader \notin Calls
    BY CallsAssumption DEF Senders
  <2>2. /\ \A i \in DOMAIN c2s' : c2s'[i].from \in Calls => srv'[c2s'[i].from] = "unseen"
        /\ \A i, j \in DOMAIN c2s' : c2s'[i].from \in Calls /\ c2s'[i] = c2s'[j] => i = j
        /\ \A i \in DOMAIN c2s' : (i \in DOMAIN c2s /\ c2s'[i] = c2s[i])
                                   \/ c2s'[i] = [from |-> Reader, part |-> part]
    BY <1>0, <1>7, <2>1, OnceAppend
  <2> QED
    BY <1>7, <2>1, <2>2 DEF Once
<1> QED
  BY <1>0, <1>1, <1>2, <1>3, <1>4, <1>5, <1>6, <1>7, RequestSteps

-----------------------------------------------------------------------------
(* What lies ahead of the queues.                                          *)

(* Moving the boundaries between sequences that are read one after another. *)
LEMMA SeqAlgebra ==
  ASSUME NEW S, NEW s \in Seq(S), NEW t \in Seq(S), NEW e \in S
  PROVE  /\ <<>> \o s = s
         /\ s \o t \in Seq(S)
         /\ <<e>> \o s # <<>> /\ Head(<<e>> \o s) = e /\ Tail(<<e>> \o s) = s
         /\ s \o Append(t, e) = Append(s \o t, e)
         /\ s # <<>> => /\ s \o t # <<>> /\ Head(s \o t) = Head(s) /\ Tail(s \o t) = Tail(s) \o t
                        /\ <<Head(s)>> \o (Tail(s) \o t) = s \o t
<1>0. <<e>> \in Seq(S) /\ <<>> \in Seq(S)
  OBVIOUS
<1>1. <<>> \o s = s
  BY ConcatEmptySeq
<1>2. s \o t \in Seq(S)
  BY ConcatProperties
<1>3. <<e>> \o s # <<>> /\ Head(<<e>> \o s) = e
  BY <1>0
<1>4. Tail(<<e>> \o s) = s
  BY <1>0, <1>3
<1>5. s \o Append(t, e) = Append(s \o t, e)
  <2>1. Append(t, e) = t \o <<e>> /\ Append(s \o t, e) = (s \o t) \o <<e>>
    BY <1>2, AppendIsConcat
  <2> QED
    BY <1>0, <2>1, ConcatAssociative
<1>6. ASSUME s # <<>>
      PROVE  /\ s \o t # <<>> /\ Head(s \o t) = Head(s) /\ Tail(s \o t) = Tail(s) \o t
             /\ <<Head(s)>> \o (Tail(s) \o t) = s \o t
  <2>1. s \o t # <<>> /\ Head(s \o t) = Head(s)
    BY <1>6
  <2>2. Tail(s \o t) = Tail(s) \o t
    BY <1>6
  <2>3. <<Head(s)>> \in Seq(S) /\ Tail(s) \in Seq(S) /\ s = <<Head(s)>> \o Tail(s)
    BY <1>6
  <2>4. <<Head(s)>> \o (Tail(s) \o t) = s \o t
    BY <2>3, ConcatAssociative
  <2> QED
    BY <2>1, <2>2, <2>4
<1> QED
  BY <1>1, <1>2, <1>3, <1>4, <1>5, <1>6

(* Cutting a sequence and joining the parts. *)
LEMMA Rejoined ==
  ASSUME NEW S, NEW s \in Seq(S), NEW n \in 1..Len(s)
  PROVE  SubSeq(s, 1, n) \o SubSeq(s, n + 1, Len(s)) = s
BY ConcatAdjacentSubSeq, SubSeqFull, LenProperties

(* The reader has decoded a frame and keeps none in its hand: a heartbeat,
   or an answer nobody is registered for. *)
Dropped(f) ==
  /\ UNCHANGED <<callVars, tableVars, reused, sent, srv>>
  /\ f.op = "SERVER_PING" \/ (f.op \notin {"BAD", "SERVER_PING"} /\ routes[f.sid] = NoCall)

Shrinks == Ahead # <<>> /\ Ahead' = Tail(Ahead)

(* The sequence ahead, its head, and what follows. *)
LEMMA AheadType == ASSUME TypeOK PROVE Ahead \in Seq(Frame)
<1>1. buf \o s2c \in Seq(Frame)
  BY ConcatProperties DEF TypeOK, TypeReader, TypeServer
<1>2. Hand \in Seq(Frame)
  BY DEF Hand, TypeOK, TypeReader
<1> QED
  BY <1>1, <1>2, ConcatProperties DEF Ahead

(* What each step does to the sequence ahead. *)
LEMMA AheadSteps ==
  ASSUME TypeOK, EmptyRecv, [Next]_vars
  PROVE  \/ ReaderFails /\ (Ahead' = Ahead \/ Shrinks) /\ UNCHANGED <<sent, srv>>
         \/ ReaderPut /\ Shrinks /\ Head(Ahead) = rFrame
         \/ Shrinks /\ Head(Ahead) \in Frame /\ Dropped(Head(Ahead)) /\ buf # <<>>
            /\ Head(Ahead) = Head(buf)
         \/ /\ \E c \in Calls : ServerSend(c)
            /\ \A f \in Frame : s2c' = Append(s2c, f) => Ahead' = Append(Ahead, f)
         \/ /\ \E op \in {"SERVER_PING", "BAD"} : Ahead' = Append(Ahead, Control(op))
            /\ UNCHANGED <<callVars, tableVars, reused, sent, srv>>
         \/ /\ Ahead' = Ahead /\ UNCHANGED <<sent, closedError>>
            /\ UNCHANGED <<queue, got>> \/ \E c \in Calls : TakeFrame(c) \/ NextItem(c)
<1> DEFINE rest == buf \o s2c
<1>0. /\ buf \in Seq(Frame) /\ s2c \in Seq(Frame) /\ rest \in Seq(Frame) /\ rFrame \in Frame
      /\ Hand \in Seq(Frame)
  BY ConcatProperties DEF TypeOK, TypeReader, TypeServer, Hand
<1> USE DEF callVars, tableVars, idVars, connVars, readerVars, serverVars, others
<1>1. ASSUME UNCHANGED <<buf, s2c>>, rpc = "put" <=> rpc' = "put", rpc = "put" => UNCHANGED rFrame
      PROVE  Ahead' = Ahead
  BY <1>1 DEF Ahead, Hand
<1>2. ASSUME NEW c \in Calls, CallStep(c)
      PROVE  /\ Ahead' = Ahead /\ UNCHANGED <<sent, closedError>>
             /\ UNCHANGED <<queue, got>> \/ TakeFrame(c) \/ NextItem(c)
  <2>1. /\ UNCHANGED <<buf, s2c, rpc, rFrame, sent, closedError>>
        /\ UNCHANGED <<queue, got>> \/ TakeFrame(c) \/ NextItem(c)
    BY <1>2 DEF CallStep, TakeStreamId, StartPing, StartClose, Register, WriteTooLarge, LockWrite,
       SendHead, SendTail, SendRaises, TakeFrame, Timeout, Deregister, NextStart, NextItem, SubClose,
       Close
  <2> QED
    BY <1>1, <2>1
<1>3. CASE ReaderNeedsBytes
  <2>1. Ahead' = Ahead
    <3>1. UNCHANGED <<buf, s2c>> /\ rpc # "put" /\ rpc' # "put"
      BY <1>3 DEF ReaderNeedsBytes, FailAll
    <3> QED
      BY <1>1, <3>1
  <2>2. CASE sockOpen
    BY <1>3, <2>1, <2>2 DEF ReaderNeedsBytes
  <2>3. CASE ~sockOpen
    BY <1>3, <2>1, <2>3 DEF ReaderNeedsBytes, ReaderFails, Errors
  <2> QED
    BY <2>2, <2>3
<1>4. CASE ReaderRecv
  <2>1. rpc = "recv" /\ rpc' # "put" /\ buf = <<>> /\ UNCHANGED <<sent, srv>> /\ UNCHANGED <<callVars, idVars>>
    BY <1>4 DEF ReaderRecv, FailAll, EmptyRecv
  <2>2. ASSUME NEW n \in 1..Len(s2c), buf' = SubSeq(s2c, 1, n), s2c' = SubSeq(s2c, n + 1, Len(s2c))
        PROVE  Ahead' = Ahead
    <3>1. buf' \o s2c' = s2c
      BY <1>0, <2>2, Rejoined
    <3>2. rest = s2c
      BY <1>0, <2>1, SeqAlgebra
    <3>3. Hand = <<>> /\ Hand' = <<>>
      BY <2>1 DEF Hand
    <3> QED
      BY <3>1, <3>2, <3>3 DEF Ahead
  <2>3. CASE UNCHANGED <<buf, s2c>> /\ \E error \in Errors : FailAll(error)
    <3>1. Ahead' = Ahead
      BY <1>1, <2>1, <2>3
    <3> QED
      BY <2>1, <2>3, <3>1 DEF ReaderFails
  <2>4. \/ \E n \in 1..Len(s2c) : /\ buf' = SubSeq(s2c, 1, n)
                                  /\ s2c' = SubSeq(s2c, n + 1, Len(s2c))
                                  /\ UNCHANGED tableVars
        \/ UNCHANGED <<buf, s2c>> /\ \E error \in Errors : FailAll(error)
    BY <1>4 DEF ReaderRecv, Errors
  <2> QED
    BY <2>1, <2>2, <2>3, <2>4
<1>5. CASE ReaderDecode
  <2>1. /\ rpc = "loop" /\ buf # <<>> /\ buf' = Tail(buf) /\ UNCHANGED <<s2c, callVars, idVars, sent, srv>>
    BY <1>5 DEF ReaderDecode
  <2>2. Hand = <<>> /\ Ahead = rest /\ Head(buf) \in Frame
    BY <1>0, <2>1, SeqAlgebra, HeadTailProperties DEF Hand, Ahead
  <2>3. /\ rest # <<>> /\ Head(rest) = Head(buf) /\ Tail(rest) = Tail(buf) \o s2c
        /\ <<Head(buf)>> \o (Tail(buf) \o s2c) = rest
    BY <1>0, <2>1, <2>2, SeqAlgebra
  <2>4. rpc' # "put" => Shrinks /\ Head(Ahead) = Head(buf)
    <3>1. rpc' # "put" => Ahead' = <<>> \o (Tail(buf) \o s2c)
      BY <2>1 DEF Ahead, Hand
    <3>2. Tail(buf) \o s2c \in Seq(Frame)
      BY <1>0, <2>1, HeadTailProperties, ConcatProperties
    <3>3. <<>> \o (Tail(buf) \o s2c) = Tail(buf) \o s2c
      BY <3>2, ConcatEmptySeq
    <3> QED
      BY <2>2, <2>3, <3>1, <3>3 DEF Shrinks
  <2>5. CASE Head(buf).op = "BAD"
    <3>1. FailAll("ConnectionClosed")
      BY <1>5, <2>5 DEF ReaderDecode
    <3> QED
      BY <2>1, <2>4, <3>1 DEF ReaderFails, Errors, FailAll
  <2>6. CASE Head(buf).op # "BAD" /\ rpc' # "put"
    <3>1. Dropped(Head(buf))
      BY <1>5, <2>1, <2>6 DEF ReaderDecode, Dropped
    <3> QED
      BY <2>1, <2>2, <2>4, <2>6, <3>1
  <2>7. CASE Head(buf).op # "BAD" /\ rpc' = "put"
    <3>1. rFrame' = Head(buf) /\ UNCHANGED tableVars
      BY <1>5, <2>7 DEF ReaderDecode
    <3>2. Ahead' = <<Head(buf)>> \o (Tail(buf) \o s2c)
      BY <2>1, <2>7, <3>1 DEF Ahead, Hand
    <3> QED
      BY <2>1, <2>2, <2>3, <3>1, <3>2
  <2> QED
    BY <2>5, <2>6, <2>7
<1>6. CASE ReaderPut
  <2>1. rpc = "put" /\ rpc' = "loop" /\ UNCHANGED <<buf, s2c>>
    BY <1>6 DEF ReaderPut
  <2>2. Ahead = <<rFrame>> \o rest /\ Ahead' = <<>> \o rest
    BY <2>1 DEF Ahead, Hand
  <2>3. <<rFrame>> \o rest # <<>> /\ Head(<<rFrame>> \o rest) = rFrame
        /\ Tail(<<rFrame>> \o rest) = rest /\ <<>> \o rest = rest
    BY <1>0, SeqAlgebra
  <2> QED
    BY <1>6, <2>2, <2>3 DEF Shrinks
<1>7. CASE ReaderLockWrite \/ ReaderSendHead \/ ReaderSendTail \/ ReaderSendRaises
  <2>1. UNCHANGED <<buf, s2c, sent, closedError, queue, got>> /\ rpc # "put" /\ rpc' # "put"
    BY <1>7 DEF ReaderLockWrite, ReaderSendHead, ReaderSendTail, ReaderSendRaises
  <2> QED
    BY <1>1, <2>1
<1>8. CASE ServerRecv \/ PeerDrops \/ UNCHANGED vars
  <2>1. UNCHANGED <<buf, s2c, sent, closedError, queue, got, rpc, rFrame>>
    BY <1>8 DEF ServerRecv, PeerDrops, vars
  <2> QED
    BY <1>1, <2>1
<1>9. ASSUME NEW f \in Frame, s2c' = Append(s2c, f), UNCHANGED readerVars PROVE Ahead' = Append(Ahead, f)
  <2>1. buf \o s2c' = Append(rest, f)
    BY <1>0, <1>9, SeqAlgebra
  <2>2. Hand \o Append(rest, f) = Append(Hand \o rest, f)
    BY <1>0, SeqAlgebra
  <2>3. Ahead' = Hand \o (buf \o s2c')
    BY <1>9 DEF Ahead, Hand
  <2> QED
    BY <2>1, <2>2, <2>3 DEF Ahead
<1>10. ASSUME NEW c \in Calls, ServerSend(c)
       PROVE \A f \in Frame : s2c' = Append(s2c, f) => Ahead' = Append(Ahead, f)
  <2>1. UNCHANGED readerVars
    BY <1>10 DEF ServerSend
  <2> QED
    BY <1>9, <2>1
<1>11. CASE ServerPing \/ ServerCorrupts
  <2>1. PICK op \in {"SERVER_PING", "BAD"} : s2c' = Append(s2c, Control(op))
    BY <1>11 DEF ServerPing, ServerCorrupts
  <2>2. Control(op) \in Frame
    BY FrameFacts DEF FrameOps
  <2>3. UNCHANGED <<readerVars, callVars, tableVars, reused, sent, srv>>
    BY <1>11 DEF ServerPing, ServerCorrupts
  <2> QED
    BY <1>9, <2>1, <2>2, <2>3
<1> QED
  BY <1>2, <1>3, <1>4, <1>5, <1>6, <1>7, <1>8, <1>10, <1>11 DEF Next, ReaderStep, Environment

(* EmptyRecv is preserved: read_frame asks for bytes when it has none. *)
LEMMA EmptyRecvStep ==
  ASSUME TypeOK, EmptyRecv, [Next]_vars
  PROVE  EmptyRecv'
<1> USE DEF callVars, tableVars, idVars, connVars, readerVars, serverVars, others, EmptyRecv
<1>1. CASE \E c \in Calls : CallStep(c)
  BY <1>1 DEF CallStep, TakeStreamId, StartPing, StartClose, Register, WriteTooLarge, LockWrite,
     SendHead, SendTail, SendRaises, TakeFrame, Timeout, Deregister, NextStart, NextItem, SubClose,
     Close
<1>2. CASE ReaderStep
  BY <1>2 DEF ReaderStep, ReaderNeedsBytes, ReaderRecv, ReaderDecode, ReaderPut, ReaderLockWrite,
     ReaderSendHead, ReaderSendTail, ReaderSendRaises, FailAll
<1>3. CASE Environment
  BY <1>3 DEF Environment, ServerRecv, ServerSend, ServerPing, ServerCorrupts, PeerDrops
<1>4. CASE UNCHANGED vars
  BY <1>4 DEF vars
<1> QED
  BY <1>1, <1>2, <1>3, <1>4 DEF Next

-----------------------------------------------------------------------------
(* Pieces of answers.                                                      *)

(* The fields of a frame. *)
LEMMA FrameFields ==
  ASSUME NEW f \in Frame
  PROVE  f.n \in Nat /\ f.eos \in BOOLEAN /\ f.of \in Calls \cup {NoCall} /\ f.sid \in StreamIds
BY DEF Frame

(* The frame f, as it is now, is a piece of the answer to c after the step. *)
PieceNext(f, c) ==
  /\ f.op \in {"DATA", "END", "ERROR"} /\ f.of = c
  /\ f.n >= 1 /\ f.n <= sent'[c]
  /\ f.eos => srv'[c] = "finished" /\ f.n = sent'[c]

(* What an answer of the server adds. *)
Sends(c, f) ==
  /\ s2c' = Append(s2c, f) /\ f.of = c /\ f.n = sent[c] + 1
  /\ srv[c] = "open" /\ sent'[c] = sent[c] + 1
  /\ UNCHANGED <<callVars, tableVars, reused>>
  /\ \A d \in Calls \ {c} : sent'[d] = sent[d] /\ srv'[d] = srv[d]

(* ServerSend sends one frame, a piece of the answer. *)
LEMMA SendEffect ==
  ASSUME TypeOK, NEW c \in Calls, ServerSend(c)
  PROVE  \E f \in Frame : Sends(c, f) /\ PieceNext(f, c)
<1>1. PICK op \in {"DATA", "END", "ERROR"}, eos \in BOOLEAN :
        /\ s2c' = Append(s2c, [sid |-> sid[c], op |-> op, eos |-> eos, of |-> c, n |-> sent[c] + 1])
        /\ srv' = [srv EXCEPT ![c] = IF eos THEN "finished" ELSE "open"]
  BY DEF ServerSend
<1> DEFINE f == [sid |-> sid[c], op |-> op, eos |-> eos, of |-> c, n |-> sent[c] + 1]
<1>2. sid[c] \in StreamIds /\ sent[c] \in Nat
  BY DEF TypeOK, TypeCalls, TypeServer
<1>3. f \in Frame
  BY <1>2 DEF Frame, FrameOps
<1>4. /\ srv'[c] = (IF eos THEN "finished" ELSE "open") /\ sent'[c] = sent[c] + 1 /\ srv[c] = "open"
      /\ \A d \in Calls \ {c} : sent'[d] = sent[d] /\ srv'[d] = srv[d]
      /\ UNCHANGED <<callVars, tableVars, reused>>
  BY <1>1 DEF ServerSend, TypeOK, TypeServer, idVars
<1>5. Sends(c, f)
  BY <1>1, <1>4 DEF Sends
<1>6. PieceNext(f, c)
  BY <1>2, <1>4 DEF PieceNext
<1> QED
  BY <1>3, <1>5, <1>6

(* A piece of an answer remains one, whoever is answered next. *)
LEMMA PieceStep ==
  ASSUME TypeOK, Once, [Next]_vars, NEW c \in Calls, NEW f \in Frame, Piece(f, c)
  PROVE  PieceNext(f, c) /\ (ServerSend(c) => f.n < sent'[c])
<1>0. f.n \in Nat /\ sent[c] \in Nat /\ srv[c] # "unseen"
  BY FrameFields DEF TypeOK, TypeServer, Piece, Once
<1>1. CASE ServerSend(c)
  <2>1. PICK g \in Frame : Sends(c, g)
    BY <1>1, SendEffect
  <2> QED
    BY <1>0, <2>1 DEF Sends, Piece, PieceNext
<1>2. ASSUME ~ServerSend(c), sent'[c] = sent[c], srv'[c] = srv[c]
      PROVE  PieceNext(f, c) /\ (ServerSend(c) => f.n < sent'[c])
  BY <1>2 DEF Piece, PieceNext
<1>3. ASSUME NEW d \in Calls, ServerSend(d), d # c PROVE sent'[c] = sent[c] /\ srv'[c] = srv[c]
  BY <1>3, SendEffect DEF Sends
<1>4. ASSUME ServerRecv PROVE sent'[c] = sent[c] /\ srv'[c] = srv[c]
  <2>1. /\ UNCHANGED sent /\ Len(c2s) >= 2
        /\ srv' = srv \/ (c2s[1].from \in Calls /\ srv' = [srv EXCEPT ![c2s[1].from] = "open"])
    BY <1>4 DEF ServerRecv
  <2>2. 1 \in DOMAIN c2s
    BY <2>1, LenIsNat DEF TypeOK, TypeServer
  <2>3. c2s[1].from # c
    BY <1>0, <2>2 DEF Once
  <2> QED
    BY <2>1, <2>3 DEF TypeOK, TypeServer
<1>5. ServerSend(c) \/ (\E d \in Calls : ServerSend(d) /\ d # c) \/ ServerRecv \/ UNCHANGED <<srv, sent>>
  BY RequestSteps
<1>6. CASE ~ServerSend(c)
  <2>1. sent'[c] = sent[c] /\ srv'[c] = srv[c]
    BY <1>3, <1>4, <1>5, <1>6
  <2> QED
    BY <1>2, <1>6, <2>1
<1> QED
  BY <1>1, <1>6

(* The elements of a sequence of frames, its tail and its extension. *)
LEMMA Elements ==
  ASSUME NEW s \in Seq(Frame)
  PROVE  /\ Len(s) \in Nat /\ DOMAIN s = 1..Len(s)
         /\ \A i \in DOMAIN s : s[i] \in Frame /\ s[i].n \in Nat
BY LenProperties, ElementOfSeq, FrameFields

(* What Head and Tail leave of a queue. *)
LEMMA Popped ==
  ASSUME NEW S, NEW s \in Seq(S), s # <<>>
  PROVE  /\ Head(s) = s[1] /\ Head(s) \in S /\ 1 \in DOMAIN s
         /\ Len(Tail(s)) = Len(s) - 1 /\ DOMAIN Tail(s) = 1..(Len(s) - 1)
         /\ \A i \in DOMAIN Tail(s) : /\ i + 1 \in DOMAIN s /\ i + 1 # 1 /\ i \in Nat
                                      /\ Tail(s)[i] = s[i + 1]
         /\ \A i \in DOMAIN s : i # 1 => i - 1 \in DOMAIN Tail(s) /\ Tail(s)[i - 1] = s[i]
<1>1. Len(s) \in Nat /\ Len(s) # 0 /\ DOMAIN s = 1..Len(s) /\ s[1] \in S
  BY LenProperties, EmptySeq
<1>2. Head(s) = s[1] /\ Tail(s) \in Seq(S) /\ Len(Tail(s)) = Len(s) - 1
  BY HeadTailProperties
<1>3. DOMAIN Tail(s) = 1..(Len(s) - 1)
  BY <1>1, <1>2, LenProperties
<1>4. \A i \in 1..(Len(s) - 1) : Tail(s)[i] = s[i + 1]
  BY <1>1, HeadTailProperties
<1>5. \A i \in DOMAIN s : i # 1 => i - 1 \in 1..(Len(s) - 1) /\ (i - 1) + 1 = i
  BY <1>1
<1>6. \A i \in DOMAIN s : i # 1 => Tail(s)[i - 1] = s[i]
  BY <1>4, <1>5
<1> QED
  BY <1>1, <1>2, <1>3, <1>4, <1>5, <1>6

(* What Append makes of a queue. *)
LEMMA Appended ==
  ASSUME NEW S, NEW s \in Seq(S), NEW e \in S
  PROVE  /\ Len(s) \in Nat /\ DOMAIN s = 1..Len(s)
         /\ Len(Append(s, e)) = Len(s) + 1 /\ DOMAIN Append(s, e) = 1..(Len(s) + 1)
         /\ \A i \in DOMAIN s : i \in DOMAIN Append(s, e) /\ i < Len(s) + 1 /\ Append(s, e)[i] = s[i]
         /\ Append(s, e)[Len(s) + 1] = e /\ Len(s) + 1 \in DOMAIN Append(s, e)
         /\ \A i \in DOMAIN Append(s, e) : i \in DOMAIN s \/ i = Len(s) + 1
BY AppendProperties, LenProperties

(* Answers is preserved: the reader takes from the front, the server adds
   at the back. *)
LEMMA AnswersStep ==
  ASSUME TypeOK, EmptyRecv, Once, Answers, [Next]_vars
  PROVE  Answers'
<1>0. Ahead \in Seq(Frame) /\ \A i \in DOMAIN Ahead : Ahead[i] \in Frame /\ Ahead[i].n \in Nat
  BY AheadType, Elements
<1>1. \A i \in DOMAIN Ahead : Ahead[i].of \in Calls => PieceNext(Ahead[i], Ahead[i].of)
  BY <1>0, PieceStep DEF Answers
<1>2. CASE Ahead' = Ahead
  BY <1>1, <1>2 DEF Answers, Piece, PieceNext
<1>3. CASE Shrinks
  <2>1. \A i \in DOMAIN Ahead' : i + 1 \in DOMAIN Ahead /\ Ahead'[i] = Ahead[i + 1] /\ i \in Nat
    BY <1>0, <1>3, Popped DEF Shrinks
  <2>2. \A i \in DOMAIN Ahead' : Ahead'[i].of \in Calls => PieceNext(Ahead'[i], Ahead'[i].of)
    BY <1>1, <2>1
  <2>3. ASSUME NEW i \in DOMAIN Ahead', NEW j \in DOMAIN Ahead', i < j, Ahead'[i].of = Ahead'[j].of,
               Ahead'[i].of \in Calls
        PROVE  Ahead'[i].n < Ahead'[j].n
    <3>1. i + 1 < j + 1
      BY <2>1, <2>3
    <3> QED
      BY <2>1, <2>3, <3>1 DEF Answers
  <2> QED
    BY <2>2, <2>3 DEF Answers, Piece, PieceNext
<1>4. ASSUME NEW f \in Frame, Ahead' = Append(Ahead, f), f.of \in Calls => PieceNext(f, f.of),
             \A i \in DOMAIN Ahead : f.of \in Calls /\ Ahead[i].of = f.of => Ahead[i].n < f.n
      PROVE  Answers'
  <2> DEFINE L == Len(Ahead)
  <2>1. /\ \A i \in DOMAIN Ahead' : i \in DOMAIN Ahead \/ i = L + 1
        /\ \A i \in DOMAIN Ahead : Ahead'[i] = Ahead[i] /\ i < L + 1
        /\ Ahead'[L + 1] = f /\ DOMAIN Ahead = 1..L /\ L \in Nat
    BY <1>0, <1>4, Appended
  <2> HIDE DEF L
  <2>2. \A i \in DOMAIN Ahead' : Ahead'[i].of \in Calls => PieceNext(Ahead'[i], Ahead'[i].of)
    BY <1>1, <1>4, <2>1
  <2>3. ASSUME NEW i \in DOMAIN Ahead', NEW j \in DOMAIN Ahead', i < j, Ahead'[i].of = Ahead'[j].of,
               Ahead'[i].of \in Calls
        PROVE  Ahead'[i].n < Ahead'[j].n
    <3>1. CASE i \in DOMAIN Ahead /\ j \in DOMAIN Ahead
      BY <2>1, <2>3, <3>1 DEF Answers
    <3>2. CASE i \in DOMAIN Ahead /\ j = L + 1
      BY <1>4, <2>1, <2>3, <3>2
    <3>3. i # L + 1
      BY <2>1, <2>3
    <3> QED
      BY <2>1, <3>1, <3>2, <3>3
  <2> QED
    BY <2>2, <2>3 DEF Answers, Piece, PieceNext
<1>5. ASSUME NEW c \in Calls, ServerSend(c), \A f \in Frame : s2c' = Append(s2c, f) => Ahead' = Append(Ahead, f)
      PROVE  Answers'
  <2>1. PICK g \in Frame : Sends(c, g) /\ PieceNext(g, c)
    BY <1>5, SendEffect
  <2>2. Ahead' = Append(Ahead, g) /\ g.of = c /\ g.n = sent'[c]
    BY <1>5, <2>1 DEF Sends
  <2>3. \A i \in DOMAIN Ahead : Ahead[i].of = g.of => Ahead[i].n < g.n
    BY <1>0, <1>5, <2>2, PieceStep DEF Answers
  <2> QED
    BY <1>4, <2>1, <2>2, <2>3
<1>6. ASSUME NEW op \in {"SERVER_PING", "BAD"}, Ahead' = Append(Ahead, Control(op)) PROVE Answers'
  <2>1. Control(op) \in Frame /\ Control(op).of \notin Calls
    BY FrameFacts, CallsAssumption DEF FrameOps, Control
  <2> QED
    BY <1>4, <1>6, <2>1
<1> QED
  BY <1>2, <1>3, <1>5, <1>6, AheadSteps

-----------------------------------------------------------------------------
(* Collecting an answer.                                                   *)

(* Taking a frame, and a sentinel that next() raises. *)
Takes(c) ==
  /\ queue[c] # <<>> /\ queue'[c] = Tail(queue[c]) /\ got'[c] = Append(got[c], Head(queue[c]))
  /\ Head(queue[c]).op \notin Errors
RaisesItem(c) ==
  /\ queue[c] # <<>> /\ queue'[c] = Tail(queue[c]) /\ got'[c] = got[c]
  /\ Head(queue[c]).op \in Errors
Untouched(c) == queue'[c] = queue[c] /\ got'[c] = got[c]

(* What a step that takes an item does to each call. *)
LEMMA TakeEffect ==
  ASSUME TypeOK, NEW c \in Calls, TakeFrame(c) \/ NextItem(c)
  PROVE  /\ \A d \in Calls \ {c} : Untouched(d) /\ pc'[d] = pc[d] /\ outcome'[d] = outcome[d]
         /\ pc[c] \in {"wait", "next"}
         /\ Takes(c) \/ got'[c] = got[c]
         /\ Taking(c)' => Takes(c) \/ RaisesItem(c)
         /\ outcome'[c] = "ok" => outcome[c] = "ok" \/ (Takes(c) /\ Head(queue[c]).eos /\ pc'[c] = "drop")
<1> USE DEF TypeOK, TypeCalls, TypeTable, Goto, Result
<1>1. CASE TakeFrame(c)
  <2>1. \A d \in Calls \ {c} : Untouched(d) /\ pc'[d] = pc[d] /\ outcome'[d] = outcome[d]
    BY <1>1 DEF TakeFrame, Untouched
  <2>2. pc[c] = "wait" /\ queue[c] # <<>> /\ queue'[c] = Tail(queue[c])
    BY <1>1 DEF TakeFrame
  <2>3. \/ Head(queue[c]).op \in Errors /\ outcome'[c] = Head(queue[c]).op /\ pc'[c] = "drop" /\ got'[c] = got[c]
        \/ outcome'[c] = "ServerError" /\ pc'[c] = "drop" /\ got'[c] = got[c]
        \/ /\ Head(queue[c]).op \notin Errors /\ got'[c] = Append(got[c], Head(queue[c]))
           /\ (Head(queue[c]).eos /\ pc'[c] = "drop") \/ outcome'[c] = outcome[c]
    BY <1>1 DEF TakeFrame
  <2>4. Head(queue[c]).op \in Errors => Head(queue[c]).op # "ok"
    BY DEF Errors
  <2> QED
    BY <2>1, <2>2, <2>3, <2>4 DEF Takes, RaisesItem, Taking
<1>2. CASE NextItem(c)
  <2>1. \A d \in Calls \ {c} : Untouched(d) /\ pc'[d] = pc[d] /\ outcome'[d] = outcome[d]
    BY <1>2 DEF NextItem, Untouched
  <2>2. pc[c] = "next" /\ queue[c] # <<>> /\ queue'[c] = Tail(queue[c])
    BY <1>2 DEF NextItem
  <2>3. \/ pc'[c] = "drop" /\ got'[c] = got[c] /\ outcome'[c] \in {"ended", "ServerError"}
        \/ Head(queue[c]).op \in Errors /\ outcome'[c] = outcome[c] /\ got'[c] = got[c]
        \/ /\ Head(queue[c]).op \notin Errors /\ got'[c] = Append(got[c], Head(queue[c]))
           /\ outcome'[c] = "ended" \/ outcome'[c] = outcome[c]
    BY <1>2 DEF NextItem, Errors
  <2> QED
    BY <2>1, <2>2, <2>3 DEF Takes, RaisesItem, Taking
<1> QED
  BY <1>1, <1>2

(* A call that is taking its answer was taking it, or has just begun. *)
LEMMA TakingMoves ==
  ASSUME IInv, Once, [Next]_vars, NEW d \in Calls, ~reused'
  PROVE  /\ ~reused
         /\ OpStream(d)' => OpStream(d) \/ TakeStreamId(d)
         /\ Taking(d)' => Taking(d) \/ TakeStreamId(d)
         /\ TakeStreamId(d) => /\ Ahead' = Ahead /\ UNCHANGED <<queue, got, sent, srv, outcome>>
                               /\ queue[d] = <<>> /\ got[d] = <<>> /\ sent[d] = 0
<1>0. TypeOK
  BY DEF IInv
<1>1. ~reused
  BY <1>0, Started
<1>2. OpStream(d)' => OpStream(d) \/ TakeStreamId(d)
  <2>1. CASE UNCHANGED <<sid, kind, reused>>
    BY <2>1 DEF OpStream
  <2>2. ASSUME NEW c \in Calls, TakeStreamId(c) \/ StartPing(c) \/ StartClose(c)
        PROVE  OpStream(d)' => OpStream(d) \/ TakeStreamId(d)
    BY <1>0, <2>2 DEF TakeStreamId, StartPing, StartClose, OpStream, TypeOK, TypeCalls
  <2> QED
    BY <2>1, <2>2, Writers
<1>3. Taking(d)' => Taking(d) \/ TakeStreamId(d)
  <2> SUFFICES ASSUME Taking(d)', ~TakeStreamId(d) PROVE Taking(d)
    OBVIOUS
  <2>1. OpStream(d) /\ kind'[d] # "close"
    BY <1>2 DEF Taking, OpStream
  <2>2. CASE pc'[d] = "register"
    <3>1. pc[d] = "register" \/ StartPing(d)
      BY <1>0, <2>2, Started
    <3>2. ~StartPing(d)
      BY <1>0 DEF StartPing, Taking, OpStream, TypeOK, TypeCalls
    <3> QED
      BY <2>1, <3>1, <3>2 DEF Taking
  <2>3. CASE pc'[d] # "register"
    <3>1. pc'[d] \in Live \ {"drop"}
      BY <2>3 DEF Taking, Live
    <3>2. pc[d] \in Live \ {"drop"} \/ pc[d] = "register"
      BY <1>0, <2>1, <3>1, Moves DEF Register
    <3> QED
      BY <2>1, <3>2 DEF Taking, Live
  <2> QED
    BY <2>2, <2>3
<1>4. TakeStreamId(d) => /\ Ahead' = Ahead /\ UNCHANGED <<queue, got, sent, srv, outcome>>
                         /\ queue[d] = <<>> /\ got[d] = <<>> /\ sent[d] = 0
  <2> SUFFICES ASSUME TakeStreamId(d)
               PROVE  /\ Ahead' = Ahead /\ UNCHANGED <<queue, got, sent, srv, outcome>>
                      /\ queue[d] = <<>> /\ got[d] = <<>> /\ sent[d] = 0
    OBVIOUS
  <2>1. UNCHANGED <<queue, got, sent, srv, outcome, rpc, rFrame, buf, s2c>> /\ pc[d] = "idle"
    BY DEF TakeStreamId, tableVars, others, readerVars, serverVars
  <2>2. queue[d] = <<>> /\ got[d] = <<>>
    BY <2>1 DEF IInv, QueueOwn, GotOwn
  <2>3. sent[d] = 0
    BY <2>1 DEF Once, Unsent
  <2>4. Ahead' = Ahead
    BY <2>1 DEF Ahead, Hand
  <2> QED
    BY <2>1, <2>2, <2>3, <2>4
<1> QED
  BY <1>1, <1>2, <1>3, <1>4

(* The counts of a call. *)
LEMMA Counts ==
  ASSUME TypeOK, NEW c \in Calls
  PROVE  /\ queue[c] \in Seq(Frame) /\ got[c] \in Seq(Frame)
         /\ Len(queue[c]) \in Nat /\ Len(got[c]) \in Nat /\ sent[c] \in Nat /\ Reached(c) \in Nat
         /\ \A i \in DOMAIN queue[c] : queue[c][i] \in Frame
         /\ DOMAIN queue[c] = 1..Len(queue[c])
<1>1. queue[c] \in Seq(Frame) /\ got[c] \in Seq(Frame) /\ sent[c] \in Nat
  BY DEF TypeOK, TypeCalls, TypeTable, TypeServer
<1>2. Len(queue[c]) \in Nat /\ Len(got[c]) \in Nat /\ DOMAIN queue[c] = 1..Len(queue[c])
      /\ \A i \in DOMAIN queue[c] : queue[c][i] \in Frame
  BY <1>1, Elements
<1>3. \A m, n \in Nat : m + n \in Nat
  OBVIOUS
<1> QED
  BY <1>1, <1>2, <1>3 DEF Reached

(* The next frame ahead that answers a call is the piece it lacks. *)
LEMMA NextPiece ==
  ASSUME TypeOK, Answers, NEW c \in Calls, RestOf(c), Ahead # <<>>, Head(Ahead).of = c
  PROVE  Piece(Head(Ahead), c) /\ Head(Ahead).n = Reached(c) + 1
<1> DEFINE f == Head(Ahead)
<1>1. /\ f = Ahead[1] /\ 1 \in DOMAIN Ahead /\ f \in Frame /\ f.n \in Nat /\ DOMAIN Ahead = 1..Len(Ahead)
      /\ Len(Ahead) \in Nat /\ \A i \in DOMAIN Ahead : Ahead[i].n \in Nat
  BY AheadType, Elements, Popped, FrameFields
<1>2. Piece(f, c)
  BY <1>1 DEF Answers
<1>3. Reached(c) \in Nat /\ sent[c] \in Nat
  BY Counts
<1>4. f.n > Reached(c) /\ f.n <= sent[c]
  BY <1>1, <1>2 DEF RestOf, Piece
<1>5. Reached(c) + 1 \in 1..sent[c] /\ Reached(c) + 1 > Reached(c)
  BY <1>1, <1>3, <1>4
<1>6. PICK i \in DOMAIN Ahead : Ahead[i].of = c /\ Ahead[i].n = Reached(c) + 1
  BY <1>5 DEF RestOf
<1>7. i = 1 \/ f.n < Ahead[i].n
  BY <1>1, <1>6 DEF Answers
<1> QED
  BY <1>1, <1>2, <1>3, <1>4, <1>6, <1>7

(* Arithmetic of the counts. *)
LEMMA Sums ==
  ASSUME NEW g \in Nat, NEW q \in Nat
  PROVE  /\ (g + q) + 1 = g + (q + 1) /\ (g + 1) + q = g + (q + 1)
         /\ (g + 1) + (q - 1) = g + q
OBVIOUS

(* Taking an item keeps what a queue holds. *)
LEMMA QueueKept ==
  ASSUME TypeOK, NEW c \in Calls, QueueOf(c), closedError' = closedError,
         \A i \in DOMAIN queue[c] : Piece(queue[c][i], c) => PieceNext(queue[c][i], c),
         Takes(c) \/ RaisesItem(c) \/ Untouched(c)
  PROVE  QueueOf(c)'
<1>1. \A i \in DOMAIN queue[c] :
        \/ queue[c][i].op \in Errors /\ closedError' # "none" /\ i = Len(queue[c])
        \/ PieceNext(queue[c][i], c) /\ queue[c][i].n = Len(got[c]) + i
  BY DEF QueueOf
<1>2. CASE Untouched(c)
  BY <1>1, <1>2 DEF QueueOf, Piece, PieceNext, Untouched
<1>3. CASE Takes(c) \/ RaisesItem(c)
  <2>1. queue[c] # <<>> /\ queue'[c] = Tail(queue[c])
    BY <1>3 DEF Takes, RaisesItem
  <2>2. /\ DOMAIN queue'[c] = 1..(Len(queue[c]) - 1) /\ Len(queue'[c]) = Len(queue[c]) - 1
        /\ \A i \in DOMAIN queue'[c] : i + 1 \in DOMAIN queue[c] /\ i \in Nat /\ queue'[c][i] = queue[c][i + 1]
        /\ Head(queue[c]) = queue[c][1] /\ 1 \in DOMAIN queue[c]
    BY <2>1, Counts, Popped
  <2>3. CASE RaisesItem(c)
    <3>1. Len(queue[c]) = 1
      BY <2>2, <2>3 DEF RaisesItem, QueueOf, Piece, Errors
    <3> QED
      BY <2>2, <3>1 DEF QueueOf
  <2>4. CASE Takes(c)
    <3>1. Len(got'[c]) = Len(got[c]) + 1
      BY <2>2, <2>4, Counts, Appended DEF Takes
    <3>2. ASSUME NEW i \in DOMAIN queue'[c]
          PROVE  \/ queue'[c][i].op \in Errors /\ closedError' # "none" /\ i = Len(queue'[c])
                 \/ PieceNext(queue'[c][i], c) /\ queue'[c][i].n = Len(got'[c]) + i
      <4>1. i + 1 \in DOMAIN queue[c] /\ queue'[c][i] = queue[c][i + 1] /\ i \in Nat
        BY <2>2
      <4>2. CASE queue[c][i + 1].op \in Errors /\ closedError' # "none" /\ i + 1 = Len(queue[c])
        <5>1. Len(queue[c]) \in Nat
          BY Counts
        <5>2. i = Len(queue[c]) - 1
          BY <4>1, <4>2, <5>1
        <5> QED
          BY <2>2, <4>1, <4>2, <5>2
      <4>3. CASE PieceNext(queue[c][i + 1], c) /\ queue[c][i + 1].n = Len(got[c]) + (i + 1)
        <5>1. Len(got[c]) \in Nat
          BY Counts
        <5>2. (Len(got[c]) + 1) + i = Len(got[c]) + (i + 1)
          BY <4>1, <5>1, Sums
        <5> QED
          BY <3>1, <4>1, <4>3, <5>2
      <4> QED
        BY <1>1, <4>1, <4>2, <4>3
    <3> QED
      BY <3>2 DEF QueueOf, Piece, PieceNext
  <2> QED
    BY <1>3, <2>3, <2>4
<1> QED
  BY <1>2, <1>3

(* The queue of a living connection grows by the next piece, or by the
   sentinel of its failure. *)
LEMMA QueueGrows ==
  ASSUME TypeOK, NEW c \in Calls, QueueOf(c), closedError = "none", UNCHANGED <<sent, srv>>,
         got'[c] = got[c], NEW f \in Frame, queue'[c] = Append(queue[c], f),
         \/ f.op \in Errors /\ closedError' # "none"
         \/ Piece(f, c) /\ f.n = Reached(c) + 1
  PROVE  QueueOf(c)'
<1> DEFINE L == Len(queue[c])
<1>1. /\ Len(queue'[c]) = L + 1 /\ queue'[c][L + 1] = f /\ L \in Nat /\ DOMAIN queue[c] = 1..L
      /\ \A i \in DOMAIN queue[c] : queue'[c][i] = queue[c][i]
      /\ \A i \in DOMAIN queue'[c] : i \in DOMAIN queue[c] \/ i = L + 1
  BY Counts, Appended
<1>2. \A i \in DOMAIN queue[c] : PieceNext(queue'[c][i], c) /\ queue'[c][i].n = Len(got'[c]) + i
  BY <1>1 DEF QueueOf, Piece, PieceNext
<1>3. Len(got'[c]) + (L + 1) = Reached(c) + 1
  <2>1. L \in Nat /\ Len(got[c]) \in Nat
    BY Counts
  <2>2. Len(got[c]) + (L + 1) = (Len(got[c]) + L) + 1
    BY <2>1, Sums
  <2> QED
    BY <2>2 DEF Reached
<1>4. \/ f.op \in Errors /\ closedError' # "none"
      \/ PieceNext(f, c) /\ f.n = Len(got'[c]) + (L + 1)
  BY <1>3 DEF Piece, PieceNext
<1> HIDE DEF L
<1>5. ASSUME NEW i \in DOMAIN queue'[c]
      PROVE  \/ queue'[c][i].op \in Errors /\ closedError' # "none" /\ i = Len(queue'[c])
             \/ PieceNext(queue'[c][i], c) /\ queue'[c][i].n = Len(got'[c]) + i
  BY <1>1, <1>2, <1>4
<1> QED
  BY <1>5 DEF QueueOf, Piece, PieceNext

(* The frame in the reader's hand goes to the call it answers. *)
LEMMA HandGoesHome ==
  ASSUME IInv, ~reused, ReaderPut, NEW c \in Calls, Taking(c)
  PROVE  /\ rTo = c <=> rFrame.of = c
         /\ rTo = c => queue'[c] = Append(queue[c], rFrame)
         /\ rTo # c => queue'[c] = queue[c]
         /\ UNCHANGED <<got, closedError, sent, srv>> /\ closedError = "none" /\ rFrame \in Frame
<1>1. rpc = "put" /\ rTo \in Calls /\ rFrame \in Frame /\ UNCHANGED <<got, closedError, sent, srv>>
  BY DEF ReaderPut, IInv, TypeOK, TypeReader, callVars, serverVars
<1>2. sid[c] # 0
  BY DEF IInv, SidShape, Taking
<1>3. rFrame.of \in Calls /\ rFrame.sid = sid[rFrame.of] /\ rFrame.sid = sid[rTo]
  BY <1>1 DEF IInv, HandTagged
<1>4. rTo = c <=> rFrame.of = c
  BY <1>1, <1>2, <1>3 DEF IInv, SidUnique
<1>5. closedError = "none"
  BY <1>1 DEF IInv, Failed
<1>6. (rTo = c => queue'[c] = Append(queue[c], rFrame)) /\ (rTo # c => queue'[c] = queue[c])
  BY DEF ReaderPut, IInv, TypeOK, TypeTable
<1> QED
  BY <1>1, <1>4, <1>5, <1>6

(* Queued is preserved. *)
LEMMA QueuedStep ==
  ASSUME IInv, EmptyRecv, Once, Answers, Queued, Pending, [Next]_vars
  PROVE  Queued'
<1> SUFFICES ASSUME ~reused', NEW d \in Calls, Taking(d)' PROVE QueueOf(d)'
  BY DEF Queued
<1>0. TypeOK /\ ~reused /\ (Taking(d) \/ TakeStreamId(d))
  BY TakingMoves DEF IInv
<1>1. CASE TakeStreamId(d)
  <2>1. queue'[d] = <<>>
    BY <1>1, TakingMoves
  <2> QED
    BY <2>1 DEF QueueOf
<1>2. CASE Taking(d)
  <2>0. QueueOf(d) /\ \A i \in DOMAIN queue[d] : Piece(queue[d][i], d) => PieceNext(queue[d][i], d)
    <3>1. QueueOf(d)
      BY <1>0, <1>2 DEF Queued
    <3> QED
      BY <1>0, <3>1, Counts, PieceStep
  <2>1. CASE ReaderFails /\ UNCHANGED <<sent, srv>>
    <3>1. PICK error \in Errors : FailAll(error)
      BY <2>1 DEF ReaderFails
    <3>2. got'[d] = got[d]
      BY <2>1 DEF ReaderFails, callVars
    <3>3. CASE closedError # "none"
      <4>1. closedError' = closedError /\ queue'[d] = queue[d]
        BY <3>1, <3>3, CallsAssumption DEF FailAll, IInv, FailedTableEmpty, TypeOK, TypeTable
      <4> QED
        BY <1>0, <2>0, <3>2, <4>1, QueueKept DEF Untouched
    <3>4. CASE closedError = "none"
      <4>1. /\ closedError' # "none" /\ Closed(error) \in Frame /\ Closed(error).op \in Errors
            /\ queue'[d] = queue[d] \/ queue'[d] = Append(queue[d], Closed(error))
        BY <3>1, <3>4, FrameFacts DEF FailAll, Errors, Closed
      <4>2. CASE queue'[d] = queue[d]
        BY <2>0, <2>1, <3>2, <3>4, <4>2 DEF QueueOf, Piece
      <4>3. CASE queue'[d] = Append(queue[d], Closed(error))
        BY <1>0, <2>0, <2>1, <3>2, <3>4, <4>1, <4>3, QueueGrows
      <4> QED
        BY <4>1, <4>2, <4>3
    <3> QED
      BY <3>3, <3>4
  <2>2. CASE ReaderPut /\ Shrinks /\ Head(Ahead) = rFrame
    <3>1. CASE rTo = d
      <4>1. RestOf(d)
        BY <1>0, <1>2, <2>2, HandGoesHome DEF Pending
      <4>2. Piece(rFrame, d) /\ rFrame.n = Reached(d) + 1
        BY <1>0, <1>2, <2>2, <3>1, <4>1, HandGoesHome, NextPiece DEF Shrinks
      <4> QED
        BY <1>0, <1>2, <2>0, <2>2, <3>1, <4>2, HandGoesHome, QueueGrows
    <3>2. CASE rTo # d
      <4>1. Untouched(d) /\ closedError' = closedError
        BY <1>0, <1>2, <2>2, <3>2, HandGoesHome DEF Untouched
      <4> QED
        BY <1>0, <2>0, <4>1, QueueKept
    <3> QED
      BY <3>1, <3>2
  <2>3. ASSUME UNCHANGED <<callVars, tableVars>> PROVE QueueOf(d)'
    BY <1>0, <2>0, <2>3, QueueKept DEF Untouched, callVars, tableVars
  <2>4. ASSUME NEW c \in Calls, ServerSend(c) PROVE QueueOf(d)'
    BY <2>3, <2>4 DEF ServerSend
  <2>5. ASSUME UNCHANGED closedError, UNCHANGED <<queue, got>> \/ \E c \in Calls : TakeFrame(c) \/ NextItem(c)
        PROVE  QueueOf(d)'
    <3>1. Takes(d) \/ RaisesItem(d) \/ Untouched(d)
      <4>1. CASE UNCHANGED <<queue, got>>
        BY <4>1 DEF Untouched
      <4>2. ASSUME NEW c \in Calls, TakeFrame(c) \/ NextItem(c)
            PROVE  Takes(d) \/ RaisesItem(d) \/ Untouched(d)
        BY <1>0, <4>2, TakeEffect
      <4> QED
        BY <2>5, <4>1, <4>2
    <3> QED
      BY <1>0, <2>0, <2>5, <3>1, QueueKept
  <2> QED
    BY <1>0, <2>1, <2>2, <2>3, <2>4, <2>5, AheadSteps DEF Dropped
<1> QED
  BY <1>0, <1>1, <1>2

(* The reader takes the first frame ahead, and the call moves on if it was
   the call's. *)
LEMMA RestPopped ==
  ASSUME TypeOK, NEW c \in Calls, RestOf(c), Answers, Shrinks, sent'[c] = sent[c],
         Reached(c)' = IF Head(Ahead).of = c THEN Reached(c) + 1 ELSE Reached(c)
  PROVE  RestOf(c)'
<1>1. /\ Ahead \in Seq(Frame) /\ Ahead # <<>> /\ Ahead' = Tail(Ahead)
      /\ \A i \in DOMAIN Ahead : Ahead[i].n \in Nat
  BY AheadType, Elements DEF Shrinks
<1>2. /\ Head(Ahead) = Ahead[1] /\ 1 \in DOMAIN Ahead
      /\ \A i \in DOMAIN Ahead' : i + 1 \in DOMAIN Ahead /\ i \in Nat /\ Ahead'[i] = Ahead[i + 1]
      /\ \A i \in DOMAIN Ahead : i # 1 => i - 1 \in DOMAIN Ahead' /\ Ahead'[i - 1] = Ahead[i]
  BY <1>1, Popped
<1>3. \A i \in DOMAIN Ahead' : i \in 1..Len(Ahead)
  <2>1. DOMAIN Ahead' = 1..(Len(Ahead) - 1) /\ Len(Ahead) \in Nat
    BY <1>1, Popped, Elements
  <2> QED
    BY <2>1
<1>4. Reached(c) \in Nat /\ sent[c] \in Nat
  BY Counts
<1>5. ASSUME Head(Ahead).of = c PROVE RestOf(c)'
  <2>1. Piece(Head(Ahead), c) /\ Ahead[1].n = Reached(c) + 1 /\ Reached(c)' = Reached(c) + 1
    BY <1>1, <1>2, <1>5, NextPiece
  <2>2. Reached(c)' <= sent'[c]
    BY <1>2, <1>4, <2>1 DEF Piece
  <2>3. ASSUME NEW i \in DOMAIN Ahead', Ahead'[i].of = c PROVE Ahead'[i].n > Reached(c)'
    <3>1. i + 1 \in DOMAIN Ahead /\ Ahead'[i] = Ahead[i + 1] /\ 1 < i + 1
      BY <1>2, <1>3
    <3>2. Ahead[1].n < Ahead[i + 1].n
      BY <1>2, <1>5, <2>3, <3>1 DEF Answers
    <3>3. Ahead[i + 1].n \in Nat
      BY <1>1, <3>1
    <3> QED
      BY <1>4, <2>1, <3>1, <3>2, <3>3
  <2>4. ASSUME NEW n \in 1..sent'[c], n > Reached(c)'
        PROVE  \E i \in DOMAIN Ahead' : Ahead'[i].of = c /\ Ahead'[i].n = n
    <3>1. n \in 1..sent[c] /\ n > Reached(c) /\ n # Reached(c) + 1
      BY <1>4, <2>1, <2>4
    <3>2. PICK j \in DOMAIN Ahead : Ahead[j].of = c /\ Ahead[j].n = n
      BY <3>1 DEF RestOf
    <3>3. j # 1
      BY <2>1, <3>1, <3>2
    <3> QED
      BY <1>2, <3>2, <3>3
  <2> QED
    BY <2>2, <2>3, <2>4 DEF RestOf
<1>6. ASSUME Head(Ahead).of # c PROVE RestOf(c)'
  <2>1. Reached(c)' = Reached(c)
    BY <1>6
  <2>2. ASSUME NEW i \in DOMAIN Ahead', Ahead'[i].of = c PROVE Ahead'[i].n > Reached(c)'
    BY <1>2, <2>1, <2>2 DEF RestOf
  <2>3. ASSUME NEW n \in 1..sent'[c], n > Reached(c)'
        PROVE  \E i \in DOMAIN Ahead' : Ahead'[i].of = c /\ Ahead'[i].n = n
    <3>1. PICK j \in DOMAIN Ahead : Ahead[j].of = c /\ Ahead[j].n = n
      BY <2>1, <2>3 DEF RestOf
    <3>2. j # 1
      BY <1>2, <1>6, <3>1
    <3> QED
      BY <1>2, <3>1, <3>2
  <2> QED
    BY <2>1, <2>2, <2>3 DEF RestOf
<1> QED
  BY <1>5, <1>6

(* The server adds an answer to the call, or a frame that is none. *)
LEMMA RestGrows ==
  ASSUME TypeOK, NEW c \in Calls, RestOf(c), NEW f \in Frame, Ahead' = Append(Ahead, f), Untouched(c),
         \/ f.of = c /\ f.n = sent[c] + 1 /\ sent'[c] = sent[c] + 1
         \/ f.of # c /\ sent'[c] = sent[c]
  PROVE  RestOf(c)'
<1> DEFINE L == Len(Ahead)
<1>1. /\ \A i \in DOMAIN Ahead' : i \in DOMAIN Ahead \/ i = L + 1
      /\ \A i \in DOMAIN Ahead : i \in DOMAIN Ahead' /\ Ahead'[i] = Ahead[i]
      /\ Ahead'[L + 1] = f /\ L + 1 \in DOMAIN Ahead'
  BY AheadType, Appended
<1> HIDE DEF L
<1>2. Reached(c) \in Nat /\ sent[c] \in Nat /\ Reached(c)' = Reached(c)
  BY Counts DEF Reached, Untouched
<1>3. Reached(c)' <= sent'[c]
  BY <1>2 DEF RestOf
<1>4. ASSUME NEW i \in DOMAIN Ahead', Ahead'[i].of = c PROVE Ahead'[i].n > Reached(c)'
  BY <1>1, <1>2, <1>4 DEF RestOf
<1>5. ASSUME NEW n \in 1..sent'[c], n > Reached(c)'
      PROVE  \E i \in DOMAIN Ahead' : Ahead'[i].of = c /\ Ahead'[i].n = n
  <2>1. CASE n \in 1..sent[c]
    <3>1. PICK j \in DOMAIN Ahead : Ahead[j].of = c /\ Ahead[j].n = n
      BY <1>2, <1>5, <2>1 DEF RestOf
    <3> QED
      BY <1>1, <3>1
  <2>2. CASE n \notin 1..sent[c]
    <3>1. f.of = c /\ f.n = sent[c] + 1 /\ sent'[c] = sent[c] + 1
      BY <2>2
    <3>2. n = sent[c] + 1
      BY <1>2, <2>2, <3>1
    <3> QED
      BY <1>1, <3>1, <3>2
  <2> QED
    BY <2>1, <2>2
<1> QED
  BY <1>3, <1>4, <1>5 DEF RestOf

(* Taking a frame moves it from the queue to the collection. *)
LEMMA ReachedTakes ==
  ASSUME TypeOK, NEW c \in Calls, Takes(c) \/ Untouched(c)
  PROVE  Reached(c)' = Reached(c)
<1>1. CASE Takes(c)
  <2>1. queue[c] # <<>> /\ queue'[c] = Tail(queue[c]) /\ got'[c] = Append(got[c], Head(queue[c]))
    BY <1>1 DEF Takes
  <2>2. Head(queue[c]) \in Frame /\ Len(queue'[c]) = Len(queue[c]) - 1
    BY <2>1, Counts, Popped
  <2>3. Len(got'[c]) = Len(got[c]) + 1
    BY <2>1, <2>2, Counts, Appended
  <2>4. Len(queue[c]) \in Nat /\ Len(got[c]) \in Nat
    BY Counts
  <2>5. (Len(got[c]) + 1) + (Len(queue[c]) - 1) = Len(got[c]) + Len(queue[c])
    BY <2>4, Sums
  <2> QED
    BY <2>2, <2>3, <2>5 DEF Reached
<1>2. CASE Untouched(c)
  BY <1>2 DEF Reached, Untouched
<1> QED
  BY <1>1, <1>2

(* A frame the reader drops answers nobody who is taking an answer: the call
   would have been registered. *)
LEMMA DroppedIsNobodys ==
  ASSUME IInv, Once, Answers, ~reused, closedError = "none", NEW c \in Calls, Taking(c),
         Ahead # <<>>, buf # <<>>, Head(Ahead) = Head(buf), Dropped(Head(Ahead))
  PROVE  Head(Ahead).of # c
<1> DEFINE f == Head(Ahead)
<1> SUFFICES ASSUME f.of = c PROVE FALSE
  OBVIOUS
<1>0. TypeOK
  BY DEF IInv
<1>1. f = Ahead[1] /\ 1 \in DOMAIN Ahead /\ f \in Frame /\ f.n \in Nat
  BY <1>0, AheadType, Popped, FrameFields
<1>2. Piece(f, c)
  BY <1>1 DEF Answers
<1>3. f = buf[1] /\ 1 \in DOMAIN buf
  BY <1>0, Popped DEF TypeOK, TypeReader
<1>4. f.sid = sid[c]
  BY <1>3 DEF IInv, BufTagged, Tagged
<1>5. routes[sid[c]] = NoCall
  BY <1>2, <1>4 DEF Dropped, Piece
<1>6. sent[c] # 0 /\ srv[c] # "unseen"
  <2>1. sent[c] \in Nat
    BY <1>0, Counts
  <2>2. sent[c] # 0
    BY <1>1, <1>2, <2>1 DEF Piece
  <2> QED
    BY <2>2 DEF Once
<1>7. pc[c] \in Live \ {"drop"}
  BY <1>6 DEF Once, Unsent, Taking, Live
<1>8. sid[c] # 0
  BY <1>7 DEF IInv, SidShape, Taking, Live
<1> QED
  BY <1>5, <1>7, <1>8, CallsAssumption DEF IInv, Registered

(* Pending is preserved. *)
LEMMA PendingStep ==
  ASSUME IInv, EmptyRecv, Once, Answers, Queued, Pending, [Next]_vars
  PROVE  Pending'
<1> SUFFICES ASSUME ~reused', closedError' = "none", NEW d \in Calls, Taking(d)' PROVE RestOf(d)'
  BY DEF Pending
<1>0. TypeOK /\ ~reused /\ (Taking(d) \/ TakeStreamId(d))
  BY TakingMoves DEF IInv
<1>1. CASE TakeStreamId(d)
  <2>1. queue'[d] = <<>> /\ got'[d] = <<>> /\ sent'[d] = 0 /\ sent[d] = 0 /\ Ahead' = Ahead
    BY <1>1, TakingMoves
  <2>2. Reached(d)' = 0
    BY <2>1 DEF Reached
  <2>3. \A i \in DOMAIN Ahead : Ahead[i].of # d
    <3>1. \A i \in DOMAIN Ahead : Ahead[i].n \in Nat
      BY <1>0, AheadType, Elements
    <3> QED
      BY <2>1, <3>1 DEF Answers, Piece
  <2> QED
    BY <2>1, <2>2, <2>3 DEF RestOf
<1>2. CASE Taking(d)
  <2>0. ASSUME closedError = "none" PROVE RestOf(d) /\ QueueOf(d)
    BY <1>0, <1>2, <2>0 DEF Pending, Queued
  <2>1. CASE ReaderFails
    BY <2>1 DEF ReaderFails, FailAll, Errors
  <2>2. CASE ReaderPut /\ Shrinks /\ Head(Ahead) = rFrame
    <3>1. RestOf(d) /\ UNCHANGED <<got, sent>> /\ rFrame \in Frame
      BY <1>0, <1>2, <2>0, <2>2, HandGoesHome
    <3>2. Reached(d)' = IF Head(Ahead).of = d THEN Reached(d) + 1 ELSE Reached(d)
      <4>1. CASE rFrame.of = d
        <5>1. queue'[d] = Append(queue[d], rFrame)
          BY <1>0, <1>2, <2>2, <4>1, HandGoesHome
        <5>2. Len(queue'[d]) = Len(queue[d]) + 1
          BY <1>0, <3>1, <5>1, Counts, Appended
        <5>3. Len(queue[d]) \in Nat /\ Len(got[d]) \in Nat
          BY <1>0, Counts
        <5>4. (Len(got[d]) + Len(queue[d])) + 1 = Len(got[d]) + (Len(queue[d]) + 1)
          BY <5>3, Sums
        <5> QED
          BY <2>2, <3>1, <4>1, <5>2, <5>4 DEF Reached
      <4>2. CASE rFrame.of # d
        <5>1. queue'[d] = queue[d]
          BY <1>0, <1>2, <2>2, <4>2, HandGoesHome
        <5> QED
          BY <2>2, <3>1, <4>2, <5>1 DEF Reached
      <4> QED
        BY <4>1, <4>2
    <3> QED
      BY <1>0, <2>2, <3>1, <3>2, RestPopped
  <2>3. CASE /\ Shrinks /\ Head(Ahead) \in Frame /\ Dropped(Head(Ahead)) /\ buf # <<>>
             /\ Head(Ahead) = Head(buf)
    <3>1. UNCHANGED <<got, queue, closedError, sent>>
      BY <2>3 DEF Dropped, callVars, tableVars
    <3>2. RestOf(d) /\ Reached(d)' = Reached(d)
      BY <2>0, <3>1 DEF Reached
    <3>3. Head(Ahead).of # d
      BY <1>0, <1>2, <2>3, <3>1, DroppedIsNobodys DEF Shrinks
    <3> QED
      BY <1>0, <2>3, <3>1, <3>2, <3>3, RestPopped
  <2>4. ASSUME NEW c \in Calls, ServerSend(c),
               \A f \in Frame : s2c' = Append(s2c, f) => Ahead' = Append(Ahead, f)
        PROVE  RestOf(d)'
    <3>1. PICK g \in Frame : Sends(c, g)
      BY <1>0, <2>4, SendEffect
    <3>2. Ahead' = Append(Ahead, g) /\ UNCHANGED <<got, queue, closedError>>
      BY <2>4, <3>1 DEF Sends, callVars, tableVars
    <3>3. \/ g.of = d /\ g.n = sent[d] + 1 /\ sent'[d] = sent[d] + 1
          \/ g.of # d /\ sent'[d] = sent[d]
      BY <3>1 DEF Sends
    <3> QED
      BY <1>0, <2>0, <3>2, <3>3, RestGrows DEF Untouched
  <2>5. ASSUME NEW op \in {"SERVER_PING", "BAD"}, Ahead' = Append(Ahead, Control(op)),
               UNCHANGED <<callVars, tableVars, sent>>
        PROVE  RestOf(d)'
    <3>1. Control(op) \in Frame /\ Control(op).of # d
      BY FrameFacts, CallsAssumption DEF FrameOps, Control
    <3> QED
      BY <1>0, <2>0, <2>5, <3>1, RestGrows DEF Untouched, callVars, tableVars
  <2>6. ASSUME Ahead' = Ahead, UNCHANGED <<sent, closedError>>,
               UNCHANGED <<queue, got>> \/ \E c \in Calls : TakeFrame(c) \/ NextItem(c)
        PROVE  RestOf(d)'
    <3>1. Takes(d) \/ RaisesItem(d) \/ Untouched(d)
      <4>1. CASE UNCHANGED <<queue, got>>
        BY <4>1 DEF Untouched
      <4>2. ASSUME NEW c \in Calls, TakeFrame(c) \/ NextItem(c)
            PROVE  Takes(d) \/ RaisesItem(d) \/ Untouched(d)
        BY <1>0, <4>2, TakeEffect
      <4> QED
        BY <2>6, <4>1, <4>2
    <3>2. ~RaisesItem(d)
      <4> SUFFICES ASSUME RaisesItem(d) PROVE FALSE
        OBVIOUS
      <4>1. Head(queue[d]) = queue[d][1] /\ 1 \in DOMAIN queue[d]
        BY <1>0, Counts, Popped DEF RaisesItem
      <4> QED
        BY <2>0, <2>6, <4>1 DEF RaisesItem, QueueOf, Piece, Errors
    <3>3. Reached(d)' = Reached(d)
      BY <1>0, <3>1, <3>2, ReachedTakes
    <3> QED
      BY <2>0, <2>6, <3>3 DEF RestOf
  <2> QED
    BY <1>0, <2>1, <2>2, <2>3, <2>4, <2>5, <2>6, AheadSteps
<1> QED
  BY <1>0, <1>1, <1>2

(* A finished answer stays as it is. *)
LEMMA FinishedStays ==
  ASSUME TypeOK, Once, [Next]_vars, NEW d \in Calls, srv[d] = "finished"
  PROVE  srv'[d] = "finished" /\ sent'[d] = sent[d]
<1>1. CASE ServerRecv
  <2>1. 1 \in DOMAIN c2s
    BY <1>1 DEF ServerRecv, TypeOK, TypeServer
  <2>2. c2s[1].from # d
    BY <2>1 DEF Once
  <2> QED
    BY <1>1, <2>2 DEF ServerRecv, TypeOK, TypeServer
<1>2. ASSUME NEW c \in Calls, ServerSend(c) PROVE srv'[d] = "finished" /\ sent'[d] = sent[d]
  BY <1>2 DEF ServerSend, TypeOK, TypeServer
<1>3. CASE UNCHANGED <<srv, sent>>
  BY <1>3
<1> QED
  BY <1>1, <1>2, <1>3, RequestSteps

(* What a step does to the collection of a call. *)
LEMMA CollectSteps ==
  ASSUME TypeOK, [Next]_vars, NEW d \in Calls
  PROVE  /\ got'[d] = got[d] \/ (Takes(d) /\ pc[d] \in {"wait", "next"})
         /\ pc[d] \in {"drop", "done"} => pc'[d] \in {"drop", "done"} /\ got'[d] = got[d]
         /\ outcome'[d] = "ok" => outcome[d] = "ok" \/ (Takes(d) /\ Head(queue[d]).eos /\ pc'[d] = "drop")
<1> USE DEF TypeOK, TypeCalls, TypeTable, Goto, Result
<1> DEFINE Goal ==
       /\ got'[d] = got[d] \/ (Takes(d) /\ pc[d] \in {"wait", "next"})
       /\ pc[d] \in {"drop", "done"} => pc'[d] \in {"drop", "done"} /\ got'[d] = got[d]
       /\ outcome'[d] = "ok" => outcome[d] = "ok" \/ (Takes(d) /\ Head(queue[d]).eos /\ pc'[d] = "drop")
<1>1. ASSUME NEW c \in Calls, TakeFrame(c) \/ NextItem(c) PROVE Goal
  <2>1. CASE c = d
    BY <1>1, <2>1, TakeEffect
  <2>2. CASE c # d
    BY <1>1, <2>2, TakeEffect DEF Untouched
  <2> QED
    BY <2>1, <2>2
<1>2. ASSUME NEW c \in Calls, TakeStreamId(c) \/ StartPing(c) \/ StartClose(c) PROVE Goal
  BY <1>2 DEF TakeStreamId, StartPing, StartClose
<1>3. ASSUME NEW c \in Calls, Register(c) PROVE Goal
  BY <1>3 DEF Register, Errors
<1>4. ASSUME NEW c \in Calls, WriteTooLarge(c) \/ SendRaises(c) PROVE Goal
  BY <1>4 DEF WriteTooLarge, SendRaises, WriteRaises
<1>5. ASSUME NEW c \in Calls, LockWrite(c) \/ SendHead(c) \/ SendTail(c) PROVE Goal
  BY <1>5 DEF LockWrite, SendHead, SendTail
<1>6. ASSUME NEW c \in Calls, Timeout(c) \/ Deregister(c) PROVE Goal
  BY <1>6 DEF Timeout, Deregister
<1>7. ASSUME NEW c \in Calls, NextStart(c) \/ SubClose(c) \/ Close(c) PROVE Goal
  BY <1>7 DEF NextStart, SubClose, Close
<1>8. ASSUME UNCHANGED callVars PROVE Goal
  BY <1>8 DEF callVars
<1>9. ReaderStep \/ Environment => UNCHANGED callVars
  BY DEF ReaderStep, ReaderNeedsBytes, ReaderRecv, ReaderDecode, ReaderPut, ReaderLockWrite,
         ReaderSendHead, ReaderSendTail, ReaderSendRaises, Environment, ServerRecv, ServerPing,
         ServerCorrupts, PeerDrops, ServerSend
<1> HIDE DEF Goal
<1>10. Goal
  BY <1>1, <1>2, <1>3, <1>4, <1>5, <1>6, <1>7, <1>8, <1>9 DEF Next, CallStep, vars
<1> QED
  BY <1>10 DEF Goal

(* Collected is preserved: a frame that is taken is the first of the queue,
   the piece that follows what the call already has. *)
LEMMA CollectedStep ==
  ASSUME IInv, Once, Queued, Collected, [Next]_vars
  PROVE  Collected'
<1>0. TypeOK
  BY DEF IInv
<1>1. ASSUME NEW d \in Calls, outcome'[d] = "ok" PROVE pc'[d] \in {"drop", "done"}
  BY <1>0, <1>1, CollectSteps DEF Collected
<1>2. ASSUME ~reused', NEW d \in Calls, OpStream(d)'
      PROVE  /\ \A i \in DOMAIN got'[d] : got'[d][i].n = i
             /\ outcome'[d] = "ok" => Len(got'[d]) = sent'[d] /\ srv'[d] = "finished"
  <2>0. ~reused /\ (OpStream(d) \/ TakeStreamId(d))
    BY <1>2, TakingMoves
  <2>1. CASE TakeStreamId(d)
    <3>1. got'[d] = <<>> /\ outcome'[d] = outcome[d] /\ pc[d] = "idle"
      BY <1>2, <2>1, TakingMoves DEF TakeStreamId
    <3> QED
      BY <3>1 DEF Collected
  <2>2. CASE OpStream(d) /\ got'[d] = got[d] /\ ~(Takes(d) /\ pc[d] \in {"wait", "next"})
    <3>1. outcome'[d] = "ok" => outcome[d] = "ok"
      <4>1. Takes(d) => got'[d] # got[d]
        <5>1. got[d] \in Seq(Frame) /\ Len(got[d]) \in Nat
          BY <1>0, Counts
        <5>2. Len(Append(got[d], Head(queue[d]))) = Len(got[d]) + 1
          BY <5>1
        <5> QED
          BY <5>1, <5>2 DEF Takes
      <4> QED
        BY <1>0, <2>2, <4>1, CollectSteps
    <3> QED
      BY <1>0, <2>0, <2>2, <3>1, FinishedStays DEF Collected
  <2>3. CASE OpStream(d) /\ Takes(d) /\ pc[d] \in {"wait", "next"}
    <3>1. /\ Head(queue[d]) = queue[d][1] /\ 1 \in DOMAIN queue[d] /\ Len(got[d]) \in Nat
          /\ got[d] \in Seq(Frame) /\ Head(queue[d]) \in Frame
      BY <1>0, <2>3, Counts, Popped DEF Takes
    <3>2. QueueOf(d)
      BY <2>0, <2>3 DEF Queued, Taking
    <3>3. Piece(Head(queue[d]), d) /\ Head(queue[d]).n = Len(got[d]) + 1
      BY <2>3, <3>1, <3>2 DEF QueueOf, Takes
    <3>4. /\ Len(got'[d]) = Len(got[d]) + 1 /\ got'[d][Len(got[d]) + 1] = Head(queue[d])
          /\ \A i \in DOMAIN got[d] : got'[d][i] = got[d][i]
          /\ \A i \in DOMAIN got'[d] : i \in DOMAIN got[d] \/ i = Len(got[d]) + 1
      BY <2>3, <3>1, Appended DEF Takes
    <3>5. \A i \in DOMAIN got[d] : got[d][i].n = i
      BY <2>0, <2>3 DEF Collected
    <3>6. outcome[d] # "ok"
      BY <2>3 DEF Collected
    <3>7. outcome'[d] = "ok" => srv[d] = "finished" /\ Len(got'[d]) = sent[d]
      BY <1>0, <3>3, <3>4, <3>6, CollectSteps DEF Piece
    <3> QED
      BY <1>0, <3>3, <3>4, <3>5, <3>7, FinishedStays
  <2> QED
    BY <1>0, <2>0, <2>1, <2>2, <2>3, CollectSteps
<1> QED
  BY <1>1, <1>2 DEF Collected

-----------------------------------------------------------------------------
(* All of it together. *)
LEMMA OrderInvariant == Spec => []OrderInv
<1>1. Init /\ IInv => OrderInv
  <2> SUFFICES ASSUME Init, IInv PROVE OrderInv
    OBVIOUS
  <2>1. LockHeld
    BY CallsAssumption DEF Init, LockHeld, Senders, HeadDue, TailDue
  <2>2. HalfWritten /\ WholeFrames
    BY CallsAssumption DEF Init, HalfWritten, WholeFrames, Senders, TailDue
  <2>3. WriteInv
    BY <2>1, <2>2, TypeInit DEF WriteInv
  <2>4. EmptyRecv /\ Once
    BY DEF Init, EmptyRecv, Once, Unsent
  <2>5. Ahead = <<>>
    BY DEF Init, Ahead, Hand
  <2>6. Answers
    BY <2>5 DEF Answers
  <2>7. \A c \in Calls : ~Taking(c) /\ got[c] = <<>> /\ outcome[c] = "none"
    BY DEF Init, Taking
  <2>8. Queued /\ Pending /\ Collected
    BY <2>7 DEF Queued, Pending, Collected
  <2> QED
    BY <2>3, <2>4, <2>6, <2>8 DEF OrderInv
<1>2. OrderInv /\ IInv' /\ [Next]_vars => OrderInv'
  <2> SUFFICES ASSUME OrderInv, IInv', [Next]_vars PROVE OrderInv'
    OBVIOUS
  <2> USE DEF OrderInv
  <2>1. WriteInv'
    BY TypeStep, LockHeldStep, WireStep DEF WriteInv
  <2>2. EmptyRecv'
    BY EmptyRecvStep DEF IInv
  <2>3. Once'
    BY OnceStep DEF IInv, WriteInv
  <2>4. Answers'
    BY AnswersStep DEF IInv
  <2>5. Queued'
    BY QueuedStep
  <2>6. Pending'
    BY PendingStep
  <2>7. Collected'
    BY CollectedStep
  <2> QED
    BY <2>1, <2>2, <2>3, <2>4, <2>5, <2>6, <2>7
<1> QED
  BY <1>1, <1>2, Invariant, PTL DEF Spec

(* A call on an op stream takes the frames of its answer in the order the
   server sent them and without a gap, and a request that returns has the
   whole answer (FramesInOrder; request's loop, and read_frame keeping the
   tail of its buffer): for any number of calls, frames and stream ids, as
   long as no id was issued twice. *)
THEOREM AnswersInOrder == Spec => []FramesInOrder
<1>1. OrderInv => FramesInOrder
  BY DEF OrderInv, Collected, FramesInOrder
<1> QED
  BY <1>1, OrderInvariant, PTL

=============================================================================
