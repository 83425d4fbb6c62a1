---------------------------- MODULE CallsProofs ------------------------------
(***************************************************************************)
(* That a request arrives as it was meant, for every set of payload        *)
(* classes whose conventions are coherent and every table of exchanges.    *)
(***************************************************************************)
EXTENDS Calls, TLAPS

-----------------------------------------------------------------------------
(* One field.                                                              *)

(* to_map then from_map on one field gives the value back, rounded: what   *)
(* is left out or null is read as what it was.                             *)
LEMMA FieldRoundTrip ==
  ASSUME NEW k, Coherent(k), NEW v \in Domain(k)
  PROVE  Read(k, Write(k, v)) = Rounded(k, v)
<1>1. k.optional \in BOOLEAN /\ k.write \in {"always", "unlessNone", "unlessFalsy"}
        /\ k.read \in {"strict", "none", "dflt"}
  BY DEF Coherent, Convention
<1>2. CASE v = "none"
  <2>1. k.optional BY <1>2, <1>1 DEF Domain
  <2>2. CASE k.write = "unlessNone"
    BY <1>2, <2>2 DEF Coherent, Read, Write, Rounded
  <2>3. CASE k.write # "unlessNone"
    BY <1>2, <2>1, <2>3 DEF Read, Write, Rounded
  <2>4. QED BY <2>2, <2>3
<1>3. CASE v = "dflt"
  <2>1. CASE k.write = "unlessFalsy"
    BY <1>3, <2>1 DEF Coherent, Read, Write, Rounded
  <2>2. CASE k.write # "unlessFalsy"
    BY <1>3, <2>2 DEF Read, Write, Rounded
  <2>3. QED BY <2>1, <2>2
<1>4. CASE v \in {"val", "fine", "huge"}
  BY <1>4 DEF Read, Write, Rounded
<1>5. QED BY <1>2, <1>3, <1>4 DEF Domain

(* No rounding, default or None makes a field unreadable.                  *)
LEMMA RoundedReadable ==
  ASSUME NEW k, NEW v \in Domain(k)
  PROVE  Rounded(k, v) # "refused"
BY DEF Domain, Rounded

-----------------------------------------------------------------------------
(* One payload.                                                            *)

(* A payload that carries value v of class c as encode_payload writes it.  *)
Carries(p, root, c, v) ==
  p.map = TRUE /\ p.class = c /\ p.items = Encode(Classes[c], v) /\ p.extra = Trailer(root)

(* from_map of what to_map wrote, in any payload that carries it.          *)
LEMMA DecodesMeant ==
  ASSUME NEW c \in DOMAIN Classes, NEW v \in ValuesOf(Classes[c]), NEW root,
         NEW p, Carries(p, root, c, v)
  PROVE  DecodePayload(root, p) = [outcome |-> "ok", values |-> <<MeantBy(Message(c, v))>>]
<1> DEFINE C == Classes[c]
<1>1. \A f \in DOMAIN C : Read(C[f], Write(C[f], v[f])) = Rounded(C[f], v[f])
  <2> SUFFICES ASSUME NEW f \in DOMAIN C
               PROVE  Read(C[f], Write(C[f], v[f])) = Rounded(C[f], v[f])
    OBVIOUS
  <2>1. Coherent(C[f]) BY ClassesAssumption
  <2>2. v[f] \in Domain(C[f]) BY DEF ValuesOf
  <2>3. QED BY <2>1, <2>2, FieldRoundTrip
<1>2. \A f \in DOMAIN C : Rounded(C[f], v[f]) # "refused"
  BY RoundedReadable DEF ValuesOf
<1>3. Decodes(C, p.items)
  BY <1>1, <1>2 DEF Decodes, Encode, Carries
<1>4. Decode(C, p.items) = Meant(C, v)
  BY <1>1 DEF Decode, Encode, Meant, Carries
<1>5. ~((Trailer(root) = 0 /\ p.extra # 0) \/ p.extra % 4 # 0)
  BY DEF Trailer, Carries
<1>6. MeantBy(Message(c, v)) = Message(c, Meant(C, v))
  BY DEF MeantBy, Message
<1> HIDE DEF C
<1>7. QED BY <1>3, <1>4, <1>5, <1>6 DEF DecodePayload, Carries, C

(* decode_payload inverts encode_payload, up to the rounding of f32 fields.*)
LEMMA PayloadRoundTrip ==
  ASSUME NEW c \in DOMAIN Classes, NEW v \in ValuesOf(Classes[c]), NEW root
  PROVE  DecodePayload(root, EncodePayload(root, Message(c, v)))
           = [outcome |-> "ok", values |-> <<MeantBy(Message(c, v))>>]
<1> DEFINE p == EncodePayload(root, Message(c, v))
<1>1. Carries(p, root, c, v)
  BY DEF EncodePayload, Message, Carries
<1>2. QED BY <1>1, DecodesMeant

-----------------------------------------------------------------------------
(* The inductive invariant.                                                *)

Stamp == "server_timestamp_unix_nanos"

(* What the client means to send is a value of a class.                    *)
SaidTyped ==
  phase # "idle" => /\ exch \in DOMAIN Exchanges
                    /\ said.class \in DOMAIN Classes
                    /\ said.value \in ValuesOf(Classes[said.class])
                    /\ said = Message(said.class, said.value)

(* Only what to_cbor can write is sent, and once read it is what the server*)
(* has; a call that failed before that says so.                            *)
Unsent == heard = Nothing /\ result.outcome \in {"OverflowError", "OSError", "ProtocolError"}
Arrived ==
  /\ phase \in {"idle", "sent"} => heard = Nothing
  /\ phase \in {"sent", "read"} => Writable(said)
  /\ phase = "read" => heard = MeantBy(said)
  /\ phase = "done" => (heard = MeantBy(said) /\ Writable(said)) \/ Unsent

(* A pong waits for no answer, and carries the stamp of its heartbeat.     *)
PongEchoes ==
  phase # "idle" /\ exch = "pong" =>
    /\ phase \in {"sent", "done"} /\ odd # Usual
    /\ phase = "done" => heard = MeantBy(said)
    /\ said.class = Exchanges["pong"].sends
    /\ odd.kind = "value" => said.value[Stamp] = answers[1].value[Stamp]

IInv == SaidTyped /\ Arrived /\ PongEchoes

(* The ordinary value of a class is one of its values. *)
LEMMA FullTyped ==
  ASSUME NEW c \in DOMAIN Classes
  PROVE  Full(c) \in ValuesOf(Classes[c])
BY DEF Full, ValuesOf, Domain, Values

(* The invariant holds initially. *)
LEMMA InitIInv == Init => IInv
BY DEF Init, IInv, SaidTyped, Arrived, PongEchoes

(* A call starts an exchange with a value of its class. *)
LEMMA CallIInv ==
  ASSUME IInv, NEW name \in DOMAIN Exchanges, Call(name)
  PROVE  IInv'
<1> USE DEF Call
<1>1. name # "pong" BY DEF Allowed
<1>2. phase' # "idle" /\ exch' = name
  OBVIOUS
<1>3. \E c \in DOMAIN Classes : \E v \in ValuesOf(Classes[c]) : said' = Message(c, v)
  <2>1. CASE said' = Plain(Exchanges[name].sends)
    BY <2>1, FullTyped, ExchangesAssumption DEF Plain
  <2>2. CASE \E c \in Focus[name].sends : \E v \in Inputs[c] : said' = Message(c, v)
    BY <2>2, ExchangesAssumption, InputsAssumption
  <2>3. QED BY <2>1, <2>2
<1>4. SaidTyped'
  <2>1. PICK c \in DOMAIN Classes : \E v \in ValuesOf(Classes[c]) : said' = Message(c, v)
    BY <1>3
  <2>2. PICK v \in ValuesOf(Classes[c]) : said' = Message(c, v)
    BY <2>1
  <2>3. said'.class = c /\ said'.value = v
    BY <2>2 DEF Message
  <2> HIDE DEF Call
  <2>4. QED BY <1>2, <2>2, <2>3 DEF SaidTyped
<1>5. Arrived'
  <2>1. heard' = Nothing
    BY DEF IInv, Arrived
  <2>2. \/ phase' = "sent" /\ Writable(said')
        \/ phase' = "done" /\ result' = Raised("OverflowError")
    OBVIOUS
  <2>3. Writable(said)' = Writable(said')
    BY DEF Writable
  <2> HIDE DEF Call
  <2>4. CASE phase' = "sent" /\ Writable(said')
    BY <2>1, <2>3, <2>4 DEF Arrived
  <2>5. CASE phase' = "done" /\ result' = Raised("OverflowError")
    BY <2>1, <2>5 DEF Arrived, Unsent, Raised
  <2>6. QED BY <2>2, <2>4, <2>5
<1>6. PongEchoes' BY <1>1, <1>2 DEF PongEchoes
<1>7. QED BY <1>4, <1>5, <1>6 DEF IInv

(* The pong carries the stamp of its heartbeat. *)
LEMMA HeartbeatIInv ==
  ASSUME IInv, Heartbeat
  PROVE  IInv'
<1> DEFINE ping == Exchanges["pong"].answers
           pong == Exchanges["pong"].sends
<1>1. "pong" \in DOMAIN Exchanges /\ phase' = "sent" /\ exch' = "pong"
  BY DEF Heartbeat
<1>2. ping \in DOMAIN Classes /\ pong \in DOMAIN Classes
  BY <1>1, ExchangesAssumption
<1>3. /\ Stamp \in DOMAIN Classes[ping] /\ Domain(Classes[ping][Stamp]) = {"dflt", "val"}
      /\ Stamp \in DOMAIN Classes[pong] /\ Domain(Classes[pong][Stamp]) = {"dflt", "val"}
  BY <1>1, HeartbeatAssumption DEF Stamp
<1>4. PICK v \in Inputs[ping], broken \in BOOLEAN :
        LET p == EncodePayload(ping, Message(ping, v))
            read == DecodePayload(ping, [p EXCEPT !.map = ~broken]) IN
        /\ odd' = Odd(IF broken THEN "notmap" ELSE "value", "")
        /\ answers' = <<Message(ping, v)>>
        /\ said' = Message(pong, [Full(pong) EXCEPT ![Stamp] =
                     IF read.outcome = "ok" THEN read.values[1].value[Stamp] ELSE "dflt"])
  BY DEF Heartbeat, Stamp
<1> DEFINE p == EncodePayload(ping, Message(ping, v))
           q == [p EXCEPT !.map = ~broken]
           read == DecodePayload(ping, q)
           stamp == IF read.outcome = "ok" THEN read.values[1].value[Stamp] ELSE "dflt"
<1>5. v \in ValuesOf(Classes[ping]) BY <1>2, InputsAssumption
<1>6. v[Stamp] \in {"dflt", "val"} BY <1>3, <1>5 DEF ValuesOf
<1>7. stamp \in {"dflt", "val"} /\ (~broken => stamp = v[Stamp])
  <2>1. CASE broken
    <3>1. q.map = FALSE
      BY <2>1 DEF EncodePayload
    <3> HIDE DEF q
    <3>2. read.outcome # "ok"
      BY <3>1 DEF DecodePayload, Raised
    <3>3. QED BY <2>1, <3>2
  <2>2. CASE ~broken
    <3>1. Carries(q, ping, ping, v)
      BY <2>2 DEF EncodePayload, Message, Carries
    <3> HIDE DEF q, ping
    <3>2. read = [outcome |-> "ok", values |-> <<MeantBy(Message(ping, v))>>]
      BY <1>2, <1>5, <3>1, DecodesMeant
    <3>3. MeantBy(Message(ping, v)).value[Stamp] = Rounded(Classes[ping][Stamp], v[Stamp])
      BY <1>3 DEF MeantBy, Message, Meant
    <3>4. Rounded(Classes[ping][Stamp], v[Stamp]) = v[Stamp]
      BY <1>6 DEF Rounded
    <3>5. stamp = v[Stamp]
      BY <3>2, <3>3, <3>4
    <3>6. QED BY <1>6, <3>5
  <2>3. QED BY <2>1, <2>2
<1> HIDE DEF stamp
<1>8. said' = Message(pong, [Full(pong) EXCEPT ![Stamp] = stamp])
  BY <1>4 DEF stamp
<1>9. [Full(pong) EXCEPT ![Stamp] = stamp] \in ValuesOf(Classes[pong])
  BY <1>2, <1>3, <1>7, FullTyped DEF ValuesOf, Values
<1>10. SaidTyped' BY <1>1, <1>2, <1>8, <1>9 DEF SaidTyped, Message
<1>11. Arrived'
  <2>1. phase = "idle" /\ heard' = heard
    BY DEF Heartbeat
  <2>2. heard' = Nothing
    BY <2>1 DEF IInv, Arrived
  <2>3. \A f \in DOMAIN said'.value : said'.value[f] # "huge"
    BY <1>3, <1>7, <1>8 DEF Message, Full
  <2>4. Writable(said')
    BY <2>3 DEF Writable, Encodable
  <2>5. Writable(said)' = Writable(said')
    BY DEF Writable
  <2>6. QED BY <1>1, <2>2, <2>4, <2>5 DEF Arrived
<1>12. PongEchoes'
  <2>1. said'.class = pong /\ said'.value[Stamp] = stamp
    BY <1>3, <1>8 DEF Message, Full
  <2>2. odd'.kind = "value" => ~broken
    BY <1>4 DEF Odd
  <2>3. answers'[1].value[Stamp] = v[Stamp]
    BY <1>4 DEF Message
  <2>4. odd' # Usual
    BY <1>4 DEF Odd, Usual
  <2>5. QED BY <1>1, <1>7, <2>1, <2>2, <2>3, <2>4 DEF PongEchoes, Usual, Odd
<1>13. QED BY <1>10, <1>11, <1>12 DEF IInv

(* The server reads what the caller meant. *)
LEMMA ServerReadsIInv ==
  ASSUME IInv, ServerReads
  PROVE  IInv'
<1>1. phase = "sent" /\ phase' \in {"read", "done"} /\ UNCHANGED <<exch, odd, said, answers>>
  BY DEF ServerReads
<1>2. SaidTyped' BY <1>1 DEF IInv, SaidTyped
<1>3. heard' = MeantBy(said) /\ Arrived'
  <2>1. DecodePayload(xch.sends, EncodePayload(xch.sends, said))
          = [outcome |-> "ok", values |-> <<MeantBy(said)>>]
    BY <1>1, PayloadRoundTrip DEF IInv, SaidTyped
  <2>2. heard' = MeantBy(said)
    BY <2>1 DEF ServerReads
  <2>3. Writable(said)
    BY <1>1 DEF IInv, Arrived
  <2>4. QED BY <1>1, <2>2, <2>3 DEF Arrived, MeantBy, Writable
<1>4. PongEchoes'
  <2>1. exch = "pong" => phase' = "done"
    BY <1>1, HeartbeatAssumption DEF ServerReads, xch, IInv, SaidTyped
  <2>2. QED BY <1>1, <1>3, <2>1 DEF IInv, PongEchoes, MeantBy, Usual, Odd
<1>5. QED BY <1>2, <1>3, <1>4 DEF IInv

(* Whatever happens while the answer is under way, the request is left as  *)
(* it was; and no answer is under way to a pong.                           *)
LEMMA AnsweringIInv ==
  ASSUME IInv, phase = "read", phase' \in {"read", "done"}, UNCHANGED <<exch, said, heard>>
  PROVE  IInv'
<1>1. SaidTyped' BY DEF IInv, SaidTyped
<1>2. Arrived' BY DEF IInv, Arrived, MeantBy, Writable
<1>3. PongEchoes' BY DEF IInv, PongEchoes
<1>4. QED BY <1>1, <1>2, <1>3 DEF IInv

(* A write that fails leaves the server nothing to read; a pong's does not. *)
LEMMA WriteFailsIInv ==
  ASSUME IInv, WriteFails
  PROVE  IInv'
<1>1. /\ phase = "sent" /\ phase' = "done" /\ odd = Usual
      /\ UNCHANGED <<exch, said, heard, answers>>
      /\ result' \in {Raised("OSError"), Raised("ProtocolError")}
  BY DEF WriteFails, Ends
<1>2. SaidTyped' BY <1>1 DEF IInv, SaidTyped
<1>3. Arrived' BY <1>1 DEF IInv, Arrived, Unsent, Raised
<1>4. PongEchoes' BY <1>1 DEF IInv, PongEchoes
<1>5. QED BY <1>2, <1>3, <1>4 DEF IInv

(* Every step keeps the invariant. *)
LEMMA NextIInv == IInv /\ [Next]_vars => IInv'
<1> SUFFICES ASSUME IInv, [Next]_vars PROVE IInv'
  OBVIOUS
<1>1. CASE UNCHANGED vars
  BY <1>1 DEF vars, IInv, SaidTyped, Arrived, Unsent, PongEchoes, MeantBy, Writable, Usual, Odd
<1>2. CASE \E name \in DOMAIN Exchanges : Call(name)
  BY <1>2, CallIInv
<1>3. CASE Heartbeat
  BY <1>3, HeartbeatIInv
<1>4. CASE ServerReads
  BY <1>4, ServerReadsIInv
<1>5. CASE ServerAnswers
  BY <1>5, AnsweringIInv DEF ServerAnswers
<1>6. CASE Corrupts
  BY <1>6, AnsweringIInv DEF Corrupts
<1>7. CASE HangsUp
  BY <1>7, AnsweringIInv DEF HangsUp
<1>8. CASE Recv
  BY <1>8, AnsweringIInv DEF Recv, ConnectionLost, Ends
<1>9. CASE BadFrame
  BY <1>9, AnsweringIInv DEF BadFrame, ConnectionLost, Ends
<1>10. CASE TakeFrame
  BY <1>10, AnsweringIInv DEF TakeFrame, Ends, NextEvent, Collect
<1>11. CASE Return
  BY <1>11 DEF Return, IInv, SaidTyped, Arrived, PongEchoes
<1>12. CASE WriteFails
  BY <1>12, WriteFailsIInv
<1>13. CASE Timeout
  BY <1>13, AnsweringIInv DEF Timeout, Ends
<1>14. QED
  BY <1>1, <1>2, <1>3, <1>4, <1>5, <1>6, <1>7, <1>8, <1>9, <1>10, <1>11, <1>12, <1>13 DEF Next

(* A float beyond a single's range is heard only where it is a double. *)
LEMMA HugeIsDouble ==
  ASSUME IInv, phase \in {"read", "done"},
         NEW f \in DOMAIN heard.value, heard.value[f] = "huge"
  PROVE  Classes[heard.class][f].as = "double"
<1>1. heard # Nothing
  <2>1. SUFFICES ASSUME heard = Nothing PROVE FALSE
    OBVIOUS
  <2>2. heard.value = <<>>
    BY <2>1 DEF Nothing, Message
  <2>3. f \in DOMAIN << >>
    BY <2>2
  <2>4. DOMAIN << >> = 1..0
    OBVIOUS
  <2>5. QED BY <2>3, <2>4
<1>2. heard = MeantBy(said) /\ Writable(said)
  BY <1>1 DEF IInv, Arrived, Unsent
<1>3. heard.class = said.class /\ heard.value = Meant(Classes[said.class], said.value)
  BY <1>2 DEF MeantBy, Message
<1>4. f \in DOMAIN Classes[said.class] /\ Rounded(Classes[said.class][f], said.value[f]) = "huge"
  BY <1>3 DEF Meant
<1>5. said.value[f] = "huge"
  BY <1>4 DEF Rounded
<1>6. f \in DOMAIN said.value
  BY <1>4 DEF IInv, SaidTyped, ValuesOf
<1>7. QED BY <1>2, <1>3, <1>5, <1>6 DEF Writable, Encodable

(* And it says what RequestArrives does. *)
LEMMA IInvArrives == IInv => RequestArrives
<1> SUFFICES ASSUME IInv, phase \in {"read", "done"}
             PROVE  /\ \/ heard = MeantBy(said)
                       \/ /\ heard = Nothing /\ phase = "done"
                          /\ result.outcome \in {"OverflowError", "OSError", "ProtocolError"}
                    /\ \A f \in DOMAIN heard.value :
                         heard.value[f] = "huge" => Classes[heard.class][f].as = "double"
                    /\ exch = "pong" /\ odd.kind = "value" =>
                         heard.value[Stamp] = answers[1].value[Stamp]
  BY DEF RequestArrives, Stamp
<1>1. \/ heard = MeantBy(said)
      \/ /\ heard = Nothing /\ phase = "done"
         /\ result.outcome \in {"OverflowError", "OSError", "ProtocolError"}
  BY DEF IInv, Arrived, Unsent
<1>2. ASSUME exch = "pong", odd.kind = "value"
      PROVE  heard.value[Stamp] = answers[1].value[Stamp]
  <2> DEFINE k == Classes[said.class][Stamp]
  <2>1. /\ said.class = Exchanges["pong"].sends /\ "pong" \in DOMAIN Exchanges
        /\ said.value[Stamp] = answers[1].value[Stamp] /\ heard = MeantBy(said)
    BY <1>2 DEF IInv, PongEchoes, SaidTyped
  <2>2. Stamp \in DOMAIN Classes[said.class] /\ Domain(k) = {"dflt", "val"}
    BY <2>1, HeartbeatAssumption DEF Stamp
  <2>3. said.value[Stamp] \in {"dflt", "val"}
    BY <2>2 DEF IInv, SaidTyped, ValuesOf
  <2>4. heard.value[Stamp] = Rounded(k, said.value[Stamp])
    BY <2>1, <2>2 DEF MeantBy, Message, Meant
  <2>5. Rounded(k, said.value[Stamp]) = said.value[Stamp]
    BY <2>3 DEF Rounded
  <2>6. QED BY <2>1, <2>4, <2>5
<1>3. QED BY <1>1, <1>2, HugeIsDouble

(* The server reads what the caller asked for, whatever keys to_map leaves *)
(* out and from_map fills in, or reads nothing and the caller is told, for *)
(* every set of coherent payload classes, every table of exchanges and     *)
(* every choice of values.                                                 *)
THEOREM RequestsArrive == Spec => []RequestArrives
<1>1. Spec => []IInv
  BY InitIInv, NextIInv, PTL DEF Spec
<1>2. QED BY <1>1, IInvArrives, PTL
=============================================================================
