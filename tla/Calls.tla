-------------------------------- MODULE Calls --------------------------------
(***************************************************************************)
(* One wire exchange after another on one connection, end to end: a verb   *)
(* of client.py (or a handshake step, a subscription, a heartbeat) encodes *)
(* its request, the server reads it and answers, the answer's bytes arrive *)
(* in pieces, read_frame cuts them into frames, the mux collects them and  *)
(* the verb checks and decodes them.  MuxPy is about many calls at once;   *)
(* this module is about what one call sends and accepts.                   *)
(*                                                                         *)
(* A payload is its outermost class full of ordinary values, with one class*)
(* inside it (or the outermost itself) given a value of its own: that class*)
(* is the one a message names.  An exception in a nested from_map escapes  *)
(* the outer one.                                                          *)
(*                                                                         *)
(* The server and the network are the environment.  At most one thing is   *)
(* odd in an exchange, and `odd` records it.                               *)
(***************************************************************************)
EXTENDS FrameCodec, Schema

CONSTANTS Classes,    \* class name -> field -> convention
          Exchanges,  \* exchange name -> opcodes, classes, shape
          Focus,      \* exchange -> "sends", "answers", "error" -> classes to vary
          Inputs      \* class -> the values a run gives it

ERROR == \h00FF

(* encode_payload: the map, and for EncodeVectorDirectRequest the vector as*)
(* a trailer of four bytes per float.                                      *)
Trailer(root) == IF root = "EncodeVectorDirectRequest" THEN 4 ELSE 0

ASSUME ClassesAssumption == \A c \in DOMAIN Classes : \A f \in DOMAIN Classes[c] :
                              Coherent(Classes[c][f])
ASSUME ExchangesAssumption == \A n \in DOMAIN Exchanges :
  /\ {Exchanges[n].sends, Exchanges[n].answers, "ErrorResponse"} \subseteq DOMAIN Classes
  /\ Focus[n].sends \cup Focus[n].answers \cup Focus[n].error \subseteq DOMAIN Classes
(* A heartbeat and its pong carry the timestamp as a plain integer.        *)
ASSUME HeartbeatAssumption == "pong" \in DOMAIN Exchanges =>
  /\ Exchanges["pong"].shape = "oneway"
  /\ \A c \in {Exchanges["pong"].answers, Exchanges["pong"].sends} :
       /\ "server_timestamp_unix_nanos" \in DOMAIN Classes[c]
       /\ Domain(Classes[c]["server_timestamp_unix_nanos"]) = {"dflt", "val"}
(* Every answer is given under the request's opcode with its high bit set, *)
(* which is not ERROR; only a request has a trailer.                       *)
ASSUME OpcodesAssumption == \A n \in DOMAIN Exchanges :
  /\ Exchanges[n].shape \in {"expect", "unary", "streamed", "pushed", "oneway"}
  /\ Exchanges[n].req \in Nat
  /\ Exchanges[n].shape # "oneway" =>
       /\ Exchanges[n].resp = Exchanges[n].req + 128 /\ ERROR \notin {Exchanges[n].req, Exchanges[n].resp}
       /\ Trailer(Exchanges[n].answers) = 0
ASSUME NamesAssumption ==
  /\ "hello" \in DOMAIN Exchanges /\ "" \notin DOMAIN Classes
  /\ "WelcomePayload" \in DOMAIN Classes => "chosen_version" \in DOMAIN Classes["WelcomePayload"]
  /\ "code" \in DOMAIN Classes["ErrorResponse"] /\ ~Classes["ErrorResponse"]["code"].optional
ASSUME InputsAssumption == \A c \in DOMAIN Classes : Inputs[c] \subseteq ValuesOf(Classes[c])

VARIABLES
  phase,    \* where the exchange is
  session,  \* how far the connection's handshake has come
  exch,     \* the exchange
  odd,      \* what is unusual about it
  said,     \* the message the client means to send
  heard,    \* the message the server reads
  answers,  \* the messages the server means to send
  wire,     \* cells on their way to the client
  eof,      \* the server has hung up
  buf,      \* read_frame's buffer
  frames,   \* what request has collected
  result    \* what the caller gets

vars == <<phase, session, exch, odd, said, heard, answers, wire, eof, buf, frames, result>>

xch == Exchanges[exch]

Message(c, v) == [class |-> c, value |-> v]
Full(c) == [f \in DOMAIN Classes[c] |-> "val"]
Plain(c) == Message(c, Full(c))
Nothing == Message("", <<>>)

(* A message as the other side should find it, and one to_cbor can write.  *)
MeantBy(m) == Message(m.class, Meant(Classes[m.class], m.value))
Writable(m) == Encodable(Classes[m.class], m.value)

Odd(kind, key) == [kind |-> kind, key |-> key]
Usual == Odd("none", "")

Pending == [outcome |-> "none", values |-> <<>>]
Raised(error) == [outcome |-> error, values |-> <<>>]

Init ==
  /\ phase = "idle" /\ session = "new" /\ exch = "hello" /\ odd = Usual
  /\ said = Nothing /\ heard = Nothing /\ answers = <<>>
  /\ wire = <<>> /\ eof = FALSE /\ buf = <<>> /\ frames = <<>>
  /\ result = Pending

-----------------------------------------------------------------------------
(* Payloads.                                                               *)

EncodePayload(root, m) ==
  [map |-> TRUE, class |-> m.class, items |-> Encode(Classes[m.class], m.value),
   extra |-> Trailer(root)]

(* decode_payload: the trailer is allowed where the class has one, and is a*)
(* whole number of floats; the item must be a map; from_map reads it.      *)
DecodePayload(root, p) ==
  IF (Trailer(root) = 0 /\ p.extra # 0) \/ p.extra % 4 # 0 THEN Raised("CborError")
  ELSE IF ~p.map THEN Raised("TypeError")
  ELSE IF ~Decodes(Classes[p.class], p.items) THEN Raised("FieldError")
  ELSE [outcome |-> "ok",
        values |-> <<Message(p.class, Decode(Classes[p.class], p.items))>>]

NoPayload == [map |-> FALSE, class |-> "", items |-> <<>>, extra |-> 0]

Frame(op, eos, payload) ==
  [op |-> op, eos |-> eos, payload |-> payload,
   length |-> IF payload = NoPayload THEN 0 ELSE 1]

-----------------------------------------------------------------------------
(* The client's half of a call: encode, write.                             *)

(* The handshake comes first; a heartbeat's pong is not a call.            *)
Allowed(name) ==
  CASE name = "hello" -> session = "new"
    [] name = "auth" -> session = "welcomed"
    [] name = "pong" -> FALSE
    [] OTHER -> session = "open"

(* A value the codec cannot write raises before anything is sent.          *)
Call(name) ==
  /\ phase = "idle" /\ Allowed(name)
  /\ exch' = name
  /\ \/ odd' = Usual /\ said' = Plain(Exchanges[name].sends)
     \/ /\ odd' = Odd("value", "")
        /\ \E c \in Focus[name].sends : \E v \in Inputs[c] : said' = Message(c, v)
  /\ IF Writable(said') THEN phase' = "sent" /\ UNCHANGED result
     ELSE phase' = "done" /\ result' = Raised("OverflowError")
  /\ UNCHANGED <<session, heard, answers, wire, eof, buf, frames>>

(* The reader answers SERVER_PING by itself: the pong echoes the server's  *)
(* timestamp, or 0 when the heartbeat cannot be decoded.                   *)
Heartbeat ==
  /\ phase = "idle" /\ session = "open" /\ "pong" \in DOMAIN Exchanges
  /\ exch' = "pong"
  /\ LET ping == Exchanges["pong"].answers
         pong == Exchanges["pong"].sends IN
       \E v \in Inputs[ping], broken \in BOOLEAN :
         LET p == EncodePayload(ping, Message(ping, v))
             read == DecodePayload(ping, [p EXCEPT !.map = ~broken]) IN
         /\ odd' = Odd(IF broken THEN "notmap" ELSE "value", "")
         /\ answers' = <<Message(ping, v)>>
         /\ said' = Message(pong, [Full(pong) EXCEPT !["server_timestamp_unix_nanos"] =
                      IF read.outcome = "ok" THEN read.values[1].value["server_timestamp_unix_nanos"]
                                             ELSE "dflt"])
  /\ phase' = "sent"
  /\ UNCHANGED <<session, heard, wire, eof, buf, frames, result>>

(* How the exchange ends, and what that makes of the connection: a failed  *)
(* handshake closes it, and so does the reader's failure.                  *)
Ends(r, fatal) ==
  /\ phase' = "done" /\ result' = r
  /\ session' = IF fatal THEN "new"
                ELSE IF xch.shape # "expect" THEN session
                ELSE IF r.outcome # "ok" THEN "new"
                ELSE IF exch = "hello" THEN "welcomed" ELSE "open"

(* _write: sendall fails, or the payload is over what WELCOME advertised.  *)
(* close() closes the socket all the same.                                 *)
WriteFails ==
  /\ phase = "sent" /\ odd = Usual
  /\ \/ odd' = Odd("reset", "") /\ Ends(Raised("OSError"), TRUE)
     \/ /\ xch.shape # "expect"
        /\ odd' = Odd("oversize", "") /\ Ends(Raised("ProtocolError"), exch = "bye")
  /\ UNCHANGED <<exch, said, heard, answers, wire, eof, buf, frames>>

-----------------------------------------------------------------------------
(* The server and the network.                                             *)

(* The server reads the request by the same conventions; BYE and a pong    *)
(* have no answer.                                                         *)
ServerReads ==
  /\ phase = "sent"
  /\ LET read == DecodePayload(xch.sends, EncodePayload(xch.sends, said)) IN
       heard' = IF read.outcome = "ok" THEN read.values[1] ELSE Nothing
  /\ IF xch.shape = "oneway"
       THEN /\ phase' = "done" /\ result' = [outcome |-> "ok", values |-> <<>>]
            /\ session' = IF exch = "bye" THEN "new" ELSE session
       ELSE phase' = "read" /\ UNCHANGED <<result, session>>
  /\ UNCHANGED <<exch, odd, said, answers, wire, eof, buf, frames>>

(* The response's opcode is the request's with its high bit set.           *)
Answer(eos, payload) == Frame(xch.req + 128, eos, payload)

Sends(fs) == wire' = EncodeFrame(fs[1]) \o (IF Len(fs) = 2 THEN EncodeFrame(fs[2]) ELSE <<>>)

(* Whole answers: one frame, two where the verb streams, a subscription's  *)
(* last event followed by an empty EOS frame; or an ERROR frame.           *)
AnswersPlainly ==
  LET p == EncodePayload(xch.answers, Plain(xch.answers))
      e == EncodePayload("ErrorResponse", Plain("ErrorResponse")) IN
  \/ /\ answers' = <<Plain(xch.answers)>> /\ UNCHANGED odd
     /\ Sends(<<Answer(TRUE, p)>>)
  \/ /\ xch.shape \in {"streamed", "pushed"}
     /\ answers' = <<Plain(xch.answers), Plain(xch.answers)>> /\ UNCHANGED odd
     /\ Sends(<<Answer(FALSE, p), Answer(TRUE, p)>>)
  \/ /\ xch.shape = "pushed"
     /\ answers' = <<Plain(xch.answers)>> /\ UNCHANGED odd
     /\ Sends(<<Answer(FALSE, p), Answer(TRUE, NoPayload)>>)
  \/ /\ answers' = <<Plain("ErrorResponse")>> /\ odd' = Odd("error", "")
     /\ \/ Sends(<<Frame(ERROR, TRUE, e)>>)
        \/ xch.shape = "streamed" /\ Sends(<<Answer(FALSE, p), Frame(ERROR, TRUE, e)>>)

(* One class of the answer has a value of its own.                         *)
AnswersVariously ==
  /\ \/ /\ odd' = Odd("value", "")
        /\ \E c \in Focus[exch].answers : \E v \in Inputs[c] :
             /\ Sendable(Classes[c], v)
             /\ answers' = <<Message(c, v)>>
             /\ Sends(<<Answer(TRUE, EncodePayload(xch.answers, Message(c, v)))>>)
     \/ /\ odd' = Odd("error", "")
        /\ \E c \in Focus[exch].error : \E v \in Inputs[c] :
             /\ Sendable(Classes[c], v)
             /\ answers' = <<Message(c, v)>>
             /\ Sends(<<Frame(ERROR, TRUE, EncodePayload("ErrorResponse", Message(c, v)))>>)

(* What may be wrong with one item of a map.                               *)
Harm(k) == {"absent", "null"} \cup (IF k.as = "sub" THEN {"bad"} ELSE {})
                              \cup (IF k.of \in DOMAIN Variants THEN {"unknown"} ELSE {})

Harmed(p, f, item) == [p EXCEPT !.items = [p.items EXCEPT ![f] = item]]

(* The answer breaks the protocol: the wrong opcode, a frame too many, an  *)
(* item missing or unreadable, bytes after the map, something else than a  *)
(* map.                                                                    *)
AnswersWrongly ==
  LET p == EncodePayload(xch.answers, Plain(xch.answers)) IN
  \/ /\ odd' = Odd("opcode", "") /\ answers' = <<Plain(xch.answers)>>
     /\ Sends(<<Frame(xch.req, TRUE, p)>>)
  \/ /\ xch.shape = "unary"
     /\ odd' = Odd("twice", "") /\ answers' = <<Plain(xch.answers), Plain(xch.answers)>>
     /\ Sends(<<Answer(FALSE, p), Answer(TRUE, p)>>)
  \/ /\ odd' = Odd("trailing", "") /\ answers' = <<Plain(xch.answers)>>
     /\ Sends(<<Answer(TRUE, [p EXCEPT !.extra = 4])>>)
  \/ /\ odd' = Odd("notmap", "") /\ answers' = <<Plain(xch.answers)>>
     /\ Sends(<<Answer(TRUE, [p EXCEPT !.map = FALSE])>>)
  \/ \E c \in Focus[exch].answers : \E f \in DOMAIN Classes[c] :
       \E item \in Harm(Classes[c][f]) :
         /\ odd' = Odd(item, f) /\ answers' = <<Plain(c)>>
         /\ Sends(<<Answer(TRUE, Harmed(EncodePayload(xch.answers, Plain(c)), f, item))>>)
  \/ \E c \in Focus[exch].error : \E f \in DOMAIN Classes[c] :
       \E item \in Harm(Classes[c][f]) :
         /\ odd' = Odd(item, f) /\ answers' = <<Plain(c)>>
         /\ Sends(<<Frame(ERROR, TRUE, Harmed(EncodePayload("ErrorResponse", Plain(c)), f, item))>>)

ServerAnswers ==
  /\ phase = "read" /\ answers = <<>> /\ ~eof
  /\ \/ AnswersPlainly
     \/ odd = Usual /\ (AnswersVariously \/ AnswersWrongly)
  /\ UNCHANGED <<phase, session, exch, said, heard, eof, buf, frames, result>>

Corrupts ==
  /\ phase = "read" /\ odd = Usual
  /\ \E i \in DOMAIN wire : wire' = [wire EXCEPT ![i].intact = FALSE]
  /\ odd' = Odd("corrupt", "")
  /\ UNCHANGED <<phase, session, exch, said, heard, answers, eof, buf, frames, result>>

(* The connection ends, after some of what was on its way: the peer closes *)
(* it, or resets it.                                                       *)
HangsUp ==
  /\ phase = "read" /\ odd = Usual /\ ~eof
  /\ \E n \in 0..Len(wire) : wire' = SubSeq(wire, 1, n)
  /\ eof' = TRUE
  /\ odd' \in {Odd("hangup", ""), Odd("reset", "")}
  /\ UNCHANGED <<phase, session, exch, said, heard, answers, buf, frames, result>>

-----------------------------------------------------------------------------
(* The client's reading half.                                              *)

(* Mutation of FailError: the codec's error is passed on as it is.         *)
FailErrorUnwrapped(exc) == exc

(* _fail_all keeps a ConnectionClosed and an OSError; any other failure of *)
(* the reader, a FrameError, becomes a ConnectionClosed.                   *)
FailError(exc) == IF exc \in {"ConnectionClosed", "OSError"} THEN exc ELSE "ConnectionClosed"

(* The reader's failure: everyone raises it, but Subscription.next makes a *)
(* ConnectionClosed the end of the stream.                                 *)
ConnectionLost(exc) ==
  Ends(IF xch.shape = "pushed" /\ FailError(exc) = "ConnectionClosed"
         THEN [result EXCEPT !.outcome = "ok"] ELSE Raised(FailError(exc)),
       TRUE)

(* read_frame, short of a frame: recv some bytes, or the end of the stream,*)
(* or the OSError of a reset.                                              *)
Recv ==
  /\ phase = "read" /\ DecodeFrame(buf).status = "TruncatedFrame"
  /\ \/ \E n \in 1..Len(wire) :
          /\ buf' = buf \o SubSeq(wire, 1, n)
          /\ wire' = SubSeq(wire, n + 1, Len(wire))
          /\ UNCHANGED <<phase, session, result>>
     \/ /\ wire = <<>> /\ eof
        /\ ConnectionLost(IF odd.kind = "reset" THEN "OSError" ELSE "ConnectionClosed")
        /\ UNCHANGED <<buf, wire>>
  /\ UNCHANGED <<exch, odd, said, heard, answers, eof, frames>>

BadFrame ==
  /\ phase = "read" /\ DecodeFrame(buf).status = "FrameError"
  /\ ConnectionLost("FrameError")
  /\ UNCHANGED <<exch, odd, said, heard, answers, wire, eof, buf, frames>>

(* _next: the deadline passes before the next frame is in the queue.       *)
Timeout ==
  /\ phase = "read" /\ odd = Usual
  /\ odd' = Odd("late", "")
  /\ Ends(Raised("BrainTimeout"), FALSE)
  /\ UNCHANGED <<exch, said, heard, answers, wire, eof, buf, frames>>

(* An ERROR frame raises at once, whatever came before it; a null code     *)
(* cannot be formatted into ServerError's message.                         *)
ServerErrorOf(f) ==
  LET read == DecodePayload("ErrorResponse", f.payload) IN
  IF read.outcome # "ok" THEN read
  ELSE IF read.values[1].class = "ErrorResponse" /\ read.values[1].value["code"] = "none"
    THEN Raised("TypeError")
  ELSE Raised("ServerError")

(* Mutation of Accept: the response opcode is not looked at.               *)
AcceptAnyOpcode(f) == DecodePayload(xch.answers, f.payload)

(* _unary, _streamed, _expect, decode_pong on one frame.                   *)
Accept(f) ==
  IF f.op # xch.resp THEN Raised("ProtocolError") ELSE DecodePayload(xch.answers, f.payload)

(* The verb's view of the frames request returned: request_one wants one;  *)
(* a streamed verb decodes them in turn and stops at the first failure.    *)
Verdict(fs) ==
  LET bad == {i \in DOMAIN fs : Accept(fs[i]).outcome # "ok"} IN
  IF xch.shape = "unary" /\ Len(fs) # 1 THEN Raised("ProtocolError")
  ELSE IF bad # {} THEN Accept(fs[CHOOSE i \in bad : \A j \in bad : i <= j])
  ELSE [outcome |-> "ok", values |-> [i \in DOMAIN fs |-> Accept(fs[i]).values[1]]]

(* handshake: a WELCOME with a version the client did not offer.           *)
Negotiated(r) ==
  IF exch = "hello" /\ r.outcome = "ok" /\ r.values[1].class = "WelcomePayload"
     /\ r.values[1].value["chosen_version"] # "val"
    THEN Raised("VersionMismatch") ELSE r

(* request: frames up to and including EOS.                                *)
Collect(f) ==
  /\ frames' = Append(frames, f)
  /\ IF f.eos THEN Ends(Verdict(frames'), FALSE) ELSE UNCHANGED <<phase, session, result>>

(* Mutation of NextEvent: EOS ends the stream even when it carries an event.*)
NextEventEosEmpty(f) ==
  LET read == DecodePayload(xch.answers, f.payload) IN
  /\ IF f.eos THEN Ends([result EXCEPT !.outcome = "ok"], FALSE)
     ELSE IF read.outcome # "ok" THEN Ends(read, FALSE)
     ELSE result' = [result EXCEPT !.values = @ \o read.values] /\ UNCHANGED <<phase, session>>
  /\ UNCHANGED frames

(* Mutation of NextEvent: an EOS frame is decoded even when it is empty.    *)
NextEventEosDecoded(f) ==
  LET read == DecodePayload(xch.answers, f.payload) IN
  /\ IF read.outcome # "ok" THEN Ends(read, FALSE)
     ELSE IF f.eos THEN Ends([outcome |-> "ok", values |-> result.values \o read.values], FALSE)
     ELSE /\ result' = [result EXCEPT !.values = @ \o read.values]
          /\ UNCHANGED <<phase, session>>
  /\ UNCHANGED frames

(* Subscription.next, called until it returns None or raises: the opcode   *)
(* is not looked at, and an EOS frame may be empty.                        *)
NextEvent(f) ==
  LET read == DecodePayload(xch.answers, f.payload) IN
  /\ IF f.eos /\ f.payload = NoPayload THEN Ends([result EXCEPT !.outcome = "ok"], FALSE)
     ELSE IF read.outcome # "ok" THEN Ends(read, FALSE)
     ELSE IF f.eos THEN Ends([outcome |-> "ok", values |-> result.values \o read.values], FALSE)
     ELSE /\ result' = [result EXCEPT !.values = @ \o read.values]
          /\ UNCHANGED <<phase, session>>
  /\ UNCHANGED frames

TakeFrame ==
  /\ phase = "read" /\ DecodeFrame(buf).status = "ok"
  /\ buf' = DecodeFrame(buf).rest
  /\ LET f == DecodeFrame(buf).frame IN
       \/ f.op = ERROR /\ Ends(ServerErrorOf(f), FALSE) /\ UNCHANGED frames
       \/ f.op # ERROR /\ xch.shape = "expect" /\ Ends(Negotiated(Accept(f)), FALSE) /\ UNCHANGED frames
       \/ f.op # ERROR /\ xch.shape = "pushed" /\ NextEvent(f)
       \/ f.op # ERROR /\ xch.shape \in {"unary", "streamed"} /\ Collect(f)
  /\ UNCHANGED <<exch, odd, said, heard, answers, wire, eof>>

(* The caller has its result; what is left on the wire belonged to a route *)
(* that is gone; the end of the stream, or damage, that the reader has not *)
(* met yet still ends the connection.                                      *)
Return ==
  /\ phase = "done"
  /\ phase' = "idle" /\ exch' = "hello" /\ odd' = Usual
  /\ said' = Nothing /\ heard' = Nothing /\ answers' = <<>>
  /\ wire' = <<>> /\ eof' = FALSE /\ buf' = <<>> /\ frames' = <<>> /\ result' = Pending
  /\ session' = IF odd.kind \in {"hangup", "reset", "corrupt"} THEN "new" ELSE session

Next ==
  \/ \E name \in DOMAIN Exchanges : Call(name)
  \/ WriteFails \/ Heartbeat \/ ServerReads \/ ServerAnswers \/ Corrupts \/ HangsUp
  \/ Recv \/ BadFrame \/ Timeout \/ TakeFrame \/ Return

Spec == Init /\ [][Next]_vars
-----------------------------------------------------------------------------
(* Properties.                                                             *)

Phases == {"idle", "sent", "read", "done"}
OddKinds == {"none", "value", "error", "opcode", "twice", "trailing", "notmap", "absent", "null",
             "bad", "unknown", "corrupt", "hangup", "reset", "late", "oversize"}
BrainErrors == {"ServerError", "ProtocolError", "ConnectionClosed", "VersionMismatch",
                "BrainTimeout"}
Failures == BrainErrors \cup {"OSError", "CborError", "TypeError", "FieldError", "OverflowError"}

(* The exchange stays in its phases, and ends in a result or in one of the *)
(* exceptions the code raises to a caller: a FrameError is not one of them.*)
TypeOK ==
  /\ phase \in Phases
  /\ session \in {"new", "welcomed", "open"}
  /\ exch \in DOMAIN Exchanges
  /\ odd.kind \in OddKinds
  /\ said.class \in DOMAIN Classes \cup {""}
  /\ \A f \in DOMAIN heard.value : heard.value[f] \in Values
  /\ eof \in BOOLEAN
  /\ result.outcome \in Failures \cup {"none", "ok"}

(* Every request class: what the server reads is what the caller asked for,*)
(* through the keys to_map leaves out or writes as null and the defaults   *)
(* and rounding on the other side, or it reads nothing and the caller is   *)
(* told.  A float beyond a single's range arrives only where it is written *)
(* as a double (a StatementValue).  A pong echoes its heartbeat.           *)
RequestArrives ==
  phase \in {"read", "done"} =>
    /\ \/ heard = MeantBy(said)
       \/ /\ heard = Nothing /\ phase = "done"
          /\ result.outcome \in {"OverflowError", "OSError", "ProtocolError"}
    /\ \A f \in DOMAIN heard.value :
         heard.value[f] = "huge" => Classes[heard.class][f].as = "double"
    /\ exch = "pong" /\ odd.kind = "value" =>
         heard.value["server_timestamp_unix_nanos"]
           = answers[1].value["server_timestamp_unix_nanos"]

UnofferedVersion ==
  exch = "hello" /\ answers[1].class = "WelcomePayload"
    /\ answers[1].value["chosen_version"] # "val"

Undecodable == {"trailing", "notmap", "absent", "null", "bad", "unknown"}

Transport == {"hangup", "reset", "corrupt", "late"}
Retryable == {"ConnectionClosed", "OSError", "BrainTimeout"}

(* The exception tells the caller's retry loop the cause (is_retryable: "A *)
(* transient transport drop or timeout ... is retryable; a malformed-input *)
(* ... verdict is not").  A fault of the transport that keeps the answer   *)
(* from the caller raises one that is_retryable accepts by its type, or    *)
(* ends a subscription; nothing else raises one of those (a ServerError is *)
(* judged by its category).  errors.py says "Every connection operation    *)
(* raises a BrainError (or a subclass) on failure ... Frame-codec failures *)
(* keep raising FrameError ...; CBOR failures raise from cbor2".  The code *)
(* wraps a FrameError in a ConnectionClosed, and two kinds of failure leave*)
(* the taxonomy: a reset, as OSError, and a payload the server got wrong,  *)
(* as the exception of the CBOR or of a from_map.                          *)
FailsByCause ==
  phase = "done" /\ Writable(said) =>
    /\ odd.kind \in Transport => result.outcome \in Retryable \cup {"ok"}
    /\ odd.kind \notin Transport => result.outcome \notin Retryable
    /\ odd.kind \notin Undecodable \cup {"reset"} => result.outcome \in BrainErrors \cup {"ok"}

(* Every verb: an exchange in which nothing goes wrong gives the caller all*)
(* of the answer in order, however its bytes were cut; an ERROR frame is   *)
(* raised as ServerError, even after some of the answer.                   *)
HonestAnswer ==
  phase = "done" /\ Writable(said) /\ xch.shape # "oneway" =>
    /\ odd.kind \in {"none", "value"} /\ ~UnofferedVersion =>
         result = [outcome |-> "ok", values |-> [i \in DOMAIN answers |-> MeantBy(answers[i])]]
    /\ odd.kind = "error" => result = Raised("ServerError")

(* A field read from a damaged answer: itself, or, at the item that was    *)
(* harmed, what stands for nothing there or the unknown tag.  EvidenceRef  *)
(* reads an unknown tag as Overflow and is left out.                       *)
Reads(k, f, got, v) ==
  \/ got = Rounded(k, v)
  \/ f = odd.key /\ (got \in {"none", "dflt", "kept"} \/ k.of = "EvidenceRef")

(* What the caller accepts, the server sent: a damaged frame, a short      *)
(* stream, a foreign opcode, an extra frame or trailing bytes never come   *)
(* back as an answer, and a harmed item never changes another one nor      *)
(* becomes a value.  A subscription may end early, and does not look at    *)
(* opcodes.                                                                *)
NeverForged ==
  phase = "done" /\ result.outcome = "ok" /\ xch.shape # "oneway" =>
    /\ odd.kind \notin {"twice", "trailing", "notmap", "bad", "error"}
    /\ odd.kind \in {"opcode", "corrupt"} => xch.shape = "pushed"
    /\ Len(result.values) <= Len(answers)
    /\ xch.shape # "pushed" => Len(result.values) = Len(answers)
    /\ \A i \in DOMAIN result.values :
         /\ result.values[i].class = answers[i].class
         /\ \A f \in DOMAIN answers[i].value :
              Reads(Classes[answers[i].class][f], f, result.values[i].value[f],
                    answers[i].value[f])

(* SpacePermissions, AuthOkPayload: "REQUIRED, not defaulted".  A WELCOME  *)
(* or AUTH_OK that lacks a key, at any depth, never opens a session.       *)
HandshakeStrict ==
  [][phase = "read" /\ phase' = "done" /\ xch.shape = "expect" /\ odd.kind = "absent"
       => session' = "new"]_vars

=============================================================================
