-------------------------- MODULE CallsAnswerProofs --------------------------
(***************************************************************************)
(* What a call makes of its answer: TypeOK, FailsByCause, HonestAnswer     *)
(* and NeverForged, for every set of coherent payload classes and every    *)
(* table of exchanges.                                                     *)
(*                                                                         *)
(* Every answer is one frame with EOS, or an ordinary first frame and then *)
(* one with EOS.  The invariant says what the client will make of the EOS  *)
(* frame (Reply), and that the bytes it has not yet decoded, buf \o wire,  *)
(* are what is left of those frames: whole unless the server hung up,      *)
(* intact unless the network damaged a cell.                               *)
(***************************************************************************)
EXTENDS CallsProofs, SequenceTheorems

Stream == buf \o wire

(* The frame before the last one, where there is one. *)
First == Answer(FALSE, EncodePayload(xch.answers, Plain(xch.answers)))

(* What the verb reads in a frame of its answer. *)
ReadOf(g) == DecodePayload(xch.answers, g.payload)
Ok(m) == [outcome |-> "ok", values |-> <<m>>]

Good(m) == m.class \in DOMAIN Classes /\ m.value \in ValuesOf(Classes[m.class]) /\ m = Message(m.class, m.value)

Sized(g) == g.length \in {0, 1}

(* The EOS frame, by what the client will make of it: the last part of the
   answer; an empty end of stream; an ERROR; an opcode that is not the
   verb's; a payload the server got wrong. *)
Fair == {"none", "value", "corrupt", "hangup", "reset"}
Truthful(g) ==
  /\ odd.kind \in Fair \cup {"twice"} /\ g.op = xch.resp /\ g.payload # NoPayload
  /\ ReadOf(g) = Ok(MeantBy(answers[Len(answers)]))
Closing(g) ==
  /\ odd.kind \in Fair /\ xch.shape = "pushed" /\ g.op = xch.resp /\ g.payload = NoPayload
  /\ answers = <<Plain(xch.answers)>>
Refusal(g) ==
  odd.kind = "error" /\ g.op = ERROR /\ ServerErrorOf(g) = Raised("ServerError")
Foreign(g) ==
  /\ odd.kind = "opcode" /\ g.op \notin {xch.resp, ERROR} /\ g.payload # NoPayload
  /\ ReadOf(g) = Ok(MeantBy(answers[1]))
Harmless(m) ==
  /\ m.class = answers[1].class
  /\ \A f \in DOMAIN answers[1].value :
       Reads(Classes[answers[1].class][f], f, m.value[f], answers[1].value[f])
Broken(g) ==
  /\ odd.kind \in Undecodable
  /\ \/ g.op = ERROR
     \/ /\ g.op = xch.resp /\ g.payload # NoPayload
        /\ \/ ReadOf(g) \in {Raised("CborError"), Raised("TypeError"), Raised("FieldError")}
           \/ /\ odd.kind \in {"absent", "null", "unknown"}
              /\ ReadOf(g) = Ok(ReadOf(g).values[1]) /\ Harmless(ReadOf(g).values[1])
Reply(g) ==
  g.eos = TRUE /\ Sized(g) /\ (Truthful(g) \/ Closing(g) \/ Refusal(g) \/ Foreign(g) \/ Broken(g))

(* It comes alone, or after First; only an odd answer is not the ordinary one. *)
Alone(g) ==
  /\ Reply(g) /\ ~Closing(g) /\ odd.kind # "twice" /\ answers = <<answers[1]>> /\ Good(answers[1])
  /\ odd.kind \in Fair \ {"value"} => answers[1] = Plain(xch.answers)
Paired(g) ==
  /\ Reply(g)
  /\ \/ /\ Truthful(g) /\ answers = <<Plain(xch.answers), Plain(xch.answers)>>
        /\ IF odd.kind = "twice" THEN xch.shape = "unary" ELSE xch.shape \in {"streamed", "pushed"}
     \/ Closing(g)
     \/ Refusal(g) /\ xch.shape = "streamed" /\ answers # <<>>

Cell(g, i) == [frame : {g}, at : {i}, intact : BOOLEAN]
CellsOf(S) == [frame : S, at : Nat, intact : BOOLEAN]
Cells(g) == CellsOf({First, g})
OneFrame(s, g) == Len(s) <= Size(g) /\ \A i \in 1..Len(s) : s[i] \in Cell(g, i)
TwoFrames(s, f, g) ==
  /\ Len(s) <= Size(f) + Size(g)
  /\ \A i \in 1..Len(s) : /\ i <= Size(f) => s[i] \in Cell(f, i)
                          /\ i > Size(f) => s[i] \in Cell(g, i - Size(f))

(* Whole unless the server hung up, damaged exactly if the network did it. *)
Sound(s, n) ==
  /\ odd.kind \notin {"hangup", "reset"} => Len(s) = n
  /\ odd.kind = "corrupt" <=> \E i \in 1..Len(s) : ~s[i].intact

Quiet == frames = <<>> /\ result = Pending

(* First has been taken. *)
HalfWay ==
  IF xch.shape = "pushed"
    THEN frames = <<>> /\ result = [outcome |-> "none", values |-> <<MeantBy(Plain(xch.answers))>>]
    ELSE frames = <<First>> /\ result = Pending

Flight(g) ==
  /\ buf \in Seq(Cells(g)) /\ wire \in Seq(Cells(g))
  /\ \/ Alone(g) /\ OneFrame(Stream, g) /\ Sound(Stream, Size(g)) /\ Quiet
     \/ Paired(g) /\ TwoFrames(Stream, First, g) /\ Sound(Stream, Size(First) + Size(g)) /\ Quiet
     \/ Paired(g) /\ OneFrame(Stream, g) /\ Sound(Stream, Size(g)) /\ HalfWay

Before ==
  phase \in {"idle", "sent"} =>
    /\ buf = <<>> /\ wire = <<>> /\ Quiet /\ eof = FALSE
    /\ phase = "idle" \/ exch # "pong" => answers = <<>>
    /\ phase = "sent" /\ exch # "pong" => odd.kind \in {"none", "value"}

Reading ==
  phase = "read" =>
    /\ xch.shape # "oneway" /\ eof \in BOOLEAN /\ (eof <=> odd.kind \in {"hangup", "reset"})
    /\ \/ /\ answers = <<>> /\ buf = <<>> /\ wire = <<>> /\ Quiet
          /\ odd.kind \in {"none", "value", "hangup", "reset"}
       \/ \E g : Flight(g)

Told == FailsByCause /\ HonestAnswer /\ NeverForged

AnswerInv == IInv /\ Before /\ Reading /\ Told

-----------------------------------------------------------------------------
(* The codec.                                                              *)

(* A frame takes its header and at most one payload cell. *)
LEMMA SizeIs == ASSUME NEW g, Sized(g) PROVE Size(g) \in {2, 3}
BY DEF Sized, Size, HEADER_SIZE

(* decode_frame on a buffer that begins one frame: it takes the whole of it
   and finds every cell intact, or it has met a damaged one. *)
LEMMA DecodeOne ==
  ASSUME NEW S, NEW b \in Seq(S), NEW g, Sized(g), OneFrame(b, g)
  PROVE  /\ DecodeFrame(b).status = "ok" =>
              /\ DecodeFrame(b).frame = g /\ DecodeFrame(b).rest = <<>>
              /\ Len(b) = Size(g) /\ \A i \in 1..Len(b) : b[i].intact
         /\ DecodeFrame(b).status = "FrameError" => \E i \in 1..Len(b) : ~b[i].intact
<1>1. Len(b) \in Nat /\ Size(g) \in {2, 3} /\ Len(b) <= Size(g)
  BY SizeIs DEF OneFrame
<1>2. \A i \in 1..Len(b) : b[i].frame = g /\ b[i].at = i
  BY DEF OneFrame, Cell
<1>3. \A i \in 1..Len(b) : Damaged(b[i], i) <=> ~b[i].intact
  BY <1>2 DEF Damaged
<1>4. CASE Len(b) < 2
  BY <1>4 DEF DecodeFrame, HEADER_SIZE
<1>5. CASE Len(b) >= 2
  <2>1. b[1].frame = g /\ 1..2 \subseteq 1..Len(b)
    BY <1>1, <1>2, <1>5
  <2>2. CASE \E i \in 1..2 : Damaged(b[i], i)
    <3>1. DecodeFrame(b) = [status |-> "FrameError"]
      BY <1>1, <1>5, <2>2 DEF DecodeFrame, HEADER_SIZE
    <3> QED
      BY <1>3, <2>1, <2>2, <3>1
  <2>3. CASE ~(\E i \in 1..2 : Damaged(b[i], i))
    <3>1. CASE Len(b) < Size(g)
      <4>1. DecodeFrame(b) = [status |-> "TruncatedFrame"]
        BY <1>1, <1>5, <2>1, <2>3, <3>1 DEF DecodeFrame, HEADER_SIZE
      <4> QED
        BY <4>1
    <3>2. CASE Len(b) = Size(g)
      <4>1. CASE \E i \in 3..Size(g) : Damaged(b[i], i)
        <5>1. DecodeFrame(b) = [status |-> "FrameError"]
          BY <1>1, <1>5, <2>1, <2>3, <3>2, <4>1 DEF DecodeFrame, HEADER_SIZE
        <5> QED
          BY <1>1, <1>3, <3>2, <4>1, <5>1
      <4>2. CASE ~(\E i \in 3..Size(g) : Damaged(b[i], i))
        <5>1. DecodeFrame(b) = [status |-> "ok", frame |-> g, rest |-> SubSeq(b, Size(g) + 1, Len(b))]
          BY <1>1, <1>5, <2>1, <2>3, <3>2, <4>2 DEF DecodeFrame, HEADER_SIZE
        <5>2. SubSeq(b, Size(g) + 1, Len(b)) = <<>>
          BY <1>1, <3>2
        <5>3. \A i \in 1..Len(b) : i \in 1..2 \/ i \in 3..Size(g)
          BY <1>1, <3>2
        <5> QED
          BY <1>3, <2>3, <3>2, <4>2, <5>1, <5>2, <5>3
      <4> QED
        BY <4>1, <4>2
    <3> QED
      BY <1>1, <3>1, <3>2
  <2> QED
    BY <2>2, <2>3
<1> QED
  BY <1>1, <1>4, <1>5

(* ... and on one that begins two. *)
LEMMA DecodeTwo ==
  ASSUME NEW S, NEW b \in Seq(S), NEW f, Sized(f), NEW g, Sized(g), TwoFrames(b, f, g)
  PROVE  /\ DecodeFrame(b).status = "ok" =>
              /\ DecodeFrame(b).frame = f /\ DecodeFrame(b).rest = SubSeq(b, Size(f) + 1, Len(b))
              /\ Size(f) <= Len(b) /\ \A i \in 1..Size(f) : b[i].intact
         /\ DecodeFrame(b).status = "FrameError" => \E i \in 1..Len(b) : ~b[i].intact
<1>1. Len(b) \in Nat /\ Size(f) \in {2, 3}
  BY SizeIs
<1>2. \A i \in 1..Len(b) : i <= Size(f) => b[i].frame = f /\ b[i].at = i
  BY DEF TwoFrames, Cell
<1>3. \A i \in 1..Len(b) : i <= Size(f) => (Damaged(b[i], i) <=> ~b[i].intact)
  BY <1>2 DEF Damaged
<1>4. CASE Len(b) < 2
  BY <1>4 DEF DecodeFrame, HEADER_SIZE
<1>5. CASE Len(b) >= 2
  <2>1. b[1].frame = f /\ \A i \in 1..2 : i \in 1..Len(b) /\ i <= Size(f)
    BY <1>1, <1>2, <1>5
  <2>2. CASE \E i \in 1..2 : Damaged(b[i], i)
    <3>1. DecodeFrame(b) = [status |-> "FrameError"]
      BY <1>1, <1>5, <2>2 DEF DecodeFrame, HEADER_SIZE
    <3> QED
      BY <1>3, <2>1, <2>2, <3>1
  <2>3. CASE ~(\E i \in 1..2 : Damaged(b[i], i))
    <3>1. CASE Len(b) < Size(f)
      <4>1. DecodeFrame(b) = [status |-> "TruncatedFrame"]
        BY <1>1, <1>5, <2>1, <2>3, <3>1 DEF DecodeFrame, HEADER_SIZE
      <4> QED
        BY <4>1
    <3>2. CASE Len(b) >= Size(f)
      <4>1. CASE \E i \in 3..Size(f) : Damaged(b[i], i)
        <5>1. DecodeFrame(b) = [status |-> "FrameError"]
          BY <1>1, <1>5, <2>1, <2>3, <3>2, <4>1 DEF DecodeFrame, HEADER_SIZE
        <5> QED
          BY <1>1, <1>3, <3>2, <4>1, <5>1
      <4>2. CASE ~(\E i \in 3..Size(f) : Damaged(b[i], i))
        <5>1. DecodeFrame(b) = [status |-> "ok", frame |-> f, rest |-> SubSeq(b, Size(f) + 1, Len(b))]
          BY <1>1, <1>5, <2>1, <2>3, <3>2, <4>2 DEF DecodeFrame, HEADER_SIZE
        <5>2. \A i \in 1..Size(f) : (i \in 1..2 \/ i \in 3..Size(f)) /\ i \in 1..Len(b) /\ i <= Size(f)
          BY <1>1, <3>2
        <5>3. \A i \in 1..Size(f) : b[i].intact
          BY <1>3, <2>3, <4>2, <5>2
        <5> QED
          BY <1>1, <3>2, <5>1, <5>3
      <4> QED
        BY <4>1, <4>2
    <3> QED
      BY <1>1, <3>1, <3>2
  <2> QED
    BY <2>2, <2>3
<1> QED
  BY <1>1, <1>4, <1>5

-----------------------------------------------------------------------------
(* Payloads.                                                               *)

(* What is read of a good message is what the caller may accept. *)
LEMMA Genuine ==
  ASSUME NEW m, Good(m), NEW n, n = MeantBy(m)
  PROVE  n.class = m.class /\ \A f \in DOMAIN m.value : Reads(Classes[m.class][f], f, n.value[f], m.value[f])'
BY DEF Good, ValuesOf, MeantBy, Message, Meant, Reads

(* An ordinary value of a class is a good one. *)
LEMMA PlainGood == ASSUME NEW c \in DOMAIN Classes PROVE Good(Plain(c))
BY FullTyped DEF Good, Plain, Message

(* The payload of a good value reads back as what it means. *)
LEMMA GoodDecodes ==
  ASSUME NEW m, Good(m), NEW root
  PROVE  DecodePayload(root, EncodePayload(root, m)) = Ok(MeantBy(m)) /\ EncodePayload(root, m) # NoPayload
<1>1. DecodePayload(root, EncodePayload(root, m)) = Ok(MeantBy(m))
  BY PayloadRoundTrip DEF Good, Ok
<1>2. EncodePayload(root, m).map = TRUE
  BY DEF EncodePayload
<1>3. NoPayload.map = FALSE
  BY DEF NoPayload
<1> QED
  BY <1>1, <1>2, <1>3

(* Decoding succeeds or raises one of three exceptions. *)
LEMMA DecodeOutcome ==
  ASSUME NEW root, NEW p
  PROVE  DecodePayload(root, p).outcome \in {"ok", "CborError", "TypeError", "FieldError"}
BY DEF DecodePayload, Raised

(* An ERROR the server means has a code to format. *)
LEMMA CodeKept ==
  ASSUME NEW m, Good(m), m.class = "ErrorResponse"
  PROVE  MeantBy(m).value["code"] # "none"
<1> DEFINE C == Classes["ErrorResponse"]
<1>1. "code" \in DOMAIN C /\ ~C["code"].optional
  BY NamesAssumption
<1>2. m.value["code"] \in Domain(C["code"])
  BY <1>1 DEF Good, ValuesOf
<1>3. m.value["code"] # "none"
  BY <1>1, <1>2 DEF Domain
<1>4. MeantBy(m).value["code"] = Rounded(C["code"], m.value["code"])
  BY <1>1 DEF MeantBy, Message, Meant
<1> QED
  BY <1>3, <1>4 DEF Rounded

(* What becomes of a tag this release does not know. *)
LEMMA UnknownTags ==
  ASSUME NEW t \in DOMAIN Variants, t # "EvidenceRef"
  PROVE  Variants[t].unknown \in {"refused", "kept"}
<1> DEFINE Fine(table) == \A u \in DOMAIN table : u # "EvidenceRef" => table[u].unknown \in {"refused", "kept"}
<1>1. Fine(AuthVariants) /\ Fine(StatementVariants) /\ Fine(RetrieverVariants) /\ Fine(PlanVariants)
        /\ Fine(ReasonVariants)
  BY DEF AuthVariants, StatementVariants, RetrieverVariants, PlanVariants, ReasonVariants, Tagged
<1>2. Fine(StageVariants) /\ Fine(GraphEventVariants)
  BY DEF StageVariants, GraphEventVariants, Tagged
<1>3. \A table \in VariantTables : Fine(table)
  BY <1>1, <1>2 DEF VariantTables
<1> DEFINE of == CHOOSE table \in VariantTables : t \in DOMAIN table
<1>4. of \in VariantTables /\ t \in DOMAIN of /\ Variants[t] = of[t]
  BY DEF Variants
<1> HIDE DEF of
<1> QED
  BY <1>3, <1>4

(* What from_map makes of one harmed item. *)
LEMMA HarmedField ==
  ASSUME NEW k, Coherent(k), NEW item \in Harm(k)
  PROVE  \/ Read(k, item) = "refused"
         \/ /\ item \in {"absent", "null", "unknown"}
            /\ Read(k, item) \in {"none", "dflt", "kept"} \/ k.of = "EvidenceRef"
<1>1. CASE item = "absent"
  BY <1>1 DEF Read, Coherent, Convention
<1>2. CASE item = "null"
  BY <1>2 DEF Read
<1>3. CASE item = "bad"
  BY <1>3 DEF Read
<1>4. CASE item = "unknown"
  <2>1. k.of \in DOMAIN Variants
    BY <1>4 DEF Harm
  <2>2. Read(k, item) = Variants[k.of].unknown
    BY <1>4 DEF Read
  <2> QED
    BY <1>4, <2>1, <2>2, UnknownTags
<1> QED
  BY <1>1, <1>2, <1>3, <1>4 DEF Harm

(* A harmed item is refused, or leaves everything else as it was. *)
LEMMA HarmedReads ==
  ASSUME NEW c \in DOMAIN Classes, NEW f \in DOMAIN Classes[c], NEW item \in Harm(Classes[c][f]),
         NEW root, Trailer(root) = 0, NEW p, p = Harmed(EncodePayload(root, Plain(c)), f, item)
  PROVE  LET r == DecodePayload(root, p)
             v == r.values[1].value IN
         /\ p # NoPayload
         /\ \/ r = Raised("FieldError")
            \/ /\ item \in {"absent", "null", "unknown"}
               /\ r = Ok(r.values[1]) /\ r.values[1].class = c
               /\ \A h \in DOMAIN Classes[c] :
                    \/ v[h] = Rounded(Classes[c][h], "val")
                    \/ h = f /\ (v[h] \in {"none", "dflt", "kept"} \/ Classes[c][h].of = "EvidenceRef")
<1> DEFINE C == Classes[c]
           e == EncodePayload(root, Plain(c))
<1>1. e = [map |-> TRUE, class |-> c, items |-> [h \in DOMAIN C |-> Write(C[h], "val")], extra |-> 0]
  <2>1. Plain(c).class = c /\ Plain(c).value = Full(c)
    BY DEF Plain, Message
  <2>2. Encode(C, Full(c)) = [h \in DOMAIN C |-> Write(C[h], "val")]
    BY DEF Encode, Full
  <2> QED
    BY <2>1, <2>2 DEF EncodePayload
<1> DEFINE written == [h \in DOMAIN C |-> Write(C[h], "val")]
<1>2. e.map = TRUE /\ e.class = c /\ e.items = written /\ e.extra = 0 /\ DOMAIN e = {"map", "class", "items", "extra"}
  BY <1>1
<1> HIDE DEF e
<1>3. p.map = TRUE /\ p.class = c /\ p.extra = 0 /\ p.items = [written EXCEPT ![f] = item]
  BY <1>2 DEF Harmed, e
<1>4. p # NoPayload
  <2>1. NoPayload.map = FALSE
    BY DEF NoPayload
  <2> QED
    BY <1>3, <2>1
<1>5. \A h \in DOMAIN C : h # f => p.items[h] = Write(C[h], "val") /\ Read(C[h], p.items[h]) = Rounded(C[h], "val")
  <2> SUFFICES ASSUME NEW h \in DOMAIN C, h # f
               PROVE  p.items[h] = Write(C[h], "val") /\ Read(C[h], p.items[h]) = Rounded(C[h], "val")
    OBVIOUS
  <2>1. p.items[h] = Write(C[h], "val")
    BY <1>3
  <2>2. Coherent(C[h]) /\ "val" \in Domain(C[h])
    BY ClassesAssumption DEF Domain
  <2> QED
    BY <2>1, <2>2, FieldRoundTrip
<1>6. p.items[f] = item
  BY <1>3
<1>7. Coherent(C[f])
  BY ClassesAssumption
<1>8. \/ Read(C[f], item) = "refused"
      \/ /\ item \in {"absent", "null", "unknown"}
         /\ Read(C[f], item) \in {"none", "dflt", "kept"} \/ C[f].of = "EvidenceRef"
  BY <1>7, HarmedField
<1>9. ~((Trailer(root) = 0 /\ p.extra # 0) \/ p.extra % 4 # 0)
  BY <1>3
<1>10. CASE ~Decodes(C, p.items)
  <2>1. DecodePayload(root, p) = Raised("FieldError")
    BY <1>3, <1>9, <1>10 DEF DecodePayload
  <2> QED
    BY <1>4, <2>1
<1>11. CASE Decodes(C, p.items)
  <2>1. DecodePayload(root, p) = Ok(Message(c, Decode(C, p.items)))
    BY <1>3, <1>9, <1>11 DEF DecodePayload, Ok
  <2>2. Read(C[f], item) # "refused"
    BY <1>6, <1>11 DEF Decodes
  <2>3. \A h \in DOMAIN C : Decode(C, p.items)[h] = Read(C[h], p.items[h])
    BY DEF Decode
  <2> DEFINE m == Message(c, Decode(C, p.items))
  <2>4. m.class = c /\ m.value = Decode(C, p.items)
    BY DEF Message
  <2>5. \A h \in DOMAIN C :
           \/ m.value[h] = Rounded(C[h], "val")
           \/ h = f /\ (m.value[h] \in {"none", "dflt", "kept"} \/ C[h].of = "EvidenceRef")
    BY <1>5, <1>6, <1>8, <2>2, <2>3, <2>4
  <2>6. DecodePayload(root, p).values[1] = m /\ DecodePayload(root, p) = Ok(m)
    BY <2>1 DEF Ok
  <2> HIDE DEF m
  <2> QED
    BY <1>4, <1>8, <2>2, <2>4, <2>5, <2>6
<1> QED
  BY <1>10, <1>11

-----------------------------------------------------------------------------
(* The server answers.                                                     *)

(* What Frame puts where. *)
LEMMA FrameFields ==
  ASSUME NEW op, NEW eos, NEW p
  PROVE  LET f == Frame(op, eos, p) IN f.op = op /\ f.eos = eos /\ f.payload = p /\ Sized(f)
BY DEF Frame, Sized

(* The cells of an encoded frame are its own and intact, and there are Size of them. *)
LEMMA Encoded ==
  ASSUME NEW g, Sized(g)
  PROVE  /\ EncodeFrame(g) \in Seq(CellsOf({g})) /\ Len(EncodeFrame(g)) = Size(g)
         /\ \A i \in 1..Size(g) : EncodeFrame(g)[i] \in Cell(g, i) /\ EncodeFrame(g)[i].intact = TRUE
<1>1. Size(g) \in {2, 3} /\ Size(g) \in Nat
  BY SizeIs
<1> DEFINE T == CellsOf({g})
<1>2. \A i \in 1..Size(g) : [frame |-> g, at |-> i, intact |-> TRUE] \in T
  BY <1>1 DEF CellsOf
<1>3. EncodeFrame(g) \in [1..Size(g) -> T]
  BY <1>2 DEF EncodeFrame
<1> HIDE DEF T
<1>4. EncodeFrame(g) \in Seq(T)
  <2>1. EncodeFrame(g) \in UNION {[1..n -> T] : n \in Nat}
    BY <1>1, <1>3
  <2> QED
    BY <2>1, SeqDef, Zenon
<1>5. Len(EncodeFrame(g)) = Size(g)
  <2>1. DOMAIN EncodeFrame(g) = 1..Size(g)
    BY <1>3
  <2>2. DOMAIN EncodeFrame(g) = 1..Len(EncodeFrame(g)) /\ Len(EncodeFrame(g)) \in Nat
    BY <1>4, LenProperties
  <2> QED
    BY <1>1, <2>1, <2>2
<1>6. \A i \in 1..Size(g) : EncodeFrame(g)[i] = [frame |-> g, at |-> i, intact |-> TRUE]
  BY DEF EncodeFrame
<1>7. \A i \in 1..Size(g) : EncodeFrame(g)[i] \in Cell(g, i) /\ EncodeFrame(g)[i].intact = TRUE
  <2> SUFFICES ASSUME NEW i \in 1..Size(g)
               PROVE  EncodeFrame(g)[i] \in Cell(g, i) /\ EncodeFrame(g)[i].intact = TRUE
    OBVIOUS
  <2> DEFINE c == [frame |-> g, at |-> i, intact |-> TRUE]
  <2>1. c \in Cell(g, i) /\ c.intact = TRUE
    BY DEF Cell
  <2> HIDE DEF c
  <2>2. EncodeFrame(g)[i] = c
    BY <1>6 DEF c
  <2> QED
    BY <2>1, <2>2
<1> QED
  BY <1>4, <1>5, <1>7 DEF T

(* The cells of one frame are cells of any set of frames with it. *)
LEMMA Widened ==
  ASSUME NEW g, NEW S, g \in S, NEW s \in Seq(CellsOf({g}))
  PROVE  s \in Seq(CellsOf(S))
<1> DEFINE A == CellsOf({g})
           B == CellsOf(S)
<1>1. A \subseteq B
  BY DEF CellsOf
<1>2. s \in Seq(A)
  OBVIOUS
<1> HIDE DEF A, B
<1>3. s \in Seq(B)
  BY <1>1, <1>2, SeqMonotonic
<1> QED
  BY <1>3 DEF B

(* One frame goes out. *)
LEMMA OneSent ==
  ASSUME NEW g, Sized(g), buf' = <<>>, Sends(<<g>>), odd'.kind \notin {"corrupt", "hangup", "reset"}
  PROVE  /\ buf' \in Seq(Cells(g)') /\ wire' \in Seq(Cells(g)')
         /\ OneFrame(Stream, g)' /\ Sound(Stream, Size(g))'
<1>1. EncodeFrame(g) \in Seq(Cells(g)')
  <2> DEFINE T == {First', g}
  <2>1. g \in T
    OBVIOUS
  <2> HIDE DEF T
  <2>2. EncodeFrame(g) \in Seq(CellsOf(T))
    BY <2>1, Encoded, Widened
  <2> QED
    BY <2>2 DEF Cells, T
<1>2. wire' = EncodeFrame(g)
  BY <1>1 DEF Sends
<1>3. Stream' = EncodeFrame(g)
  BY <1>1, <1>2 DEF Stream
<1>4. /\ Len(EncodeFrame(g)) = Size(g) /\ Size(g) \in {2, 3}
      /\ \A i \in 1..Size(g) : EncodeFrame(g)[i] \in Cell(g, i) /\ EncodeFrame(g)[i].intact = TRUE
  <2>1. Size(g) \in {2, 3}
    BY SizeIs
  <2>2. Len(EncodeFrame(g)) = Size(g)
    BY Encoded
  <2>3. \A i \in 1..Size(g) : EncodeFrame(g)[i] \in Cell(g, i) /\ EncodeFrame(g)[i].intact = TRUE
    BY Encoded
  <2> QED
    BY <2>1, <2>2, <2>3
<1>5. OneFrame(Stream, g)'
  BY <1>3, <1>4 DEF OneFrame
<1>6. Sound(Stream, Size(g))'
  BY <1>3, <1>4 DEF Sound
<1>7. buf' \in Seq(Cells(g)')
  OBVIOUS
<1> QED
  BY <1>1, <1>2, <1>5, <1>6, <1>7

(* Two frames go out. *)
LEMMA TwoSent ==
  ASSUME NEW f, Sized(f), NEW g, Sized(g), First' = f, buf' = <<>>, Sends(<<f, g>>),
         odd'.kind \notin {"corrupt", "hangup", "reset"}
  PROVE  /\ buf' \in Seq(Cells(g)') /\ wire' \in Seq(Cells(g)')
         /\ TwoFrames(Stream, First, g)' /\ Sound(Stream, Size(First) + Size(g))'
<1> DEFINE a == EncodeFrame(f)
           b == EncodeFrame(g)
<1>1. a \in Seq(Cells(g)') /\ b \in Seq(Cells(g)')
  <2> DEFINE T == {First', g}
  <2>1. f \in T /\ g \in T
    OBVIOUS
  <2> HIDE DEF T
  <2>2. /\ a \in Seq(CellsOf(T))
        /\ b \in Seq(CellsOf(T))
    BY <2>1, Encoded, Widened
  <2> QED
    BY <2>2 DEF Cells, T
<1>2. wire' = a \o b
  BY <1>1 DEF Sends
<1>3. /\ Len(a) = Size(f) /\ Size(f) \in {2, 3} /\ Len(b) = Size(g) /\ Size(g) \in {2, 3}
      /\ \A i \in 1..Size(f) : a[i] \in Cell(f, i) /\ a[i].intact
      /\ \A i \in 1..Size(g) : b[i] \in Cell(g, i) /\ b[i].intact
  BY Encoded, SizeIs
<1> HIDE DEF a, b
<1>4. a \o b \in Seq(Cells(g)') /\ Len(a \o b) = Size(f) + Size(g)
  BY <1>1, <1>3
<1>5. Stream' = a \o b
  BY <1>2, <1>4 DEF Stream
<1>6. \A i \in 1..(Size(f) + Size(g)) :
         /\ i <= Size(f) => (a \o b)[i] = a[i] /\ i \in 1..Size(f)
         /\ i > Size(f) => (a \o b)[i] = b[i - Size(f)] /\ i - Size(f) \in 1..Size(g)
  BY <1>1, <1>3
<1>7. TwoFrames(Stream, First, g)'
  BY <1>3, <1>4, <1>5, <1>6 DEF TwoFrames
<1>8. Sound(Stream, Size(First) + Size(g))'
  BY <1>3, <1>4, <1>5, <1>6 DEF Sound
<1>9. buf' \in Seq(Cells(g)')
  OBVIOUS
<1> QED
  BY <1>2, <1>4, <1>7, <1>8, <1>9

(* The answer is on its way, in one frame or in two. *)
LEMMA Departs ==
  ASSUME Reading, ServerAnswers, exch \in DOMAIN Exchanges,
         odd'.kind \notin {"corrupt", "hangup", "reset"},
         \/ \E g : Alone(g)' /\ Sends(<<g>>)
         \/ \E g : Paired(g)' /\ Sends(<<First, g>>)
  PROVE  Reading'
<1>1. /\ phase = "read" /\ answers = <<>> /\ ~eof /\ UNCHANGED <<exch, eof, buf, frames, result, phase>>
  BY DEF ServerAnswers
<1>2. ~\E g : Flight(g)
  BY <1>1 DEF Flight, Alone, Paired, Truthful, Closing
<1>3. xch.shape # "oneway" /\ eof \in BOOLEAN /\ buf = <<>> /\ Quiet
  BY <1>1, <1>2 DEF Reading
<1>4. xch' = xch /\ First' = First /\ Quiet' /\ buf' = <<>>
  BY <1>1, <1>3 DEF xch, First, Answer, Quiet
<1>5. ASSUME NEW g, Alone(g)', Sends(<<g>>) PROVE Flight(g)'
  <2>1. Sized(g)
    BY <1>5 DEF Alone, Reply
  <2>2. buf' \in Seq(Cells(g)') /\ wire' \in Seq(Cells(g)') /\ OneFrame(Stream, g)' /\ Sound(Stream, Size(g))'
    BY <1>4, <1>5, <2>1, OneSent
  <2> QED
    BY <1>4, <1>5, <2>2 DEF Flight
<1>6. ASSUME NEW g, Paired(g)', Sends(<<First, g>>) PROVE Flight(g)'
  <2>1. Sized(g) /\ Sized(First)
    BY <1>6, FrameFields DEF Paired, Reply, First, Answer
  <2>2. /\ buf' \in Seq(Cells(g)') /\ wire' \in Seq(Cells(g)')
        /\ TwoFrames(Stream, First, g)' /\ Sound(Stream, Size(First) + Size(g))'
    BY <1>4, <1>6, <2>1, TwoSent
  <2> QED
    BY <1>4, <1>6, <2>2 DEF Flight
<1>7. \E g : Flight(g)'
  BY <1>5, <1>6
<1>8. eof' = FALSE
  BY <1>1, <1>3
<1>9. (\E g : Flight(g))'
  BY <1>7
<1> QED
  BY <1>1, <1>3, <1>4, <1>8, <1>9 DEF Reading

(* Whatever the server answers, the client will make of it what Reply says. *)
LEMMA AnswersSent ==
  ASSUME IInv, Reading, ServerAnswers
  PROVE  Reading'
<1> DEFINE P == Plain(xch.answers)
           p == EncodePayload(xch.answers, P)
<1>1. phase = "read" /\ answers = <<>> /\ ~eof /\ UNCHANGED <<exch, buf, frames, result, phase, eof>>
  BY DEF ServerAnswers
<1>2. exch \in DOMAIN Exchanges
  BY <1>1 DEF IInv, SaidTyped
<1>3. ~\E g : Flight(g)
  BY <1>1 DEF Flight, Alone, Paired, Truthful, Closing
<1>4. xch.shape # "oneway" /\ odd.kind \in {"none", "value"}
  BY <1>1, <1>3 DEF Reading
<1>5. xch' = xch
  BY <1>1 DEF xch
<1>6. xch.resp = xch.req + 128 /\ xch.resp # ERROR /\ xch.req # ERROR /\ xch.req # xch.resp /\ Trailer(xch.answers) = 0
      /\ xch.answers \in DOMAIN Classes
  BY <1>2, <1>4, OpcodesAssumption, ExchangesAssumption DEF xch
<1>7. Good(P) /\ DecodePayload(xch.answers, p) = Ok(MeantBy(P)) /\ p # NoPayload
  BY <1>6, PlainGood, GoodDecodes
<1>8. First = Answer(FALSE, p) /\ Plain(xch'.answers) = P
  BY <1>5 DEF First
<1>9. \A eos, pl : /\ Answer(eos, pl).op = xch.resp /\ Answer(eos, pl).eos = eos
                   /\ Answer(eos, pl).payload = pl /\ Sized(Answer(eos, pl))
  BY <1>6, FrameFields DEF Answer
<1> HIDE DEF P, p
<1> USE DEF Reply, Alone, Paired, ReadOf, Fair, Odd
<1>10. ASSUME answers' = <<P>>, UNCHANGED odd, Sends(<<Answer(TRUE, p)>>) PROVE Reading'
  <2>1. PICK g : g = Answer(TRUE, p)
    OBVIOUS
  <2>2. Truthful(g)'
    BY <1>4, <1>5, <1>7, <1>9, <1>10, <2>1 DEF Truthful
  <2>3. Alone(g)'
    BY <1>4, <1>7, <1>8, <1>9, <1>10, <2>1, <2>2 DEF Closing, Truthful
  <2> QED
    BY <1>2, <1>4, <1>10, <2>1, <2>3, Departs
<1>11. ASSUME answers' = <<P, P>>, Sends(<<Answer(FALSE, p), Answer(TRUE, p)>>),
              \/ xch.shape \in {"streamed", "pushed"} /\ odd'.kind = odd.kind
              \/ xch.shape = "unary" /\ odd'.kind = "twice"
       PROVE  Reading'
  <2>1. PICK g : g = Answer(TRUE, p)
    OBVIOUS
  <2>a. answers'[Len(answers')] = P /\ ReadOf(g)' = Ok(MeantBy(P))
    <3>1. answers'[Len(answers')] = P
      BY <1>11
    <3> QED
      BY <1>5, <1>7, <1>9, <2>1, <3>1
  <2>b. \/ xch.shape \in {"streamed", "pushed"} /\ odd'.kind \in {"none", "value"}
        \/ xch.shape = "unary" /\ odd'.kind = "twice"
    BY <1>4, <1>11
  <2>c. g.op = xch'.resp /\ g.payload # NoPayload /\ g.eos = TRUE /\ Sized(g)
    BY <1>5, <1>7, <1>9, <2>1
  <2> HIDE DEF ReadOf, Odd
  <2>2. Truthful(g)' /\ odd'.kind \notin {"corrupt", "hangup", "reset"}
    BY <2>a, <2>b, <2>c DEF Truthful
  <2>3. Paired(g)'
    BY <1>5, <1>8, <1>11, <2>2, <2>b, <2>c
  <2> QED
    BY <1>2, <1>8, <1>11, <2>1, <2>2, <2>3, Departs
<1>12. ASSUME xch.shape = "pushed", answers' = <<P>>, UNCHANGED odd,
              Sends(<<Answer(FALSE, p), Answer(TRUE, NoPayload)>>)
       PROVE  Reading'
  <2>1. PICK g : g = Answer(TRUE, NoPayload)
    OBVIOUS
  <2>2. Closing(g)'
    BY <1>4, <1>5, <1>8, <1>9, <1>12, <2>1 DEF Closing
  <2>3. Paired(g)'
    BY <1>9, <2>1, <2>2
  <2> QED
    BY <1>2, <1>4, <1>8, <1>12, <2>1, <2>3, Departs
<1>13. ASSUME NEW m, Good(m), answers' = <<m>>, odd'.kind = "error",
              NEW e, e = Frame(ERROR, TRUE, EncodePayload("ErrorResponse", m)),
              Sends(<<e>>) \/ (xch.shape = "streamed" /\ Sends(<<Answer(FALSE, p), e>>))
       PROVE  Reading'
  <2>1. PICK g : g = Frame(ERROR, TRUE, EncodePayload("ErrorResponse", m)) /\ g = e
    BY <1>13
  <2>2. g.op = ERROR /\ g.eos = TRUE /\ g.payload = EncodePayload("ErrorResponse", m) /\ Sized(g)
    BY <2>1 DEF Frame, Sized
  <2>3. ServerErrorOf(g) = Raised("ServerError") /\ odd'.kind = "error"
    <3>1. DecodePayload("ErrorResponse", g.payload) = Ok(MeantBy(m))
      BY <1>13, <2>2, GoodDecodes
    <3>2. m.class = "ErrorResponse" => MeantBy(m).value["code"] # "none"
      BY <1>13, CodeKept
    <3>3. MeantBy(m).class = m.class
      BY DEF MeantBy, Message
    <3>4. /\ DecodePayload("ErrorResponse", g.payload).outcome = "ok"
          /\ DecodePayload("ErrorResponse", g.payload).values[1] = MeantBy(m)
      BY <3>1 DEF Ok
    <3> QED
      BY <1>13, <3>2, <3>3, <3>4 DEF ServerErrorOf
  <2>4. Refusal(g)' /\ odd'.kind = "error"
    BY <2>2, <2>3 DEF Refusal
  <2>5. Alone(g)' /\ (xch.shape = "streamed" => Paired(g)')
    BY <1>5, <1>13, <2>2, <2>4 DEF Closing
  <2> QED
    BY <1>2, <1>8, <1>13, <2>1, <2>4, <2>5, Departs
<1>14. ASSUME NEW m, Good(m), answers' = <<m>>, odd' = Odd("value", ""),
              Sends(<<Answer(TRUE, EncodePayload(xch.answers, m))>>)
       PROVE  Reading'
  <2>1. PICK g : g = Answer(TRUE, EncodePayload(xch.answers, m))
    OBVIOUS
  <2>a. g.payload = EncodePayload(xch.answers, m) /\ g.op = xch.resp
    BY <1>9, <2>1
  <2>2. DecodePayload(xch.answers, g.payload) = Ok(MeantBy(m)) /\ g.payload # NoPayload /\ g.op = xch.resp
    BY <1>14, <2>a, GoodDecodes
  <2>3. Truthful(g)' /\ odd'.kind = "value"
    BY <1>5, <1>14, <2>2 DEF Truthful
  <2>4. Alone(g)'
    BY <1>5, <1>9, <1>14, <2>1, <2>2, <2>3 DEF Closing
  <2> QED
    BY <1>2, <1>14, <2>1, <2>3, <2>4, Departs
<1>15. ASSUME answers' = <<P>>, odd' = Odd("opcode", ""), Sends(<<Frame(xch.req, TRUE, p)>>) PROVE Reading'
  <2>1. PICK g : g = Frame(xch.req, TRUE, p)
    OBVIOUS
  <2>2. g.op = xch.req /\ g.eos = TRUE /\ g.payload = p /\ Sized(g)
    BY <2>1 DEF Frame, Sized
  <2>3. Foreign(g)' /\ odd'.kind = "opcode"
    BY <1>5, <1>6, <1>7, <1>15, <2>2 DEF Foreign
  <2>4. Alone(g)'
    BY <1>7, <1>15, <2>2, <2>3 DEF Closing
  <2> QED
    BY <1>2, <1>15, <2>1, <2>3, <2>4, Departs
(* An answer the verb cannot decode, or whose harm it does not notice. *)
<1>16. ASSUME NEW kind \in Undecodable, NEW key, odd' = Odd(kind, key), NEW m, Good(m), answers' = <<m>>,
              NEW q, q # NoPayload, Sends(<<Answer(TRUE, q)>>), NEW r, r = DecodePayload(xch.answers, q),
              \/ r \in {Raised("CborError"), Raised("TypeError"), Raised("FieldError")}
              \/ kind \in {"absent", "null", "unknown"} /\ r = Ok(r.values[1]) /\ Harmless(r.values[1])'
       PROVE  Reading'
  <2>1. PICK g : g = Answer(TRUE, q)
    OBVIOUS
  <2>2. odd'.kind = kind
    BY <1>16
  <2>3. g.op = xch.resp /\ g.payload = q
    BY <1>9, <2>1
  <2>4. Broken(g)'
    BY <1>5, <1>16, <2>2, <2>3 DEF Broken
  <2>5. Alone(g)'
    BY <1>9, <1>16, <2>1, <2>2, <2>3, <2>4 DEF Closing, Undecodable
  <2> QED
    BY <1>2, <1>16, <2>1, <2>2, <2>5, Departs DEF Undecodable
<1>17. ASSUME NEW kind \in Undecodable, NEW key, odd' = Odd(kind, key), NEW m, Good(m), answers' = <<m>>,
              NEW q, Sends(<<Frame(ERROR, TRUE, q)>>)
       PROVE  Reading'
  <2>1. PICK g : g = Frame(ERROR, TRUE, q)
    OBVIOUS
  <2>2. g.op = ERROR /\ g.eos = TRUE /\ Sized(g) /\ odd'.kind = kind
    BY <1>17, <2>1 DEF Frame, Sized
  <2>3. Alone(g)'
    BY <1>5, <1>6, <1>17, <2>2 DEF Broken, Closing, Undecodable
  <2> QED
    BY <1>2, <1>17, <2>1, <2>2, <2>3, Departs DEF Undecodable
<1>18. CASE AnswersPlainly
  <2>1. Good(Plain("ErrorResponse"))
    BY <1>2, ExchangesAssumption, PlainGood
  <2>2. ASSUME odd' = Odd("error", "") PROVE odd'.kind = "error"
    BY <2>2
  <2>3. odd' = odd => odd'.kind = odd.kind
    OBVIOUS
  <2> HIDE DEF Reply, Alone, Paired, ReadOf, Fair, Odd
  <2> QED
    BY <1>10, <1>11, <1>12, <1>13, <1>18, <2>1, <2>2, <2>3 DEF AnswersPlainly, P, p
<1>19. CASE odd = Usual /\ AnswersVariously
  <2>1. ASSUME NEW c \in Focus[exch].answers \cup Focus[exch].error, NEW v \in Inputs[c] PROVE Good(Message(c, v))
    BY <1>2, <2>1, ExchangesAssumption, InputsAssumption DEF Good, Message
  <2>2. CASE /\ odd' = Odd("value", "")
             /\ \E c \in Focus[exch].answers : \E v \in Inputs[c] :
                  /\ answers' = <<Message(c, v)>>
                  /\ Sends(<<Answer(TRUE, EncodePayload(xch.answers, Message(c, v)))>>)
    <3>1. PICK c \in Focus[exch].answers : \E v \in Inputs[c] :
            /\ answers' = <<Message(c, v)>>
            /\ Sends(<<Answer(TRUE, EncodePayload(xch.answers, Message(c, v)))>>)
      BY <2>2
    <3>2. PICK v \in Inputs[c] :
            /\ answers' = <<Message(c, v)>>
            /\ Sends(<<Answer(TRUE, EncodePayload(xch.answers, Message(c, v)))>>)
      BY <3>1
    <3> QED
      BY <1>14, <2>1, <2>2, <3>2
  <2>3. CASE /\ odd' = Odd("error", "")
             /\ \E c \in Focus[exch].error : \E v \in Inputs[c] :
                  /\ answers' = <<Message(c, v)>>
                  /\ Sends(<<Frame(ERROR, TRUE, EncodePayload("ErrorResponse", Message(c, v)))>>)
    <3>1. PICK c \in Focus[exch].error : \E v \in Inputs[c] :
            /\ answers' = <<Message(c, v)>>
            /\ Sends(<<Frame(ERROR, TRUE, EncodePayload("ErrorResponse", Message(c, v)))>>)
      BY <2>3
    <3>2. PICK v \in Inputs[c] :
            /\ answers' = <<Message(c, v)>>
            /\ Sends(<<Frame(ERROR, TRUE, EncodePayload("ErrorResponse", Message(c, v)))>>)
      BY <3>1
    <3>3. odd'.kind = "error"
      BY <2>3
    <3> QED
      BY <1>13, <2>1, <3>2, <3>3
  <2> QED
    BY <1>19, <2>2, <2>3 DEF AnswersVariously
<1>20. CASE odd = Usual /\ AnswersWrongly
  <2>1. ASSUME odd' = Odd("opcode", ""), answers' = <<P>>, Sends(<<Frame(xch.req, TRUE, p)>>) PROVE Reading'
    BY <1>15, <2>1
  <2>2. ASSUME xch.shape = "unary", odd' = Odd("twice", ""), answers' = <<P, P>>,
               Sends(<<Answer(FALSE, p), Answer(TRUE, p)>>)
        PROVE  Reading'
    <3>1. odd'.kind = "twice"
      BY <2>2
    <3> QED
      BY <1>11, <2>2, <3>1
  <2>3. ASSUME odd' = Odd("trailing", ""), answers' = <<P>>, Sends(<<Answer(TRUE, [p EXCEPT !.extra = 4])>>)
        PROVE  Reading'
    <3>1. PICK q : q = [p EXCEPT !.extra = 4]
      OBVIOUS
    <3>2. q.extra = 4 /\ q.map = TRUE /\ NoPayload.map = FALSE
      BY <3>1 DEF p, EncodePayload, NoPayload
    <3>3. DecodePayload(xch.answers, q) = Raised("CborError") /\ q # NoPayload
      BY <1>6, <3>2 DEF DecodePayload
    <3> QED
      BY <1>7, <1>16, <2>3, <3>1, <3>3 DEF Undecodable
  <2>4. ASSUME odd' = Odd("notmap", ""), answers' = <<P>>, Sends(<<Answer(TRUE, [p EXCEPT !.map = FALSE])>>)
        PROVE  Reading'
    <3>1. PICK q : q = [p EXCEPT !.map = FALSE]
      OBVIOUS
    <3>2. q.extra = 0 /\ q.map = FALSE /\ q.class = xch.answers /\ NoPayload.class = ""
      BY <1>6, <3>1 DEF p, P, EncodePayload, NoPayload, Plain, Message
    <3>3. DecodePayload(xch.answers, q) = Raised("TypeError") /\ q # NoPayload
      <4>1. q # NoPayload
        BY <1>6, <3>2, NamesAssumption
      <4> HIDE DEF Reply, Alone, Paired, ReadOf, Fair, Odd
      <4>2. ~((Trailer(xch.answers) = 0 /\ q.extra # 0) \/ q.extra % 4 # 0)
        <5>1. q.extra = 0
          BY <3>2
        <5> QED
          BY <5>1
      <4> QED
        BY <3>2, <4>1, <4>2 DEF DecodePayload
    <3> QED
      BY <1>7, <1>16, <2>4, <3>1, <3>3 DEF Undecodable
  <2>5. ASSUME NEW c \in Focus[exch].answers, NEW f \in DOMAIN Classes[c], NEW item \in Harm(Classes[c][f]),
               odd' = Odd(item, f), answers' = <<Plain(c)>>,
               Sends(<<Answer(TRUE, Harmed(EncodePayload(xch.answers, Plain(c)), f, item))>>)
        PROVE  Reading'
    <3>1. PICK q : q = Harmed(EncodePayload(xch.answers, Plain(c)), f, item)
      OBVIOUS
    <3>2. PICK r : r = DecodePayload(xch.answers, q)
      OBVIOUS
    <3>3. c \in DOMAIN Classes /\ item \in Undecodable
      BY <1>2, ExchangesAssumption DEF Harm, Undecodable
    <3>4. /\ q # NoPayload
          /\ \/ r = Raised("FieldError")
             \/ /\ item \in {"absent", "null", "unknown"} /\ r = Ok(r.values[1]) /\ r.values[1].class = c
                /\ \A h \in DOMAIN Classes[c] :
                     \/ r.values[1].value[h] = Rounded(Classes[c][h], "val")
                     \/ h = f /\ (r.values[1].value[h] \in {"none", "dflt", "kept"} \/ Classes[c][h].of = "EvidenceRef")
      BY <1>6, <3>1, <3>2, <3>3, HarmedReads
    <3>5. r.values[1].class = c => (Harmless(r.values[1])' <=>
                \A h \in DOMAIN Classes[c] :
                     \/ r.values[1].value[h] = Rounded(Classes[c][h], "val")
                     \/ h = f /\ (r.values[1].value[h] \in {"none", "dflt", "kept"} \/ Classes[c][h].of = "EvidenceRef"))
      <4>1. answers'[1].class = c /\ answers'[1].value = Full(c) /\ odd'.key = f
        BY <2>5 DEF Plain, Message
      <4>2. DOMAIN Full(c) = DOMAIN Classes[c] /\ \A h \in DOMAIN Classes[c] : Full(c)[h] = "val"
        BY DEF Full
      <4> QED
        BY <4>1, <4>2 DEF Harmless, Reads
    <3>6. Good(Plain(c))
      BY <3>3, PlainGood
    <3> QED
      BY <1>16, <2>5, <3>1, <3>2, <3>3, <3>4, <3>5, <3>6
  <2>6. ASSUME NEW c \in Focus[exch].error, NEW f \in DOMAIN Classes[c], NEW item \in Harm(Classes[c][f]),
               odd' = Odd(item, f), answers' = <<Plain(c)>>,
               Sends(<<Frame(ERROR, TRUE, Harmed(EncodePayload("ErrorResponse", Plain(c)), f, item))>>)
        PROVE  Reading'
    <3>1. c \in DOMAIN Classes /\ item \in Undecodable
      BY <1>2, ExchangesAssumption DEF Harm, Undecodable
    <3>2. Good(Plain(c))
      BY <3>1, PlainGood
    <3> QED
      BY <1>17, <2>6, <3>1, <3>2
  <2> HIDE DEF Reply, Alone, Paired, ReadOf, Fair, Odd
  <2> QED
    BY <1>20, <2>1, <2>2, <2>3, <2>4, <2>5, <2>6 DEF AnswersWrongly, P, p
<1> QED
  BY <1>18, <1>19, <1>20 DEF ServerAnswers

-----------------------------------------------------------------------------
(* Before there is an answer.                                              *)

(* Nothing is promised of an exchange that is still under way. *)
LEMMA NotDone == phase # "done" => Told
BY DEF Told, FailsByCause, HonestAnswer, NeverForged

(* Initially nothing has been sent or told. *)
LEMMA InitAnswer == Init => Before /\ Reading /\ Told
BY NotDone DEF Init, Before, Reading, Quiet, Nothing, Usual, Odd

(* A new call starts with nothing on its way to it. *)
LEMMA CallAnswer ==
  ASSUME AnswerInv, NEW name \in DOMAIN Exchanges, Call(name)
  PROVE  Before' /\ Reading' /\ Told'
<1>1. /\ phase = "idle" /\ name # "pong" /\ exch' = name
      /\ UNCHANGED <<session, heard, answers, wire, eof, buf, frames>>
  BY DEF Call, Allowed
<1>2. buf = <<>> /\ wire = <<>> /\ Quiet /\ eof = FALSE /\ answers = <<>>
  BY <1>1 DEF AnswerInv, Before
<1>3. odd'.kind \in {"none", "value"}
  <2>1. odd' = Usual \/ odd' = Odd("value", "")
    BY DEF Call
  <2>2. Usual.kind = "none" /\ Odd("value", "").kind = "value"
    BY DEF Usual, Odd
  <2> QED
    BY <2>1, <2>2
<1>4. CASE Writable(said')
  <2>1. phase' = "sent" /\ UNCHANGED result
    BY <1>4 DEF Call
  <2>2. Told'
    BY <2>1 DEF Told, FailsByCause, HonestAnswer, NeverForged
  <2> QED
    BY <1>1, <1>2, <1>3, <2>1, <2>2 DEF Before, Reading, Quiet
<1>5. CASE ~Writable(said')
  <2>1. phase' = "done" /\ result' = Raised("OverflowError")
    BY <1>5 DEF Call
  <2>2. result'.outcome = "OverflowError"
    BY <2>1 DEF Raised
  <2>3. Told'
    BY <1>5, <2>2 DEF Told, FailsByCause, HonestAnswer, NeverForged, Writable
  <2> QED
    BY <2>1, <2>3 DEF Before, Reading
<1> QED
  BY <1>4, <1>5

(* A heartbeat is answered between the calls. *)
LEMMA HeartbeatAnswer ==
  ASSUME AnswerInv, Heartbeat
  PROVE  Before' /\ Reading' /\ Told'
<1>1. phase = "idle" /\ exch' = "pong" /\ phase' = "sent" /\ UNCHANGED <<wire, eof, buf, frames, result>>
  BY DEF Heartbeat
<1>2. Told'
  BY <1>1 DEF Told, FailsByCause, HonestAnswer, NeverForged
<1> QED
  BY <1>1, <1>2 DEF AnswerInv, Before, Reading, Quiet

(* The server reads the request; no answer exists yet. *)
LEMMA ServerReadsAnswer ==
  ASSUME AnswerInv, ServerReads
  PROVE  Before' /\ Reading' /\ Told'
<1>1. phase = "sent" /\ UNCHANGED <<exch, odd, said, answers, wire, eof, buf, frames>> /\ xch' = xch
  BY DEF ServerReads, xch
<1>2. exch \in DOMAIN Exchanges
  BY <1>1 DEF AnswerInv, IInv, SaidTyped
<1>3. CASE xch.shape = "oneway"
  <2>1. phase' = "done" /\ result' = [outcome |-> "ok", values |-> <<>>]
    BY <1>3 DEF ServerReads
  <2>2. result'.outcome = "ok"
    BY <2>1
  <2>3. Told'
    BY <1>1, <1>3, <2>2 DEF Told, FailsByCause, HonestAnswer, NeverForged, Retryable
  <2> QED
    BY <2>1, <2>3 DEF Before, Reading
<1>4. CASE xch.shape # "oneway"
  <2>1. phase' = "read" /\ UNCHANGED result
    BY <1>4 DEF ServerReads
  <2>2. exch # "pong"
    BY <1>2, <1>4, HeartbeatAssumption DEF xch
  <2>3. Told'
    BY <2>1 DEF Told, FailsByCause, HonestAnswer, NeverForged
  <2>4. Before'
    BY <2>1 DEF Before
  <2>5. Reading'
    BY <1>1, <1>4, <2>1, <2>2 DEF AnswerInv, Before, Reading, Quiet
  <2> QED
    BY <2>3, <2>4, <2>5
<1> QED
  BY <1>3, <1>4

(* A write that fails says why: the transport, or the size. *)
LEMMA WriteFailsAnswer ==
  ASSUME AnswerInv, WriteFails
  PROVE  Before' /\ Reading' /\ Told'
<1>1. phase' = "done"
  BY DEF WriteFails, Ends
<1>2. \/ odd'.kind = "reset" /\ result'.outcome = "OSError"
      \/ odd'.kind = "oversize" /\ result'.outcome = "ProtocolError"
  <2>1. \/ odd' = Odd("reset", "") /\ result' = Raised("OSError")
        \/ odd' = Odd("oversize", "") /\ result' = Raised("ProtocolError")
    BY DEF WriteFails, Ends
  <2>2. \A k : Odd(k, "").kind = k /\ Raised(k).outcome = k
    BY DEF Odd, Raised
  <2> QED
    BY <2>1, <2>2
<1>3. Told'
  BY <1>2 DEF Told, FailsByCause, HonestAnswer, NeverForged, Transport, Retryable, BrainErrors, Undecodable
<1> QED
  BY <1>1, <1>3 DEF Before, Reading

(* A deadline that passes says so. *)
LEMMA TimeoutAnswer ==
  ASSUME AnswerInv, Timeout
  PROVE  Before' /\ Reading' /\ Told'
<1>1. phase' = "done"
  BY DEF Timeout, Ends
<1>2. odd'.kind = "late" /\ result'.outcome = "BrainTimeout"
  BY DEF Timeout, Ends, Odd, Raised
<1>3. Told'
  BY <1>2 DEF Told, FailsByCause, HonestAnswer, NeverForged, Transport, Retryable, BrainErrors
<1> QED
  BY <1>1, <1>3 DEF Before, Reading

-----------------------------------------------------------------------------
(* The bytes on their way.                                                 *)

(* The bytes not yet decoded are those in the buffer, then those that have
   not arrived. *)
LEMMA StreamParts ==
  ASSUME NEW T, NEW b \in Seq(T), NEW w \in Seq(T)
  PROVE  /\ b \o w \in Seq(T) /\ Len(b) \in Nat /\ Len(w) \in Nat /\ Len(b \o w) = Len(b) + Len(w)
         /\ \A i \in 1..Len(b) : (b \o w)[i] = b[i]
         /\ \A i \in 1..(Len(b) + Len(w)) : i > Len(b) => (b \o w)[i] = w[i - Len(b)] /\ i - Len(b) \in 1..Len(w)
OBVIOUS

(* A cell is damaged: the stream has the same cells but for one, of which only
   the soundness changes. *)
LEMMA DamagedStream ==
  ASSUME NEW T, NEW b \in Seq(T), NEW w \in Seq(T), NEW k \in 1..Len(w), NEW d, NEW u,
         u = [w EXCEPT ![k] = d]
  PROVE  /\ Len(b \o u) = Len(b \o w) /\ Len(b) + k \in 1..Len(b \o w)
         /\ \A i \in 1..Len(b \o w) :
              /\ i # Len(b) + k => (b \o u)[i] = (b \o w)[i]
              /\ i = Len(b) + k => (b \o u)[i] = d /\ (b \o w)[i] = w[k]
<1> DEFINE V == T \cup {d}
<1>1. b \in Seq(V) /\ w \in Seq(V) /\ u \in Seq(V) /\ Len(u) = Len(w) /\ Len(w) \in Nat /\ Len(b) \in Nat
  <2>1. DOMAIN w = 1..Len(w) /\ Len(w) \in Nat
    BY LenProperties
  <2>2. T \subseteq V
    OBVIOUS
  <2> HIDE DEF V
  <2>3. b \in Seq(V) /\ w \in Seq(V)
    BY <2>2, SeqMonotonic
  <2>4. d \in V
    BY DEF V
  <2>5. u \in Seq(V) /\ Len(u) = Len(w)
    BY <2>1, <2>3, <2>4
  <2> QED
    BY <2>1, <2>3, <2>5
<1>2. \A i \in 1..Len(w) : u[i] = IF i = k THEN d ELSE w[i]
  BY <1>1
<1> HIDE DEF V
<1>3. Len(b \o u) = Len(b) + Len(w) /\ Len(b \o w) = Len(b) + Len(w)
  BY <1>1, StreamParts
<1>4. \A i \in 1..Len(b) : (b \o u)[i] = b[i] /\ (b \o w)[i] = b[i]
  BY <1>1, StreamParts
<1>5. \A i \in 1..(Len(b) + Len(w)) : i > Len(b) =>
        (b \o u)[i] = u[i - Len(b)] /\ (b \o w)[i] = w[i - Len(b)] /\ i - Len(b) \in 1..Len(w)
  BY <1>1, StreamParts
<1> QED
  BY <1>1, <1>2, <1>3, <1>4, <1>5

(* What Flight says of the variables that stay. *)
Kept == UNCHANGED <<exch, answers, frames, result>>

(* With those variables kept, every frame reads as it did. *)
LEMMA KeptFrames ==
  ASSUME Kept
  PROVE  /\ xch' = xch /\ First' = First /\ (Quiet' <=> Quiet) /\ (HalfWay' <=> HalfWay)
         /\ \A g : Cells(g)' = Cells(g) /\ ReadOf(g)' = ReadOf(g)
BY DEF Kept, xch, First, Answer, Quiet, HalfWay, Cells, ReadOf

(* From usual to damaged or cut off, the answer itself is the same. *)
LEMMA SameAnswer ==
  ASSUME Kept, odd.kind = "none", odd'.kind \in {"corrupt", "hangup", "reset"}
  PROVE  \A g : (Alone(g) => Alone(g)') /\ (Paired(g) => Paired(g)')
<1> SUFFICES ASSUME NEW g PROVE (Alone(g) => Alone(g)') /\ (Paired(g) => Paired(g)')
  OBVIOUS
<1>1. xch' = xch /\ ReadOf(g)' = ReadOf(g) /\ answers' = answers
  BY KeptFrames DEF Kept
<1>2. Reply(g) => Truthful(g) \/ Closing(g)
  BY DEF Reply, Refusal, Foreign, Broken, Undecodable
<1>3. Truthful(g) => Truthful(g)'
  BY <1>1 DEF Truthful, Fair, MeantBy
<1>4. Closing(g) <=> Closing(g)'
  BY <1>1 DEF Closing, Fair
<1>5. Reply(g) => Reply(g)'
  BY <1>2, <1>3, <1>4 DEF Reply
<1>6. Alone(g) => Alone(g)'
  BY <1>1, <1>4, <1>5 DEF Alone, Good, Fair
<1>7. ~Refusal(g)
  BY DEF Refusal
<1>8. Paired(g) => Paired(g)'
  BY <1>1, <1>3, <1>4, <1>5, <1>7 DEF Paired
<1> QED
  BY <1>6, <1>8

(* The network damages one cell: the frame it is in will not decode. *)
LEMMA CorruptsAnswer ==
  ASSUME AnswerInv, Corrupts
  PROVE  Reading'
<1>1. /\ phase = "read" /\ odd = Usual /\ odd' = Odd("corrupt", "") /\ Kept
      /\ UNCHANGED <<phase, eof, buf>> /\ eof \in BOOLEAN /\ xch.shape # "oneway"
  BY DEF Corrupts, Kept, AnswerInv, Reading
<1>2. odd.kind = "none" /\ odd'.kind = "corrupt"
  <2>1. Usual.kind = "none" /\ Odd("corrupt", "").kind = "corrupt"
    BY DEF Usual, Odd
  <2> QED
    BY <1>1, <2>1
<1>3. PICK k \in DOMAIN wire : wire' = [wire EXCEPT ![k].intact = FALSE]
  BY DEF Corrupts
<1>4. PICK g : Flight(g)
  <2>1. wire # <<>>
    BY <1>3
  <2> QED
    BY <1>1, <2>1 DEF AnswerInv, Reading
<1> DEFINE d == [wire[k] EXCEPT !.intact = FALSE]
<1>5. buf \in Seq(Cells(g)) /\ wire \in Seq(Cells(g)) /\ Cells(g)' = Cells(g)
  BY <1>1, <1>4, KeptFrames DEF Flight
<1>6. k \in 1..Len(wire) /\ wire[k] \in Cells(g)
  BY <1>3, <1>5
<1>7. wire' = [wire EXCEPT ![k] = d]
  BY <1>3
<1>8. d.intact = FALSE /\ d \in Cells(g)
  BY <1>6 DEF Cells, CellsOf
<1>9. \A f, i : wire[k] \in Cell(f, i) => d \in Cell(f, i)
  BY DEF Cell
<1> HIDE DEF d
<1>10. wire' \in Seq(Cells(g)')
  BY <1>5, <1>6, <1>7, <1>8
<1>11. /\ Len(Stream') = Len(Stream) /\ Len(buf) + k \in 1..Len(Stream) /\ Stream'[Len(buf) + k] = d
       /\ \A f, j : \A i \in 1..Len(Stream) : Stream[i] \in Cell(f, j) => Stream'[i] \in Cell(f, j)
  <2>1. Stream' = buf \o wire'
    BY <1>1 DEF Stream
  <2>2. /\ Len(Stream') = Len(Stream) /\ Len(buf) + k \in 1..Len(Stream)
        /\ \A i \in 1..Len(Stream) :
              /\ i # Len(buf) + k => Stream'[i] = Stream[i]
              /\ i = Len(buf) + k => Stream'[i] = d /\ Stream[i] = wire[k]
    BY <1>5, <1>6, <1>7, <2>1, DamagedStream DEF Stream
  <2> QED
    BY <1>9, <2>2
<1>12. \A n : Sound(Stream, n) => Sound(Stream, n)'
  BY <1>2, <1>8, <1>11 DEF Sound
<1>13. \A f : OneFrame(Stream, f) => OneFrame(Stream, f)'
  BY <1>11 DEF OneFrame
<1>14. \A f : TwoFrames(Stream, f, g) => TwoFrames(Stream', f, g)
  BY <1>11 DEF TwoFrames
<1>15. Alone(g) => Alone(g)'
  BY <1>1, <1>2, SameAnswer
<1>16. Paired(g) => Paired(g)'
  BY <1>1, <1>2, SameAnswer
<1>17. First' = First /\ (Quiet' <=> Quiet) /\ (HalfWay' <=> HalfWay)
  BY <1>1, KeptFrames
<1>18. Flight(g)'
  BY <1>1, <1>4, <1>5, <1>10, <1>12, <1>13, <1>14, <1>15, <1>16, <1>17 DEF Flight
<1>19. (\E h : Flight(h))'
  BY <1>18
<1>20. eof' = FALSE /\ xch' = xch
  BY <1>1, <1>2, KeptFrames DEF AnswerInv, Reading
<1> QED
  BY <1>1, <1>2, <1>19, <1>20 DEF Reading

(* The server hangs up: what arrives is a beginning of the stream. *)
LEMMA CutStream ==
  ASSUME NEW T, NEW b \in Seq(T), NEW w \in Seq(T), NEW n \in 0..Len(w), NEW u, u = SubSeq(w, 1, n)
  PROVE  /\ u \in Seq(T) /\ Len(b \o u) \in Nat /\ Len(b \o w) \in Nat /\ Len(b \o u) <= Len(b \o w)
         /\ \A i \in 1..Len(b \o u) : (b \o u)[i] = (b \o w)[i]
<1>1. u \in Seq(T) /\ Len(u) = n /\ \A i \in 1..n : u[i] = w[i]
  OBVIOUS
<1>2. /\ b \o w \in Seq(T) /\ Len(b) \in Nat /\ Len(w) \in Nat /\ Len(b \o w) = Len(b) + Len(w)
      /\ \A i \in 1..Len(b) : (b \o w)[i] = b[i]
      /\ \A i \in 1..(Len(b) + Len(w)) : i > Len(b) => (b \o w)[i] = w[i - Len(b)] /\ i - Len(b) \in 1..Len(w)
  BY StreamParts
<1>3. /\ Len(b \o u) = Len(b) + n
      /\ \A i \in 1..Len(b) : (b \o u)[i] = b[i]
      /\ \A i \in 1..(Len(b) + n) : i > Len(b) => (b \o u)[i] = u[i - Len(b)] /\ i - Len(b) \in 1..n
  <2>1. /\ Len(b \o u) = Len(b) + Len(u)
        /\ \A i \in 1..Len(b) : (b \o u)[i] = b[i]
        /\ \A i \in 1..(Len(b) + Len(u)) : i > Len(b) => (b \o u)[i] = u[i - Len(b)] /\ i - Len(b) \in 1..Len(u)
    BY <1>1, StreamParts
  <2> QED
    BY <1>1, <2>1
<1> QED
  BY <1>1, <1>2, <1>3

(* A hang-up leaves a front part of the stream. *)
LEMMA HangsUpAnswer ==
  ASSUME AnswerInv, HangsUp
  PROVE  Reading'
<1>1. /\ phase = "read" /\ odd = Usual /\ odd' \in {Odd("hangup", ""), Odd("reset", "")} /\ Kept
      /\ UNCHANGED <<phase, buf>> /\ eof' = TRUE /\ xch.shape # "oneway"
  BY DEF HangsUp, Kept, AnswerInv, Reading
<1>2. odd.kind = "none" /\ odd'.kind \in {"hangup", "reset"}
  <2>1. Usual.kind = "none" /\ Odd("hangup", "").kind = "hangup" /\ Odd("reset", "").kind = "reset"
    BY DEF Usual, Odd
  <2> QED
    BY <1>1, <2>1
<1>3. PICK n \in 0..Len(wire) : wire' = SubSeq(wire, 1, n)
  BY DEF HangsUp
<1>4. xch' = xch /\ First' = First /\ (Quiet' <=> Quiet) /\ (HalfWay' <=> HalfWay)
  BY <1>1, KeptFrames
<1>5. CASE answers = <<>> /\ buf = <<>> /\ wire = <<>> /\ Quiet
  <2>1. wire' = <<>>
    BY <1>3, <1>5
  <2> QED
    BY <1>1, <1>2, <1>4, <1>5, <2>1 DEF Reading, Kept
<1>6. CASE \E g : Flight(g)
  <2>1. PICK g : Flight(g)
    BY <1>6
  <2>2. buf \in Seq(Cells(g)) /\ wire \in Seq(Cells(g)) /\ Cells(g)' = Cells(g)
    BY <1>1, <2>1, KeptFrames DEF Flight
  <2>3. Stream' = buf \o wire'
    BY <1>1 DEF Stream
  <2>4. /\ wire' \in Seq(Cells(g)) /\ Len(Stream') \in Nat /\ Len(Stream) \in Nat /\ Len(Stream') <= Len(Stream)
        /\ \A i \in 1..Len(Stream') : Stream'[i] = Stream[i]
    BY <1>3, <2>2, <2>3, CutStream DEF Stream
  <2>5. \A m : Sound(Stream, m) => Sound(Stream, m)'
    BY <1>2, <2>4 DEF Sound
  <2>6. Sized(g) /\ Sized(First) => Size(g) \in {2, 3} /\ Size(First) \in {2, 3}
    BY SizeIs
  <2>7. Sized(g) /\ Sized(First)
    BY <2>1, FrameFields DEF Flight, Alone, Paired, Reply, First, Answer
  <2>8. OneFrame(Stream, g) => OneFrame(Stream', g)
    BY <2>4, <2>6, <2>7 DEF OneFrame
  <2>9. TwoFrames(Stream, First, g) => TwoFrames(Stream', First, g)
    BY <2>4, <2>6, <2>7 DEF TwoFrames
  <2>10. Alone(g) => Alone(g)'
    BY <1>1, <1>2, SameAnswer
  <2>11. Paired(g) => Paired(g)'
    BY <1>1, <1>2, SameAnswer
  <2>12. Flight(g)'
    BY <1>1, <1>4, <2>1, <2>2, <2>4, <2>5, <2>8, <2>9, <2>10, <2>11 DEF Flight
  <2>13. (\E h : Flight(h))'
    BY <2>12
  <2> QED
    BY <1>1, <1>2, <1>4, <2>13 DEF Reading
<1> QED
  BY <1>1, <1>5, <1>6 DEF AnswerInv, Reading

(* The connection is lost: the call fails, and a subscription ends with what
   it has been handed, which the server sent. *)
LEMMA LostTold ==
  ASSUME AnswerInv, phase = "read", odd.kind \in {"hangup", "reset", "corrupt"},
         NEW exc, exc = "OSError" <=> odd.kind = "reset", ConnectionLost(exc),
         UNCHANGED <<exch, odd, said, answers>>
  PROVE  Told'
<1>1. phase' = "done" /\ xch' = xch /\ exch \in DOMAIN Exchanges
  BY DEF ConnectionLost, Ends, xch, AnswerInv, IInv, SaidTyped
<1>2. CASE xch.shape # "pushed" \/ FailError(exc) # "ConnectionClosed"
  <2>1. result' = Raised(FailError(exc))
    BY <1>2 DEF ConnectionLost, Ends
  <2>2. result'.outcome = IF odd.kind = "reset" THEN "OSError" ELSE "ConnectionClosed"
    BY <2>1 DEF Raised, FailError
  <2> QED
    BY <2>2 DEF Told, FailsByCause, HonestAnswer, NeverForged, BrainErrors, Transport, Retryable
<1>3. CASE xch.shape = "pushed" /\ FailError(exc) = "ConnectionClosed"
  <2>1. result' = [result EXCEPT !.outcome = "ok"]
    BY <1>3 DEF ConnectionLost, Ends
  <2>2. \/ result = Pending
        \/ /\ result = [outcome |-> "none", values |-> <<MeantBy(Plain(xch.answers))>>]
           /\ answers \in {<<Plain(xch.answers)>>, <<Plain(xch.answers), Plain(xch.answers)>>}
    BY <1>3 DEF AnswerInv, Reading, Flight, Quiet, HalfWay, Paired, Closing
  <2>3. result'.outcome = "ok"
    BY <2>1, <2>2 DEF Pending
  <2>5. CASE result = Pending
    <3>1. result'.values = <<>>
      BY <2>1, <2>5 DEF Pending
    <3> QED
      BY <1>1, <1>3, <2>3, <3>1 DEF Told, FailsByCause, HonestAnswer, NeverForged, BrainErrors, Transport
  <2>6. CASE /\ result = [outcome |-> "none", values |-> <<MeantBy(Plain(xch.answers))>>]
             /\ answers \in {<<Plain(xch.answers)>>, <<Plain(xch.answers), Plain(xch.answers)>>}
    <3>1. PICK P : P = Plain(xch.answers)
      OBVIOUS
    <3>2. Good(P)
      BY <1>1, <3>1, ExchangesAssumption, PlainGood DEF xch
    <3>3. PICK n : n = MeantBy(P)
      OBVIOUS
    <3>4. n.class = P.class /\ \A f \in DOMAIN P.value : Reads(Classes[P.class][f], f, n.value[f], P.value[f])'
      BY <3>2, <3>3, Genuine
    <3>5. answers'[1] = P /\ Len(answers') \in {1, 2}
      BY <2>6, <3>1
    <3>6. result'.values[1] = n /\ Len(result'.values) = 1 /\ DOMAIN result'.values = {1}
      BY <2>1, <2>6, <3>1, <3>3
    <3>7. NeverForged'
      BY <1>1, <1>3, <3>4, <3>5, <3>6 DEF NeverForged
    <3> QED
      BY <2>3, <3>7 DEF Told, FailsByCause, HonestAnswer, BrainErrors, Transport
  <2> QED
    BY <2>2, <2>5, <2>6
<1> QED
  BY <1>2, <1>3

-----------------------------------------------------------------------------
(* The client reads.                                                       *)

(* Receiving takes the beginning of what has not arrived. *)
LEMMA SplitWire ==
  ASSUME NEW T, NEW w \in Seq(T), NEW n \in 1..Len(w),
         NEW u, u = SubSeq(w, 1, n), NEW v, v = SubSeq(w, n + 1, Len(w))
  PROVE  u \in Seq(T) /\ v \in Seq(T) /\ u \o v = w
<1>1. Len(u) = n /\ Len(v) = Len(w) - n /\ Len(w) \in Nat
  OBVIOUS
<1>2. \A i \in 1..Len(w) : (u \o v)[i] = w[i]
  OBVIOUS
<1>3. Len(u \o v) = Len(w) /\ u \o v \in Seq(T)
  OBVIOUS
<1>4. u \in Seq(T) /\ v \in Seq(T)
  OBVIOUS
<1> QED
  BY <1>2, <1>3, <1>4, SeqEqual

(* The stream stays the same. *)
LEMMA MovedStream ==
  ASSUME NEW T, NEW b \in Seq(T), NEW u \in Seq(T), NEW v \in Seq(T)
  PROVE  b \o u \in Seq(T) /\ (b \o u) \o v = b \o (u \o v)
BY ConcatAssociative

(* What a frame is to the client does not change while it is under way. *)
LEMMA SameFrames ==
  ASSUME UNCHANGED <<exch, odd, answers>>
  PROVE  \A g : (Alone(g) <=> Alone(g)') /\ (Paired(g) <=> Paired(g)')
<1> SUFFICES ASSUME NEW g PROVE (Alone(g) <=> Alone(g)') /\ (Paired(g) <=> Paired(g)')
  OBVIOUS
<1>1. xch' = xch /\ ReadOf(g)' = ReadOf(g) /\ UNCHANGED <<odd, answers>>
  BY DEF xch, ReadOf
<1>2. /\ (Truthful(g) <=> Truthful(g)') /\ (Closing(g) <=> Closing(g)') /\ (Refusal(g) <=> Refusal(g)')
      /\ (Foreign(g) <=> Foreign(g)')
  BY <1>1 DEF Truthful, Closing, Refusal, Foreign, MeantBy
<1>3. \A m : Harmless(m) <=> Harmless(m)'
  BY <1>1 DEF Harmless, Reads
<1>4. Broken(g) <=> Broken(g)'
  BY <1>1, <1>3 DEF Broken
<1>5. Reply(g) <=> Reply(g)'
  BY <1>2, <1>4 DEF Reply
<1> QED
  BY <1>1, <1>2, <1>5 DEF Alone, Paired, Good

(* recv moves cells from the wire to the buffer, or finds the end of the stream. *)
LEMMA RecvAnswer ==
  ASSUME AnswerInv, Recv
  PROVE  Reading' /\ Told'
<1>1. phase = "read" /\ UNCHANGED <<exch, odd, said, answers, eof, frames>>
  BY DEF Recv
<1> DEFINE exc == IF odd.kind = "reset" THEN "OSError" ELSE "ConnectionClosed"
<1>2. CASE wire = <<>> /\ eof /\ ConnectionLost(exc)
  <2>1. odd.kind \in {"hangup", "reset"} /\ (exc = "OSError" <=> odd.kind = "reset")
    BY <1>1, <1>2 DEF AnswerInv, Reading
  <2>2. Told'
    BY <1>1, <1>2, <2>1, LostTold
  <2>3. phase' = "done"
    BY <1>2 DEF ConnectionLost, Ends
  <2> QED
    BY <2>2, <2>3 DEF Reading
<1>3. CASE \E n \in 1..Len(wire) : /\ buf' = buf \o SubSeq(wire, 1, n)
                                   /\ wire' = SubSeq(wire, n + 1, Len(wire))
                                   /\ UNCHANGED <<phase, session, result>>
  <2>1. PICK n \in 1..Len(wire) : buf' = buf \o SubSeq(wire, 1, n) /\ wire' = SubSeq(wire, n + 1, Len(wire))
    BY <1>3
  <2>2. PICK g : Flight(g)
    <3>1. wire # <<>>
      BY <2>1
    <3> QED
      BY <1>1, <3>1 DEF AnswerInv, Reading
  <2>3. UNCHANGED <<phase, session, result>> /\ Kept
    BY <1>1, <1>3 DEF Kept
  <2>4. xch' = xch /\ First' = First /\ (Quiet' <=> Quiet) /\ (HalfWay' <=> HalfWay)
        /\ Cells(g)' = Cells(g) /\ ReadOf(g)' = ReadOf(g)
    BY <2>3, KeptFrames
  <2>5. buf' \in Seq(Cells(g)) /\ wire' \in Seq(Cells(g)) /\ Stream' = Stream
    <3>1. buf \in Seq(Cells(g)) /\ wire \in Seq(Cells(g))
      BY <2>2 DEF Flight
    <3>2. PICK u : u = SubSeq(wire, 1, n)
      OBVIOUS
    <3>3. buf' = buf \o u /\ wire' = SubSeq(wire, n + 1, Len(wire))
      BY <2>1, <3>2
    <3>4. u \in Seq(Cells(g)) /\ wire' \in Seq(Cells(g)) /\ u \o wire' = wire
      BY <3>1, <3>2, <3>3, SplitWire, SMTT(30)
    <3>5. buf \o u \in Seq(Cells(g)) /\ (buf \o u) \o wire' = buf \o (u \o wire')
      <4>1. PICK T : T = Cells(g)
        OBVIOUS
      <4>2. buf \in Seq(T) /\ u \in Seq(T) /\ wire' \in Seq(T)
        BY <3>1, <3>4, <4>1
      <4>3. buf \o u \in Seq(T) /\ (buf \o u) \o wire' = buf \o (u \o wire')
        BY ONLY <4>2, MovedStream
      <4> QED
        BY <4>1, <4>3
    <3> QED
      BY <3>3, <3>4, <3>5 DEF Stream
  <2>6. (Alone(g) <=> Alone(g)') /\ (Paired(g) <=> Paired(g)')
    BY <1>1, SameFrames
  <2>7. \A m : Sound(Stream, m) => Sound(Stream, m)'
    BY <1>1, <2>5 DEF Sound
  <2>8. Flight(g)'
    BY <2>2, <2>4, <2>5, <2>6, <2>7 DEF Flight
  <2>9. (\E h : Flight(h))'
    BY <2>8
  <2>10. Told'
    BY <1>1, <2>3 DEF Told, FailsByCause, HonestAnswer, NeverForged
  <2>11. Reading'
    BY <1>1, <2>4, <2>9 DEF AnswerInv, Reading
  <2> QED
    BY <2>10, <2>11
<1> QED
  BY <1>2, <1>3 DEF Recv

(* The frames the buffer begins. *)
LEMMA BufferBegins ==
  ASSUME NEW g, Flight(g)
  PROVE  /\ Sized(g) /\ Sized(First) /\ buf \in Seq(Cells(g)) /\ wire \in Seq(Cells(g))
         /\ Len(Stream) = Len(buf) + Len(wire) /\ Len(buf) \in Nat /\ Len(wire) \in Nat
         /\ \A i \in 1..Len(buf) : Stream[i] = buf[i] /\ i \in 1..Len(Stream)
         /\ OneFrame(Stream, g) => OneFrame(buf, g)
         /\ TwoFrames(Stream, First, g) => TwoFrames(buf, First, g)
<1>1. Sized(g) /\ Sized(First)
  BY FrameFields DEF Flight, Alone, Paired, Reply, First, Answer
<1>2. buf \in Seq(Cells(g)) /\ wire \in Seq(Cells(g))
  BY DEF Flight
<1>3. /\ Len(Stream) = Len(buf) + Len(wire) /\ Len(buf) \in Nat /\ Len(wire) \in Nat
      /\ \A i \in 1..Len(buf) : Stream[i] = buf[i]
  BY <1>2, StreamParts DEF Stream
<1>4. \A i \in 1..Len(buf) : i \in 1..Len(Stream)
  BY <1>3
<1>5. Size(g) \in {2, 3} /\ Size(First) \in {2, 3}
  BY <1>1, SizeIs
<1>6. OneFrame(Stream, g) => OneFrame(buf, g)
  BY <1>3, <1>4, <1>5 DEF OneFrame
<1>7. TwoFrames(Stream, First, g) => TwoFrames(buf, First, g)
  BY <1>3, <1>4, <1>5 DEF TwoFrames
<1> QED
  BY <1>1, <1>2, <1>3, <1>4, <1>6, <1>7

(* read_frame refuses a frame only if the network has damaged it. *)
LEMMA BadFrameAnswer ==
  ASSUME AnswerInv, BadFrame
  PROVE  Reading' /\ Told'
<1>1. phase = "read" /\ DecodeFrame(buf).status = "FrameError" /\ ConnectionLost("FrameError")
      /\ UNCHANGED <<exch, odd, said, answers>>
  BY DEF BadFrame
<1>2. PICK g : Flight(g)
  <2>1. buf # <<>>
    <3>1. DecodeFrame(<<>>) = [status |-> "TruncatedFrame"]
      BY DEF DecodeFrame, HEADER_SIZE
    <3> QED
      BY <1>1, <3>1
  <2> QED
    BY <1>1, <2>1 DEF AnswerInv, Reading
<1>3. OneFrame(Stream, g) \/ TwoFrames(Stream, First, g)
  BY <1>2 DEF Flight
<1>4. \E i \in 1..Len(buf) : ~buf[i].intact
  <2>1. CASE OneFrame(Stream, g)
    BY <1>1, <1>2, <2>1, BufferBegins, DecodeOne
  <2>2. CASE TwoFrames(Stream, First, g)
    BY <1>1, <1>2, <2>2, BufferBegins, DecodeTwo
  <2> QED
    BY <1>3, <2>1, <2>2
<1>5. \E i \in 1..Len(Stream) : ~Stream[i].intact
  BY <1>2, <1>4, BufferBegins
<1>6. odd.kind = "corrupt"
  BY <1>2, <1>5 DEF Flight, Sound
<1>7. Told'
  <2>1. "FrameError" = "OSError" <=> odd.kind = "reset"
    BY <1>6
  <2> QED
    BY <1>1, <1>6, <2>1, LostTold
<1>8. phase' = "done"
  BY <1>1 DEF ConnectionLost, Ends
<1> QED
  BY <1>7, <1>8 DEF Reading

(* A frame that ends the stream is taken: it is the one the server sent, and
   nothing was damaged. *)
LEMMA WholeTaken ==
  ASSUME NEW g, Flight(g), OneFrame(Stream, g), Sound(Stream, Size(g)), DecodeFrame(buf).status = "ok"
  PROVE  DecodeFrame(buf).frame = g /\ odd.kind # "corrupt"
<1>1. /\ Sized(g) /\ buf \in Seq(Cells(g)) /\ OneFrame(buf, g)
      /\ Len(Stream) = Len(buf) + Len(wire) /\ Len(buf) \in Nat /\ Len(wire) \in Nat
      /\ \A i \in 1..Len(buf) : Stream[i] = buf[i]
  BY BufferBegins
<1>2. DecodeFrame(buf).frame = g /\ Len(buf) = Size(g) /\ \A i \in 1..Len(buf) : buf[i].intact
  BY <1>1, DecodeOne
<1>3. Size(g) \in {2, 3} /\ Len(Stream) <= Size(g)
  BY <1>1, SizeIs DEF OneFrame
<1>4. Len(Stream) = Len(buf)
  BY <1>1, <1>2, <1>3
<1>5. \A i \in 1..Len(Stream) : Stream[i].intact
  BY <1>1, <1>2, <1>4
<1> QED
  BY <1>2, <1>5 DEF Sound

(* The verb's view of one frame, and of two that it can read. *)
LEMMA VerdictOne ==
  ASSUME NEW g
  PROVE  /\ Accept(g).outcome # "ok" => Verdict(<<g>>) = Accept(g)
         /\ Accept(g).outcome = "ok" => Verdict(<<g>>) = Ok(Accept(g).values[1])
<1> DEFINE fs == <<g>>
           bad == {i \in DOMAIN fs : Accept(fs[i]).outcome # "ok"}
<1>1. DOMAIN fs = {1} /\ fs[1] = g /\ Len(fs) = 1
  OBVIOUS
<1>2. CASE Accept(g).outcome # "ok"
  <2>1. bad = {1}
    BY <1>1, <1>2
  <2>2. (CHOOSE i \in bad : \A j \in bad : i <= j) = 1
    BY <2>1
  <2>3. bad # {}
    BY <2>1
  <2> HIDE DEF bad
  <2>4. Verdict(fs) = Accept(fs[CHOOSE i \in bad : \A j \in bad : i <= j])
    BY <1>1, <2>3 DEF Verdict, bad
  <2> QED
    BY <1>1, <1>2, <2>2, <2>4
<1>3. CASE Accept(g).outcome = "ok"
  <2>1. bad = {}
    BY <1>1, <1>3
  <2>2. Verdict(fs) = [outcome |-> "ok", values |-> [i \in DOMAIN fs |-> Accept(fs[i]).values[1]]]
    BY <1>1, <2>1 DEF Verdict
  <2>3. [i \in DOMAIN fs |-> Accept(fs[i]).values[1]] = <<Accept(g).values[1]>>
    BY <1>1
  <2> QED
    BY <1>3, <2>2, <2>3 DEF Ok
<1> QED
  BY <1>2, <1>3

(* What a verb makes of two frames: request_one refuses, a streamed verb reads both. *)
LEMMA VerdictTwo ==
  ASSUME NEW f, NEW g
  PROVE  /\ xch.shape = "unary" => Verdict(<<f, g>>) = Raised("ProtocolError")
         /\ xch.shape # "unary" /\ Accept(f).outcome = "ok" /\ Accept(g).outcome = "ok" =>
              Verdict(<<f, g>>) = [outcome |-> "ok", values |-> <<Accept(f).values[1], Accept(g).values[1]>>]
<1> DEFINE fs == <<f, g>>
           bad == {i \in DOMAIN fs : Accept(fs[i]).outcome # "ok"}
<1>1. DOMAIN fs = 1..2 /\ fs[1] = f /\ fs[2] = g /\ Len(fs) = 2
  OBVIOUS
<1>2. ASSUME xch.shape = "unary" PROVE Verdict(fs) = Raised("ProtocolError")
  BY <1>1, <1>2 DEF Verdict
<1>3. ASSUME xch.shape # "unary", Accept(f).outcome = "ok", Accept(g).outcome = "ok"
      PROVE  Verdict(fs) = [outcome |-> "ok", values |-> <<Accept(f).values[1], Accept(g).values[1]>>]
  <2>1. bad = {}
    BY <1>1, <1>3
  <2>2. Verdict(fs) = [outcome |-> "ok", values |-> [i \in DOMAIN fs |-> Accept(fs[i]).values[1]]]
    BY <1>1, <1>3, <2>1 DEF Verdict
  <2>3. [i \in DOMAIN fs |-> Accept(fs[i]).values[1]] = <<Accept(f).values[1], Accept(g).values[1]>>
    BY <1>1
  <2> QED
    BY <2>2, <2>3
<1> QED
  BY <1>2, <1>3

(* What the client makes of an answer that is one frame. *)
LEMMA TakesOne ==
  ASSUME TakeFrame, NEW g, DecodeFrame(buf).frame = g, g.eos = TRUE, Quiet
  PROVE  /\ phase' = "done"
         /\ g.op = ERROR => result' = ServerErrorOf(g)
         /\ g.op # ERROR /\ g.payload # NoPayload =>
              /\ xch.shape # "pushed" /\ g.op # xch.resp => result' = Raised("ProtocolError")
              /\ xch.shape = "pushed" \/ g.op = xch.resp =>
                   /\ ReadOf(g).outcome # "ok" => result' = ReadOf(g)
                   /\ \A m : ReadOf(g) = Ok(m) =>
                        \/ result' = Ok(m)
                        \/ /\ result' = Raised("VersionMismatch") /\ exch = "hello" /\ m.class = "WelcomePayload"
                           /\ m.value["chosen_version"] # "val"
<1>1. \/ g.op = ERROR /\ Ends(ServerErrorOf(g), FALSE)
      \/ g.op # ERROR /\ xch.shape = "expect" /\ Ends(Negotiated(Accept(g)), FALSE)
      \/ g.op # ERROR /\ xch.shape = "pushed" /\ NextEvent(g)
      \/ g.op # ERROR /\ xch.shape \in {"unary", "streamed"} /\ Ends(Verdict(<<g>>), FALSE)
  <2>1. Collect(g) => Ends(Verdict(<<g>>), FALSE)
    <3>1. Append(frames, g) = <<g>>
      BY DEF Quiet
    <3> QED
      BY <3>1 DEF Collect
  <2> QED
    BY <2>1 DEF TakeFrame
<1>2. \A m : Ok(m).outcome = "ok" /\ Ok(m).values = <<m>> /\ Ok(m).values[1] = m
  BY DEF Ok
<1>3. Raised("ProtocolError").outcome = "ProtocolError"
  BY DEF Raised
<1>4. /\ g.op # xch.resp => Accept(g) = Raised("ProtocolError")
      /\ g.op = xch.resp => Accept(g) = ReadOf(g)
  BY DEF Accept, ReadOf
<1>5. CASE g.op = ERROR
  BY <1>1, <1>5 DEF Ends
<1>6. CASE g.op # ERROR /\ xch.shape = "expect"
  <2>1. phase' = "done" /\ result' = Negotiated(Accept(g))
    BY <1>1, <1>6 DEF Ends
  <2>2. ASSUME g.op # xch.resp PROVE result' = Raised("ProtocolError")
    BY <1>3, <1>4, <2>1, <2>2 DEF Negotiated
  <2>3. ASSUME g.op = xch.resp, ReadOf(g).outcome # "ok" PROVE result' = ReadOf(g)
    BY <1>4, <2>1, <2>3 DEF Negotiated
  <2>4. ASSUME g.op = xch.resp, NEW m, ReadOf(g) = Ok(m)
        PROVE  \/ result' = Ok(m)
               \/ /\ result' = Raised("VersionMismatch") /\ exch = "hello" /\ m.class = "WelcomePayload"
                  /\ m.value["chosen_version"] # "val"
    BY <1>2, <1>4, <2>1, <2>4 DEF Negotiated
  <2> QED
    BY <1>6, <2>1, <2>2, <2>3, <2>4
<1>7. CASE g.op # ERROR /\ xch.shape \in {"unary", "streamed"}
  <2>1. phase' = "done" /\ result' = Verdict(<<g>>)
    BY <1>1, <1>7 DEF Ends
  <2>2. ASSUME g.op # xch.resp PROVE result' = Raised("ProtocolError")
    BY <1>3, <1>4, <2>1, <2>2, VerdictOne
  <2>3. ASSUME g.op = xch.resp, ReadOf(g).outcome # "ok" PROVE result' = ReadOf(g)
    BY <1>4, <2>1, <2>3, VerdictOne
  <2>4. ASSUME g.op = xch.resp, NEW m, ReadOf(g) = Ok(m) PROVE result' = Ok(m)
    BY <1>2, <1>4, <2>1, <2>4, VerdictOne
  <2> QED
    BY <1>7, <2>1, <2>2, <2>3, <2>4
<1>8. CASE g.op # ERROR /\ xch.shape = "pushed"
  <2>1. NextEvent(g)
    BY <1>1, <1>8
  <2>2. phase' = "done"
    BY <2>1 DEF NextEvent, Ends
  <2>3. ASSUME g.payload # NoPayload, ReadOf(g).outcome # "ok" PROVE result' = ReadOf(g)
    BY <2>1, <2>3 DEF NextEvent, Ends, ReadOf
  <2>4. ASSUME NEW m, g.payload # NoPayload, ReadOf(g) = Ok(m) PROVE result' = Ok(m)
    <3>1. ReadOf(g).outcome = "ok" /\ ReadOf(g).values = <<m>>
      BY <1>2, <2>4
    <3>2. result' = [outcome |-> "ok", values |-> result.values \o <<m>>]
      BY <2>1, <2>4, <3>1 DEF NextEvent, Ends, ReadOf
    <3>3. result.values \o <<m>> = <<m>>
      BY DEF Quiet, Pending
    <3> QED
      BY <3>2, <3>3 DEF Ok
  <2> QED
    BY <1>8, <2>2, <2>3, <2>4
<1> QED
  BY <1>1, <1>5, <1>6, <1>7, <1>8

(* The answer was one frame. *)
LEMMA AloneTold ==
  ASSUME AnswerInv, TakeFrame, NEW g, Flight(g), Alone(g), Quiet,
         OneFrame(Stream, g), Sound(Stream, Size(g))
  PROVE  phase' = "done" /\ Told'
<1>1. /\ phase = "read" /\ DecodeFrame(buf).status = "ok" /\ UNCHANGED <<exch, odd, said, answers>>
      /\ xch' = xch /\ exch \in DOMAIN Exchanges /\ xch.shape # "oneway"
  BY DEF TakeFrame, xch, AnswerInv, IInv, SaidTyped, Reading
<1>2. DecodeFrame(buf).frame = g /\ odd.kind # "corrupt"
  BY <1>1, WholeTaken
<1>3. g.eos = TRUE
  BY DEF Alone, Reply
<1>4. xch.resp # ERROR
  BY <1>1, OpcodesAssumption DEF xch
<1>5. PICK a : a = answers[1]
  OBVIOUS
<1>6. answers = <<a>> /\ Good(a) /\ answers'[1] = a /\ Len(answers') = 1 /\ DOMAIN answers' = {1}
  BY <1>1, <1>5 DEF Alone
<1>7. /\ phase' = "done"
      /\ g.op = ERROR => result' = ServerErrorOf(g)
      /\ g.op # ERROR /\ g.payload # NoPayload =>
           /\ xch.shape # "pushed" /\ g.op # xch.resp => result' = Raised("ProtocolError")
           /\ xch.shape = "pushed" \/ g.op = xch.resp =>
                /\ ReadOf(g).outcome # "ok" => result' = ReadOf(g)
                /\ \A m : ReadOf(g) = Ok(m) =>
                     \/ result' = Ok(m)
                     \/ /\ result' = Raised("VersionMismatch") /\ exch = "hello" /\ m.class = "WelcomePayload"
                        /\ m.value["chosen_version"] # "val"
  BY <1>2, <1>3, TakesOne
<1> SUFFICES Told'
  BY <1>7
<1>8. \A e : Raised(e).outcome = e
  BY DEF Raised
<1>9. \A m : Ok(m).outcome = "ok" /\ Ok(m).values[1] = m /\ Len(Ok(m).values) = 1 /\ DOMAIN Ok(m).values = {1}
  BY DEF Ok
<1>10. PICK n : n = MeantBy(a)
  OBVIOUS
<1>11. n.class = a.class /\ \A f \in DOMAIN a.value : Reads(Classes[a.class][f], f, n.value[f], a.value[f])'
  BY <1>6, <1>10, Genuine
(* An error of the taxonomy promises nothing more. *)
<1>12. ASSUME NEW e \in {"ProtocolError", "VersionMismatch"}, result' = Raised(e),
              odd.kind \notin Transport \cup {"none", "value", "error"}
       PROVE  Told'
  <2>1. result'.outcome = e /\ e # "ok"
    BY <1>8, <1>12
  <2> QED
    BY <1>1, <1>12, <2>1 DEF Told, FailsByCause, HonestAnswer, NeverForged, BrainErrors, Retryable
(* A single message that the verb accepts. *)
<1>13. ASSUME NEW m, result' = Ok(m), m.class = a.class,
              \A f \in DOMAIN a.value : Reads(Classes[a.class][f], f, m.value[f], a.value[f])',
              odd.kind \notin {"twice", "trailing", "notmap", "bad", "error", "corrupt"},
              odd.kind = "opcode" => xch.shape = "pushed"
       PROVE  NeverForged'
  <2>1. result'.values[1] = m /\ Len(result'.values) = 1 /\ DOMAIN result'.values = {1}
    BY <1>9, <1>13
  <2>2. odd'.kind = odd.kind /\ xch'.shape = xch.shape
    BY <1>1
  <2> QED
    BY <1>6, <1>13, <2>1, <2>2 DEF NeverForged
<1>14. CASE Truthful(g)
  <2>1. g.op = xch.resp /\ g.payload # NoPayload /\ odd.kind \in {"none", "value", "hangup", "reset"}
    BY <1>2, <1>14 DEF Truthful, Alone, Fair
  <2>2. ReadOf(g) = Ok(n)
    BY <1>6, <1>10, <1>14 DEF Truthful
  <2>3. CASE result' = Ok(n)
    <3>1. NeverForged'
      BY <1>11, <1>13, <2>1, <2>3
    <3>2. [i \in DOMAIN answers' |-> MeantBy(answers'[i])] = <<n>>
      BY <1>6, <1>10
    <3>3. HonestAnswer'
      BY <1>1, <2>1, <2>3, <3>2 DEF HonestAnswer, Ok
    <3>4. FailsByCause'
      BY <1>9, <2>3 DEF FailsByCause, Retryable
    <3> QED
      BY <3>1, <3>3, <3>4 DEF Told
  <2>4. CASE /\ result' = Raised("VersionMismatch") /\ exch = "hello" /\ n.class = "WelcomePayload"
             /\ n.value["chosen_version"] # "val"
    <3>1. result'.outcome = "VersionMismatch"
      BY <1>8, <2>4
    <3>2. a.class = "WelcomePayload" /\ a.value["chosen_version"] # "val"
      <4>1. a.class = "WelcomePayload" /\ "WelcomePayload" \in DOMAIN Classes
        BY <1>6, <1>11, <2>4 DEF Good
      <4>2. "chosen_version" \in DOMAIN Classes["WelcomePayload"]
        BY <4>1, NamesAssumption
      <4>3. n.value["chosen_version"] = Rounded(Classes["WelcomePayload"]["chosen_version"], a.value["chosen_version"])
        BY <1>10, <4>1, <4>2 DEF MeantBy, Message, Meant
      <4>4. a.value["chosen_version"] = "val" => n.value["chosen_version"] = "val"
        BY <4>3 DEF Rounded
      <4> QED
        BY <2>4, <4>1, <4>4
    <3>3. UnofferedVersion'
      BY <1>1, <1>6, <2>4, <3>2 DEF UnofferedVersion
    <3>4. odd.kind = "value"
      <4>1. SUFFICES ASSUME odd.kind # "value" PROVE FALSE
        OBVIOUS
      <4>2. a = Plain(xch.answers)
        BY <1>5, <2>1, <4>1 DEF Alone, Fair
      <4>3. a.class \in DOMAIN Classes /\ a.value = Full(a.class)
        BY <1>6, <4>2 DEF Plain, Message, Good
      <4>4. "chosen_version" \in DOMAIN Classes["WelcomePayload"]
        BY <3>2, <4>3, NamesAssumption
      <4>5. a.value["chosen_version"] = "val"
        BY <3>2, <4>3, <4>4 DEF Full
      <4> QED
        BY <3>2, <4>5
    <3> QED
      BY <1>1, <3>1, <3>3, <3>4
         DEF Told, FailsByCause, HonestAnswer, NeverForged, BrainErrors, Transport, Retryable
  <2> QED
    BY <1>4, <1>7, <2>1, <2>2, <2>3, <2>4
<1>15. CASE Refusal(g)
  <2>1. odd.kind = "error" /\ g.op = ERROR /\ ServerErrorOf(g) = Raised("ServerError")
    BY <1>15 DEF Refusal
  <2>2. result' = Raised("ServerError")
    BY <1>7, <2>1
  <2>3. result'.outcome = "ServerError"
    BY <1>8, <2>2
  <2> QED
    BY <1>1, <2>1, <2>2, <2>3
       DEF Told, FailsByCause, HonestAnswer, NeverForged, BrainErrors, Transport, Retryable
<1>16. CASE Foreign(g)
  <2>1. odd.kind = "opcode" /\ g.op # xch.resp /\ g.op # ERROR /\ g.payload # NoPayload /\ ReadOf(g) = Ok(n)
    BY <1>5, <1>10, <1>16 DEF Foreign
  <2>2. CASE xch.shape # "pushed"
    <3>1. result' = Raised("ProtocolError")
      BY <1>7, <2>1, <2>2
    <3> QED
      BY <1>12, <2>1, <3>1 DEF Transport
  <2>3. CASE xch.shape = "pushed" /\ result' = Ok(n)
    <3>1. NeverForged'
      BY <1>11, <1>13, <2>1, <2>3
    <3> QED
      BY <1>1, <1>9, <2>1, <2>3, <3>1 DEF Told, FailsByCause, HonestAnswer, Transport, Retryable
  <2>4. CASE xch.shape = "pushed" /\ result' = Raised("VersionMismatch")
    BY <1>12, <2>1, <2>4 DEF Transport
  <2> QED
    BY <1>7, <2>1, <2>2, <2>3, <2>4
<1>17. CASE Broken(g)
  <2>1. odd.kind \in Undecodable
    BY <1>17 DEF Broken
  <2>2. HonestAnswer' /\ (result'.outcome \notin Retryable => FailsByCause')
    BY <1>1, <2>1 DEF FailsByCause, HonestAnswer, Undecodable, Transport
  <2>3. ASSUME result'.outcome \in {"CborError", "TypeError", "FieldError", "ServerError", "VersionMismatch"}
        PROVE  Told'
    BY <2>2, <2>3 DEF Told, NeverForged, Retryable
  <2>4. CASE g.op = ERROR
    <3>1. result' = ServerErrorOf(g)
      BY <1>7, <2>4
    <3>2. ServerErrorOf(g).outcome \in {"CborError", "TypeError", "FieldError", "ServerError"}
      BY <1>8, DecodeOutcome DEF ServerErrorOf
    <3> QED
      BY <2>3, <3>1, <3>2
  <2>5. CASE g.op = xch.resp /\ g.payload # NoPayload /\ ReadOf(g) \in {Raised("CborError"), Raised("TypeError"), Raised("FieldError")}
    <3>1. ReadOf(g).outcome \in {"CborError", "TypeError", "FieldError"}
      BY <1>8, <2>5
    <3>2. result' = ReadOf(g)
      BY <1>4, <1>7, <2>5, <3>1
    <3> QED
      BY <2>3, <3>1, <3>2
  <2>6. CASE /\ g.op = xch.resp /\ g.payload # NoPayload /\ odd.kind \in {"absent", "null", "unknown"}
             /\ ReadOf(g) = Ok(ReadOf(g).values[1]) /\ Harmless(ReadOf(g).values[1])
    <3>1. PICK m : m = ReadOf(g).values[1]
      OBVIOUS
    <3>2. ReadOf(g) = Ok(m) /\ Harmless(m)
      BY <2>6, <3>1
    <3>3. m.class = a.class /\ \A f \in DOMAIN a.value : Reads(Classes[a.class][f], f, m.value[f], a.value[f])'
      BY <1>1, <1>5, <3>2 DEF Harmless, Reads
    <3>4. CASE result' = Ok(m)
      <4>1. NeverForged'
        BY <1>13, <2>6, <3>3, <3>4
      <4>2. result'.outcome \notin Retryable
        BY <1>9, <3>4 DEF Retryable
      <4> QED
        BY <2>2, <4>1, <4>2 DEF Told
    <3>5. CASE result' = Raised("VersionMismatch")
      BY <1>8, <2>3, <3>5
    <3> QED
      BY <1>4, <1>7, <2>6, <3>2, <3>4, <3>5
  <2> QED
    BY <1>17, <2>4, <2>5, <2>6 DEF Broken
<1> QED
  BY <1>14, <1>15, <1>16, <1>17 DEF Alone, Reply

(* What is left of s behind its first n cells is t. *)
Behind(s, n, t) ==
  /\ Len(s) \in Nat /\ Len(t) = Len(s) - n /\ n <= Len(s)
  /\ \A i \in 1..Len(t) : t[i] = s[n + i]

(* A frame is cut off the front of the stream. *)
LEMMA DroppedFrame ==
  ASSUME NEW T, NEW b \in Seq(T), NEW w \in Seq(T), NEW n \in 0..Len(b), NEW u, u = SubSeq(b, n + 1, Len(b))
  PROVE  u \in Seq(T) /\ Behind(b \o w, n, u \o w)
<1>1. u \in Seq(T) /\ Len(u) = Len(b) - n /\ \A i \in 1..(Len(b) - n) : u[i] = b[n + i]
  OBVIOUS
<1>2. /\ Len(b) \in Nat /\ Len(w) \in Nat /\ Len(b \o w) = Len(b) + Len(w)
      /\ \A i \in 1..Len(b) : (b \o w)[i] = b[i]
      /\ \A i \in 1..(Len(b) + Len(w)) : i > Len(b) => (b \o w)[i] = w[i - Len(b)]
  BY StreamParts
<1>3. /\ Len(u \o w) = Len(u) + Len(w) /\ Len(u) \in Nat
      /\ \A i \in 1..Len(u) : (u \o w)[i] = u[i]
      /\ \A i \in 1..(Len(u) + Len(w)) : i > Len(u) => (u \o w)[i] = w[i - Len(u)]
  BY <1>1, StreamParts
<1>a. /\ n \in Nat /\ Len(b) \in Nat /\ Len(w) \in Nat /\ Len(u) \in Nat /\ Len(u) = Len(b) - n
      /\ Len(u \o w) = Len(u) + Len(w) /\ Len(b \o w) = Len(b) + Len(w)
  BY <1>1, <1>2, <1>3
<1>4. ASSUME NEW i \in 1..Len(u \o w) PROVE (u \o w)[i] = (b \o w)[n + i]
  <2>0. i \in 1..Len(u \o w)
    OBVIOUS
  <2>1. CASE i <= Len(u)
    <3>1. i \in 1..Len(u) /\ i \in 1..(Len(b) - n) /\ n + i \in 1..Len(b)
      BY ONLY <1>a, <2>0, <2>1
    <3>2. (u \o w)[i] = u[i]
      BY ONLY <1>3, <3>1
    <3>3. (b \o w)[n + i] = b[n + i] /\ u[i] = b[n + i]
      BY ONLY <1>1, <1>2, <3>1
    <3> QED
      BY ONLY <3>2, <3>3
  <2>2. CASE i > Len(u)
    <3>1. i \in 1..(Len(u) + Len(w)) /\ n + i \in 1..(Len(b) + Len(w)) /\ n + i > Len(b) /\ n + i - Len(b) = i - Len(u)
      BY ONLY <1>a, <2>0, <2>2
    <3>2. (u \o w)[i] = w[i - Len(u)]
      BY ONLY <1>3, <2>2, <3>1
    <3>3. (b \o w)[n + i] = w[n + i - Len(b)]
      BY ONLY <1>2, <3>1
    <3> QED
      BY ONLY <3>1, <3>2, <3>3
  <2> QED
    BY <1>a, <2>1, <2>2
<1>5. Len(b \o w) \in Nat /\ Len(u \o w) = Len(b \o w) - n /\ n <= Len(b \o w)
  BY ONLY <1>a
<1> QED
  BY <1>1, <1>4, <1>5 DEF Behind

(* What First is to the client. *)
LEMMA FirstReads ==
  ASSUME exch \in DOMAIN Exchanges, xch.shape # "oneway"
  PROVE  /\ First.op = xch.resp /\ First.op # ERROR /\ First.eos = FALSE /\ First.payload # NoPayload
         /\ ReadOf(First) = Ok(MeantBy(Plain(xch.answers))) /\ Accept(First) = ReadOf(First) /\ Good(Plain(xch.answers))
<1>1. xch.resp = xch.req + 128 /\ xch.resp # ERROR /\ xch.answers \in DOMAIN Classes
  BY OpcodesAssumption, ExchangesAssumption DEF xch
<1>2. /\ First.op = xch.resp /\ First.eos = FALSE
      /\ First.payload = EncodePayload(xch.answers, Plain(xch.answers))
  BY <1>1 DEF First, Answer, Frame
<1>3. Good(Plain(xch.answers))
  BY <1>1, PlainGood
<1>4. ReadOf(First) = Ok(MeantBy(Plain(xch.answers))) /\ First.payload # NoPayload
  BY <1>2, <1>3, GoodDecodes DEF ReadOf
<1>5. Accept(First) = ReadOf(First)
  BY <1>2 DEF Accept, ReadOf
<1> QED
  BY <1>1, <1>2, <1>3, <1>4, <1>5

(* The first of two frames is taken: the other is on its way. *)
LEMMA FirstTaken ==
  ASSUME AnswerInv, TakeFrame, NEW g, Flight(g), Paired(g), Quiet,
         TwoFrames(Stream, First, g), Sound(Stream, Size(First) + Size(g))
  PROVE  Reading' /\ Told'
<1>1. /\ phase = "read" /\ DecodeFrame(buf).status = "ok" /\ UNCHANGED <<exch, odd, said, answers, wire, eof>>
      /\ xch' = xch /\ exch \in DOMAIN Exchanges /\ xch.shape # "oneway" /\ buf' = DecodeFrame(buf).rest
  BY DEF TakeFrame, xch, AnswerInv, IInv, SaidTyped, Reading
<1>2. /\ Sized(g) /\ Sized(First) /\ buf \in Seq(Cells(g)) /\ wire \in Seq(Cells(g)) /\ TwoFrames(buf, First, g)
      /\ Len(Stream) = Len(buf) + Len(wire) /\ Len(buf) \in Nat /\ Len(wire) \in Nat
      /\ \A i \in 1..Len(buf) : Stream[i] = buf[i]
  BY BufferBegins
<1>3. /\ DecodeFrame(buf).frame = First /\ DecodeFrame(buf).rest = SubSeq(buf, Size(First) + 1, Len(buf))
      /\ Size(First) <= Len(buf) /\ \A i \in 1..Size(First) : buf[i].intact
  BY <1>1, <1>2, DecodeTwo
<1>4. Size(First) \in {2, 3} /\ Size(g) \in {2, 3}
  BY <1>2, SizeIs
<1>5. /\ First.op # ERROR /\ First.eos = FALSE /\ First.payload # NoPayload
      /\ ReadOf(First) = Ok(MeantBy(Plain(xch.answers)))
  BY <1>1, FirstReads
<1>6. First' = First /\ Cells(g)' = Cells(g)
  BY <1>1 DEF First, Answer, Cells
<1>7. xch.shape \in {"unary", "streamed", "pushed"}
  BY DEF Paired, Closing
<1>8. phase' = phase /\ HalfWay'
  <2>1. CASE xch.shape = "pushed"
    <3>1. NextEvent(First)
      BY <1>3, <1>5, <2>1 DEF TakeFrame
    <3>2. ReadOf(First).outcome = "ok" /\ ReadOf(First).values = <<MeantBy(Plain(xch.answers))>>
      BY <1>5 DEF Ok
    <3>3. /\ result' = [result EXCEPT !.values = @ \o ReadOf(First).values] /\ phase' = phase /\ frames' = frames
      BY <1>5, <3>1, <3>2 DEF NextEvent, ReadOf
    <3>4. result' = [outcome |-> "none", values |-> <<MeantBy(Plain(xch.answers))>>]
      BY <3>2, <3>3 DEF Quiet, Pending
    <3>5. frames' = <<>>
      BY <3>3 DEF Quiet
    <3> QED
      BY <1>1, <2>1, <3>3, <3>4, <3>5 DEF HalfWay, MeantBy
  <2>2. CASE xch.shape \in {"unary", "streamed"}
    <3>1. Collect(First)
      BY <1>3, <1>5, <2>2 DEF TakeFrame
    <3>2. frames' = Append(frames, First) /\ phase' = phase /\ result' = result
      BY <1>5, <3>1 DEF Collect
    <3>3. frames' = <<First>> /\ result' = Pending
      BY <3>2 DEF Quiet
    <3> QED
      BY <1>1, <1>6, <2>2, <3>2, <3>3 DEF HalfWay
  <2> QED
    BY <1>7, <2>1, <2>2
<1> DEFINE n == Size(First)
<1>9. buf' \in Seq(Cells(g)) /\ Behind(Stream, n, Stream')
  <2>1. n \in 0..Len(buf)
    BY <1>2, <1>3, <1>4
  <2>2. Stream' = buf' \o wire /\ buf' = SubSeq(buf, n + 1, Len(buf))
    BY <1>1, <1>3 DEF Stream
  <2> HIDE DEF n
  <2>3. buf' \in Seq(Cells(g)) /\ Behind(buf \o wire, n, buf' \o wire)
    BY <1>2, <2>1, <2>2, DroppedFrame
  <2> QED
    BY <2>2, <2>3 DEF Stream
<1> HIDE DEF n
<1>10. n \in {2, 3} /\ n = Size(First)
  BY <1>4 DEF n
<1>b. /\ Len(Stream) \in Nat /\ Len(Stream') = Len(Stream) - n /\ n <= Len(Stream)
      /\ \A i \in 1..Len(Stream') : Stream'[i] = Stream[n + i]
  BY <1>9 DEF Behind
<1>11. \A i \in 1..Len(Stream') : n + i \in 1..Len(Stream) /\ n + i > n /\ n + i - n = i
  BY <1>b, <1>10
<1>12. OneFrame(Stream, g)'
  <2>1. Len(Stream') <= Size(g)
    BY <1>4, <1>b, <1>10 DEF TwoFrames
  <2>2. \A i \in 1..Len(Stream') : Stream'[i] \in Cell(g, i)
    <3> SUFFICES ASSUME NEW i \in 1..Len(Stream') PROVE Stream'[i] \in Cell(g, i)
      OBVIOUS
    <3>1. \A j \in 1..Len(Stream) : j > n => Stream[j] \in Cell(g, j - n)
      BY <1>10 DEF TwoFrames
    <3>2. PICK j : j = n + i
      OBVIOUS
    <3>3. j \in 1..Len(Stream) /\ j > n /\ j - n = i /\ Stream'[i] = Stream[j]
      <4>1. j \in 1..Len(Stream) /\ j > n /\ j - n = i
        <5>1. n \in {2, 3} /\ Len(Stream) \in Nat /\ Len(Stream') = Len(Stream) - n
          BY <1>b, <1>10
        <5> QED
          BY ONLY <3>2, <5>1, i \in 1..Len(Stream')
      <4>2. Stream'[i] = Stream[j]
        BY ONLY <1>b, <3>2, i \in 1..Len(Stream')
      <4> QED
        BY <4>1, <4>2
    <3>4. Stream[j] \in Cell(g, j - n)
      BY <3>1, <3>3
    <3> QED
      BY <3>3, <3>4
  <2> QED
    BY <2>1, <2>2 DEF OneFrame
<1>13. Sound(Stream, Size(g))'
  <2>1. (\E i \in 1..Len(Stream) : ~Stream[i].intact) <=> (\E i \in 1..Len(Stream') : ~Stream'[i].intact)
    <3>1. ASSUME NEW i \in 1..Len(Stream), ~Stream[i].intact PROVE \E j \in 1..Len(Stream') : ~Stream'[j].intact
      <4>1. i > n
        <5>1. \A j \in 1..n : j \in 1..Len(buf) /\ buf[j].intact
          BY <1>2, <1>3, <1>10
        <5>2. i \in 1..n => Stream[i].intact
          BY <1>2, <5>1
        <5> QED
          BY <1>b, <1>10, <3>1, <5>2
      <4>2. i - n \in 1..Len(Stream') /\ n + (i - n) = i
        BY <1>b, <1>10, <4>1
      <4> QED
        BY <1>b, <3>1, <4>2
    <3> QED
      BY <1>b, <1>11, <3>1
  <2>2. odd.kind \notin {"hangup", "reset"} => Len(Stream') = Size(g)
    BY <1>4, <1>b, <1>10 DEF Sound
  <2> QED
    BY <1>1, <2>1, <2>2 DEF Sound
<1>14. Paired(g)'
  BY <1>1, SameFrames
<1>15. Flight(g)'
  BY <1>1, <1>2, <1>6, <1>8, <1>9, <1>12, <1>13, <1>14 DEF Flight
<1>16. (\E h : Flight(h))'
  BY <1>15
<1>17. Told'
  BY <1>1, <1>8 DEF Told, FailsByCause, HonestAnswer, NeverForged
<1>18. Reading'
  BY <1>1, <1>16 DEF AnswerInv, Reading
<1> QED
  BY <1>17, <1>18

(* The two ways a pair of frames is put together. *)
LEMMA Pair == ASSUME NEW a, NEW b PROVE Append(<<a>>, b) = <<a, b>> /\ <<a>> \o <<b>> = <<a, b>>
<1> DEFINE T == {a, b}
           s == <<a>>
           t == <<b>>
           p == <<a, b>>
<1>1. s \in Seq(T) /\ t \in Seq(T) /\ p \in Seq(T) /\ b \in T
  OBVIOUS
<1>2. Len(s) = 1 /\ s[1] = a /\ Len(t) = 1 /\ t[1] = b /\ Len(p) = 2 /\ p[1] = a /\ p[2] = b
  OBVIOUS
<1> HIDE DEF T, s, t, p
<1>3. Append(s, b) \in Seq(T) /\ Len(Append(s, b)) = 2 /\ Append(s, b)[1] = a /\ Append(s, b)[2] = b
  BY <1>1, <1>2
<1>4. s \o t \in Seq(T) /\ Len(s \o t) = 2 /\ (s \o t)[1] = a /\ (s \o t)[2] = b
  <2>1. s \o t \in Seq(T) /\ Len(s \o t) = Len(s) + Len(t)
    BY <1>1
  <2>2. (s \o t)[1] = s[1] /\ (s \o t)[2] = t[1]
    BY <1>1, <1>2, ConcatProperties
  <2> QED
    BY <1>2, <2>1, <2>2
<1>5. Append(s, b) = p /\ s \o t = p
  BY <1>1, <1>2, <1>3, <1>4, SeqEqual
<1> QED
  BY <1>5 DEF s, t, p

(* The second of two frames is taken. *)
LEMMA PairedTold ==
  ASSUME AnswerInv, TakeFrame, NEW g, Flight(g), Paired(g), HalfWay,
         OneFrame(Stream, g), Sound(Stream, Size(g))
  PROVE  phase' = "done" /\ Told'
<1>1. /\ phase = "read" /\ DecodeFrame(buf).status = "ok" /\ UNCHANGED <<exch, odd, said, answers>>
      /\ xch' = xch /\ exch \in DOMAIN Exchanges /\ xch.shape # "oneway"
  BY DEF TakeFrame, xch, AnswerInv, IInv, SaidTyped, Reading
<1>2. DecodeFrame(buf).frame = g /\ odd.kind # "corrupt" /\ g.eos = TRUE
  BY <1>1, WholeTaken DEF Paired, Reply
<1>3. xch.resp # ERROR
  BY <1>1, OpcodesAssumption DEF xch
<1>4. PICK P : P = Plain(xch.answers)
  OBVIOUS
<1>5. PICK n : n = MeantBy(P)
  OBVIOUS
<1>6. ReadOf(First) = Ok(n) /\ Accept(First) = Ok(n) /\ Good(P)
  BY <1>1, <1>4, <1>5, FirstReads
<1>7. n.class = P.class /\ \A f \in DOMAIN P.value : Reads(Classes[P.class][f], f, n.value[f], P.value[f])'
  BY <1>5, <1>6, Genuine
<1>8. Ok(n).outcome = "ok" /\ Ok(n).values = <<n>> /\ Ok(n).values[1] = n
  BY DEF Ok
<1>9. \A e : Raised(e).outcome = e
  BY DEF Raised
<1>10. CASE Refusal(g) /\ xch.shape = "streamed"
  <2>1. odd.kind = "error" /\ g.op = ERROR /\ ServerErrorOf(g) = Raised("ServerError")
    BY <1>10 DEF Refusal
  <2>2. Ends(ServerErrorOf(g), FALSE)
    BY <1>2, <2>1 DEF TakeFrame
  <2>3. phase' = "done" /\ result' = Raised("ServerError")
    BY <2>1, <2>2 DEF Ends
  <2>4. result'.outcome = "ServerError"
    BY <1>9, <2>3
  <2> QED
    BY <1>1, <2>1, <2>3, <2>4
       DEF Told, FailsByCause, HonestAnswer, NeverForged, BrainErrors, Transport, Retryable
<1>11. CASE Closing(g)
  <2>1. xch.shape = "pushed" /\ g.op # ERROR /\ g.payload = NoPayload /\ answers = <<P>> /\ odd.kind \in Fair
    BY <1>3, <1>4, <1>11 DEF Closing
  <2>2. NextEvent(g)
    BY <1>2, <2>1 DEF TakeFrame
  <2>3. phase' = "done" /\ result' = [result EXCEPT !.outcome = "ok"]
    BY <1>2, <2>1, <2>2 DEF NextEvent, Ends
  <2>4. result = [outcome |-> "none", values |-> <<n>>]
    BY <1>4, <1>5, <2>1 DEF HalfWay
  <2>5. result' = [outcome |-> "ok", values |-> <<n>>]
    BY <2>3, <2>4
  <2>6. result'.outcome = "ok" /\ result'.values[1] = n /\ Len(result'.values) = 1 /\ DOMAIN result'.values = {1}
    BY <2>5
  <2>7. answers'[1] = P /\ Len(answers') = 1 /\ DOMAIN answers' = {1}
    BY <1>1, <2>1
  <2>8. [i \in DOMAIN answers' |-> MeantBy(answers'[i])] = <<n>>
    BY <1>5, <2>7
  <2>9. NeverForged'
    BY <1>1, <1>2, <1>7, <2>1, <2>6, <2>7 DEF NeverForged, Fair
  <2>10. HonestAnswer'
    BY <1>1, <2>1, <2>5, <2>8 DEF HonestAnswer, Fair
  <2> QED
    BY <2>3, <2>6, <2>9, <2>10 DEF Told, FailsByCause, Retryable
<1>12. CASE Truthful(g) /\ answers = <<P, P>> /\ odd.kind = "twice" /\ xch.shape = "unary"
  <2>1. g.op # ERROR /\ Collect(g)
    BY <1>2, <1>3, <1>12 DEF Truthful, TakeFrame
  <2>2. frames' = <<First, g>>
    BY <1>12, <2>1, Pair DEF Collect, HalfWay
  <2>3. phase' = "done" /\ result' = Verdict(<<First, g>>)
    BY <1>2, <2>1, <2>2 DEF Collect, Ends
  <2>4. result' = Raised("ProtocolError")
    BY <1>12, <2>3, VerdictTwo
  <2>5. result'.outcome = "ProtocolError"
    BY <1>9, <2>4
  <2> QED
    BY <1>1, <1>12, <2>3, <2>5
       DEF Told, FailsByCause, HonestAnswer, NeverForged, BrainErrors, Transport, Retryable
<1>13. CASE Truthful(g) /\ answers = <<P, P>> /\ odd.kind # "twice" /\ xch.shape \in {"streamed", "pushed"}
  <2>1. g.op = xch.resp /\ g.op # ERROR /\ g.payload # NoPayload /\ odd.kind \in {"none", "value", "hangup", "reset"}
    BY <1>2, <1>3, <1>13 DEF Truthful, Fair
  <2>2. ReadOf(g) = Ok(n)
    <3>1. answers[Len(answers)] = P
      BY <1>13
    <3> QED
      BY <1>5, <1>13, <3>1 DEF Truthful
  <2>3. phase' = "done" /\ result' = [outcome |-> "ok", values |-> <<n, n>>]
    <3>1. CASE xch.shape = "streamed"
      <4>1. Collect(g)
        BY <1>2, <2>1, <3>1 DEF TakeFrame
      <4>2. frames' = <<First, g>>
        BY <3>1, <4>1, Pair DEF Collect, HalfWay
      <4>3. phase' = "done" /\ result' = Verdict(<<First, g>>)
        BY <1>2, <4>1, <4>2 DEF Collect, Ends
      <4>4. Accept(g) = Ok(n)
        BY <2>1, <2>2 DEF Accept, ReadOf
      <4> QED
        BY <1>6, <1>8, <3>1, <4>3, <4>4, VerdictTwo
    <3>2. CASE xch.shape = "pushed"
      <4>1. NextEvent(g)
        BY <1>2, <2>1, <3>2 DEF TakeFrame
      <4>2. phase' = "done" /\ result' = [outcome |-> "ok", values |-> result.values \o <<n>>]
        BY <1>2, <1>8, <2>1, <2>2, <4>1 DEF NextEvent, Ends, ReadOf
      <4>3. result.values = <<n>>
        BY <1>4, <1>5, <3>2 DEF HalfWay
      <4>4. <<n>> \o <<n>> = <<n, n>>
        BY Pair
      <4> QED
        BY <4>2, <4>3, <4>4
    <3> QED
      BY <1>13, <3>1, <3>2
  <2>4. /\ result'.outcome = "ok" /\ result'.values[1] = n /\ result'.values[2] = n
        /\ Len(result'.values) = 2 /\ DOMAIN result'.values = {1, 2}
    BY <2>3
  <2>5. answers'[1] = P /\ answers'[2] = P /\ Len(answers') = 2 /\ DOMAIN answers' = {1, 2}
    BY <1>1, <1>13
  <2>6. [i \in DOMAIN answers' |-> MeantBy(answers'[i])] = <<n, n>>
    <3>1. DOMAIN answers' = 1..2
      BY <1>1, <1>13
    <3> QED
      BY <1>5, <2>5, <3>1
  <2>7. NeverForged'
    BY <1>1, <1>7, <2>1, <2>4, <2>5 DEF NeverForged
  <2>8. HonestAnswer'
    BY <1>1, <2>1, <2>3, <2>6 DEF HonestAnswer
  <2> QED
    BY <2>3, <2>4, <2>7, <2>8 DEF Told, FailsByCause, Retryable
<1> QED
  BY <1>4, <1>10, <1>11, <1>12, <1>13 DEF Paired

(* read_frame takes a frame, refuses one or waits: the invariant holds after each. *)
LEMMA TakeFrameAnswer ==
  ASSUME AnswerInv, TakeFrame
  PROVE  Reading' /\ Told'
<1>1. phase = "read" /\ DecodeFrame(buf).status = "ok"
  BY DEF TakeFrame
<1>2. PICK g : Flight(g)
  <2>1. buf # <<>>
    <3>1. DecodeFrame(<<>>) = [status |-> "TruncatedFrame"]
      BY DEF DecodeFrame, HEADER_SIZE
    <3> QED
      BY <1>1, <3>1
  <2> QED
    BY <1>1, <2>1 DEF AnswerInv, Reading
<1>3. CASE Alone(g) /\ OneFrame(Stream, g) /\ Sound(Stream, Size(g)) /\ Quiet
  BY <1>2, <1>3, AloneTold DEF Reading
<1>4. CASE Paired(g) /\ TwoFrames(Stream, First, g) /\ Sound(Stream, Size(First) + Size(g)) /\ Quiet
  BY <1>2, <1>4, FirstTaken
<1>5. CASE Paired(g) /\ OneFrame(Stream, g) /\ Sound(Stream, Size(g)) /\ HalfWay
  BY <1>2, <1>5, PairedTold DEF Reading
<1> QED
  BY <1>2, <1>3, <1>4, <1>5 DEF Flight

-----------------------------------------------------------------------------
(* Every step keeps the invariant.                                         *)

(* The invariant holds initially. *)
LEMMA InitInv == Init => AnswerInv
BY InitIInv, InitAnswer DEF AnswerInv

(* Every step keeps it. *)
LEMMA NextInv == AnswerInv /\ [Next]_vars => AnswerInv'
<1> SUFFICES ASSUME AnswerInv, [Next]_vars PROVE AnswerInv'
  OBVIOUS
<1>1. IInv'
  BY NextIInv DEF AnswerInv
<1>2. ASSUME phase' \notin {"idle", "sent"} PROVE Before'
  BY <1>2 DEF Before
<1>3. CASE UNCHANGED vars
  <2>1. UNCHANGED <<phase, exch, odd, answers, buf, wire, eof, frames, result, said>> /\ xch' = xch
    BY <1>3 DEF vars, xch
  <2>2. Before'
    BY <2>1 DEF AnswerInv, Before, Quiet
  <2>3. Told'
    <3>1. FailsByCause'
      BY <2>1 DEF AnswerInv, Told, FailsByCause, Writable
    <3>2. UnofferedVersion' <=> UnofferedVersion
      BY <2>1 DEF UnofferedVersion
    <3>3. HonestAnswer'
      BY <2>1, <3>2 DEF AnswerInv, Told, HonestAnswer, MeantBy, Writable
    <3>4. NeverForged'
      BY <2>1 DEF AnswerInv, Told, NeverForged, Reads
    <3> QED
      BY <3>1, <3>3, <3>4 DEF Told
  <2>4. \A g : Flight(g) => Flight(g)'
    <3> SUFFICES ASSUME NEW g, Flight(g) PROVE Flight(g)'
      OBVIOUS
    <3>1. (Alone(g) <=> Alone(g)') /\ (Paired(g) <=> Paired(g)')
      BY <2>1, SameFrames
    <3>2. First' = First /\ Stream' = Stream /\ (Quiet' <=> Quiet) /\ (HalfWay' <=> HalfWay) /\ Cells(g)' = Cells(g)
      BY <2>1, KeptFrames DEF Kept, Stream
    <3>3. \A n : Sound(Stream, n) => Sound(Stream, n)'
      BY <2>1, <3>2 DEF Sound
    <3> QED
      BY <2>1, <3>1, <3>2, <3>3 DEF Flight
  <2>5. (\E g : Flight(g)) => (\E g : Flight(g))'
    BY <2>4
  <2>6. Reading'
    BY <2>1, <2>5 DEF AnswerInv, Reading, Quiet
  <2> QED
    BY <1>1, <2>2, <2>3, <2>6 DEF AnswerInv
<1>4. CASE \E name \in DOMAIN Exchanges : Call(name)
  BY <1>1, <1>4, CallAnswer DEF AnswerInv
<1>5. CASE Heartbeat
  BY <1>1, <1>5, HeartbeatAnswer DEF AnswerInv
<1>6. CASE ServerReads
  BY <1>1, <1>6, ServerReadsAnswer DEF AnswerInv
<1>7. CASE ServerAnswers
  <2>1. phase' = "read"
    BY <1>7 DEF ServerAnswers
  <2>2. Told'
    BY <2>1 DEF Told, FailsByCause, HonestAnswer, NeverForged
  <2> QED
    BY <1>1, <1>2, <1>7, <2>1, <2>2, AnswersSent DEF AnswerInv
<1>8. CASE Corrupts
  <2>1. phase' = "read"
    BY <1>8 DEF Corrupts
  <2>2. Told'
    BY <2>1 DEF Told, FailsByCause, HonestAnswer, NeverForged
  <2> QED
    BY <1>1, <1>2, <1>8, <2>1, <2>2, CorruptsAnswer DEF AnswerInv
<1>9. CASE HangsUp
  <2>1. phase' = "read"
    BY <1>9 DEF HangsUp
  <2>2. Told'
    BY <2>1 DEF Told, FailsByCause, HonestAnswer, NeverForged
  <2> QED
    BY <1>1, <1>2, <1>9, <2>1, <2>2, HangsUpAnswer DEF AnswerInv
<1>10. CASE Recv
  <2>1. phase' \in {"read", "done"}
    BY <1>10 DEF Recv, ConnectionLost, Ends
  <2> QED
    BY <1>1, <1>2, <1>10, <2>1, RecvAnswer DEF AnswerInv
<1>11. CASE BadFrame
  <2>1. phase' = "done"
    BY <1>11 DEF BadFrame, ConnectionLost, Ends
  <2> QED
    BY <1>1, <1>2, <1>11, <2>1, BadFrameAnswer DEF AnswerInv
<1>12. CASE TakeFrame
  <2>1. phase' \in {"read", "done"}
    BY <1>12 DEF TakeFrame, Collect, NextEvent, Ends
  <2> QED
    BY <1>1, <1>2, <1>12, <2>1, TakeFrameAnswer DEF AnswerInv
<1>13. CASE Return
  <2>1. phase' = "idle"
    BY <1>13 DEF Return
  <2>2. Told'
    BY <2>1 DEF Told, FailsByCause, HonestAnswer, NeverForged
  <2>3. Before'
    BY <1>13 DEF Return, Before, Quiet
  <2>4. Reading'
    BY <2>1 DEF Reading
  <2> QED
    BY <1>1, <2>2, <2>3, <2>4 DEF AnswerInv
<1>14. CASE WriteFails
  BY <1>1, <1>14, WriteFailsAnswer DEF AnswerInv
<1>15. CASE Timeout
  BY <1>1, <1>15, TimeoutAnswer DEF AnswerInv
<1> QED
  BY <1>3, <1>4, <1>5, <1>6, <1>7, <1>8, <1>9, <1>10, <1>11, <1>12, <1>13, <1>14, <1>15 DEF Next

(* It holds in every reachable state. *)
LEMMA Invariance == Spec => []AnswerInv
BY InitInv, NextInv, PTL DEF Spec

-----------------------------------------------------------------------------
(* Types.                                                                  *)

(* TypeOK without what it says of heard, which follows. *)
Shape ==
  /\ phase \in Phases /\ session \in {"new", "welcomed", "open"} /\ exch \in DOMAIN Exchanges
  /\ odd.kind \in OddKinds /\ said.class \in DOMAIN Classes \cup {""}
  /\ eof \in BOOLEAN /\ result.outcome \in Failures \cup {"none", "ok"}

(* Shape is what TypeOK needs beside the invariant. *)
LEMMA ShapeTypes == IInv /\ Shape => TypeOK
<1> SUFFICES ASSUME IInv, Shape PROVE \A f \in DOMAIN heard.value : heard.value[f] \in Values
  BY DEF Shape, TypeOK
<1>1. CASE heard = Nothing
  <2>1. heard.value = <<>>
    BY <1>1 DEF Nothing, Message
  <2>2. DOMAIN heard.value = {}
    BY <2>1
  <2> QED
    BY <2>2
<1>2. CASE phase \in {"read", "done"} /\ heard = MeantBy(said)
  <2> DEFINE C == Classes[said.class]
  <2>1. said.value \in ValuesOf(C)
    BY <1>2 DEF IInv, SaidTyped
  <2>2. heard.value = [f \in DOMAIN C |-> Rounded(C[f], said.value[f])]
    BY <1>2 DEF MeantBy, Message, Meant
  <2>3. \A f \in DOMAIN C : said.value[f] \in Values
    BY <2>1 DEF ValuesOf
  <2> HIDE DEF C
  <2> QED
    BY <2>2, <2>3 DEF Rounded, Values
<1> QED
  BY <1>1, <1>2 DEF Shape, Phases, IInv, Arrived, Unsent

(* It holds initially. *)
LEMMA InitTyped == Init => Shape
<1> SUFFICES ASSUME Init PROVE Shape
  OBVIOUS
<1>1. odd.kind = "none"
  BY DEF Init, Usual, Odd
<1>2. said.class = "" /\ result.outcome = "none"
  BY DEF Init, Nothing, Message, Pending
<1> QED
  BY <1>1, <1>2, NamesAssumption DEF Init, Shape, Phases, OddKinds

(* The kinds of odd answers. *)
LEMMA OddAnswers ==
  ASSUME ServerAnswers, odd.kind \in OddKinds
  PROVE  odd'.kind \in OddKinds
<1>1. odd' = odd \/ \E k \in OddKinds : \E f : odd' = Odd(k, f)
  <2>1. CASE AnswersPlainly
    BY <2>1 DEF AnswersPlainly, OddKinds
  <2>2. CASE AnswersVariously
    BY <2>2 DEF AnswersVariously, OddKinds
  <2>3. CASE AnswersWrongly
    <3>1. \A k : Harm(k) \subseteq OddKinds
      BY DEF Harm, OddKinds
    <3>2. {"opcode", "twice", "trailing", "notmap"} \subseteq OddKinds
      BY DEF OddKinds
    <3> HIDE DEF OddKinds
    <3> QED
      BY <2>3, <3>1, <3>2 DEF AnswersWrongly
  <2> QED
    BY <2>1, <2>2, <2>3 DEF ServerAnswers
<1>2. \A k, f : Odd(k, f).kind = k
  BY DEF Odd
<1> QED
  BY <1>1, <1>2

(* How an exchange ends. *)
LEMMA EndsTyped ==
  ASSUME NEW r, NEW fatal \in BOOLEAN, Ends(r, fatal), r.outcome \in Failures \cup {"none", "ok"},
         session \in {"new", "welcomed", "open"}
  PROVE  /\ phase' = "done" /\ session' \in {"new", "welcomed", "open"}
         /\ result'.outcome \in Failures \cup {"none", "ok"}
BY DEF Ends

(* While an answer is read, the caller has no outcome yet. *)
LEMMA ReadingResult ==
  ASSUME Reading, phase = "read"
  PROVE  \E v : result = [outcome |-> "none", values |-> v]
BY DEF Reading, Flight, Quiet, HalfWay, Pending

(* A lost connection ends the call in a failure that exists. *)
LEMMA LostTyped ==
  ASSUME Reading, phase = "read", NEW exc, ConnectionLost(exc), session \in {"new", "welcomed", "open"}
  PROVE  /\ phase' = "done" /\ session' \in {"new", "welcomed", "open"}
         /\ result'.outcome \in Failures \cup {"none", "ok"}
<1>1. PICK v : result = [outcome |-> "none", values |-> v]
  BY ReadingResult
<1>2. PICK r : r \in {[result EXCEPT !.outcome = "ok"], Raised(FailError(exc))} /\ Ends(r, TRUE)
  BY DEF ConnectionLost
<1>3. [result EXCEPT !.outcome = "ok"].outcome = "ok" /\ Raised(FailError(exc)).outcome = FailError(exc)
  BY <1>1 DEF Raised
<1>4. r.outcome \in Failures \cup {"none", "ok"}
  BY <1>2, <1>3 DEF FailError, Failures, BrainErrors
<1> QED
  BY <1>2, <1>4, EndsTyped

(* A frame taken leaves the call reading, or done with an outcome that exists. *)
LEMMA TakeFrameTyped ==
  ASSUME Reading, TakeFrame, session \in {"new", "welcomed", "open"}
  PROVE  /\ phase' \in {"read", "done"} /\ session' \in {"new", "welcomed", "open"}
         /\ result'.outcome \in Failures \cup {"none", "ok"}
<1> DEFINE Fit(r) == r.outcome \in Failures \cup {"none", "ok"}
<1>1. phase = "read"
  BY DEF TakeFrame
<1>2. PICK v : result = [outcome |-> "none", values |-> v]
  BY <1>1, ReadingResult
<1>3. PICK f : /\ f = DecodeFrame(buf).frame
               /\ \/ Ends(ServerErrorOf(f), FALSE)
                  \/ Ends(Negotiated(Accept(f)), FALSE)
                  \/ NextEvent(f)
                  \/ Collect(f)
  BY DEF TakeFrame
<1>4. \A e \in Failures : Fit(Raised(e))
  BY DEF Raised
<1>5. {"ok", "CborError", "TypeError", "FieldError"} \subseteq Failures \cup {"none", "ok"}
      /\ {"ProtocolError", "VersionMismatch", "ServerError", "TypeError"} \subseteq Failures
  BY DEF Failures, BrainErrors
<1>6. \A root, p : Fit(DecodePayload(root, p))
  BY <1>5, DecodeOutcome
<1>7. \A g : Fit(Accept(g))
  BY <1>4, <1>5, <1>6 DEF Accept
<1>8. Fit(ServerErrorOf(f))
  BY <1>4, <1>5, <1>6 DEF ServerErrorOf
<1>9. Fit(Negotiated(Accept(f)))
  BY <1>4, <1>5, <1>7 DEF Negotiated
<1>10. \A fs : Fit(Verdict(fs))
  BY <1>4, <1>5, <1>7 DEF Verdict
<1>11. \A w : Fit([outcome |-> "ok", values |-> w]) /\ Fit([outcome |-> "none", values |-> w])
  OBVIOUS
<1>12. [result EXCEPT !.outcome = "ok"] = [outcome |-> "ok", values |-> v]
  BY <1>2
<1>13. \A w : [result EXCEPT !.values = w] = [outcome |-> "none", values |-> w]
  BY <1>2
<1> HIDE DEF Fit
<1>14. ASSUME NEW r, Ends(r, FALSE), Fit(r)
       PROVE  phase' \in {"read", "done"} /\ session' \in {"new", "welcomed", "open"} /\ Fit(result')
  BY <1>14, EndsTyped DEF Fit
<1>15. phase' \in {"read", "done"} /\ session' \in {"new", "welcomed", "open"} /\ Fit(result')
  <2>1. CASE Ends(ServerErrorOf(f), FALSE)
    BY <1>8, <1>14, <2>1
  <2>2. CASE Ends(Negotiated(Accept(f)), FALSE)
    BY <1>9, <1>14, <2>2
  <2>3. CASE Collect(f)
    <3>1. Fit(result)
      BY <1>2, <1>11
    <3>2. \/ Ends(Verdict(frames'), FALSE)
          \/ UNCHANGED <<phase, session, result>>
      BY <2>3 DEF Collect
    <3> QED
      BY <1>1, <1>10, <1>14, <3>1, <3>2
  <2>4. CASE NextEvent(f)
    <3> DEFINE read == DecodePayload(xch.answers, f.payload)
    <3>1. \/ Ends([result EXCEPT !.outcome = "ok"], FALSE)
          \/ Ends(read, FALSE)
          \/ Ends([outcome |-> "ok", values |-> result.values \o read.values], FALSE)
          \/ result' = [result EXCEPT !.values = @ \o read.values] /\ UNCHANGED <<phase, session>>
      BY <2>4 DEF NextEvent
    <3>2. Fit(read)
      BY <1>6
    <3> HIDE DEF read
    <3>3. CASE Ends([result EXCEPT !.outcome = "ok"], FALSE)
      BY <1>11, <1>12, <1>14, <3>3
    <3>4. CASE Ends(read, FALSE)
      BY <1>14, <3>2, <3>4
    <3>5. CASE Ends([outcome |-> "ok", values |-> result.values \o read.values], FALSE)
      BY <1>11, <1>14, <3>5
    <3>6. CASE result' = [result EXCEPT !.values = @ \o read.values] /\ UNCHANGED <<phase, session>>
      BY <1>1, <1>11, <1>13, <3>6
    <3> QED
      BY <3>1, <3>3, <3>4, <3>5, <3>6
  <2> QED
    BY <1>3, <2>1, <2>2, <2>3, <2>4
<1> QED
  BY <1>15 DEF Fit

(* Every step keeps them. *)
LEMMA NextTyped ==
  ASSUME AnswerInv, AnswerInv', Shape, [Next]_vars
  PROVE  Shape'
<1>1. IInv' /\ Reading
  BY DEF AnswerInv
(* While an answer is read only these change. *)
<1>2. ASSUME phase = "read", phase' \in {"read", "done"}, session' \in {"new", "welcomed", "open"},
             UNCHANGED <<exch, said, heard>>, odd'.kind \in OddKinds, eof' \in BOOLEAN,
             result'.outcome \in Failures \cup {"none", "ok"}
      PROVE  Shape'
  BY <1>2 DEF Shape, Phases
<1>3. CASE UNCHANGED vars
  BY <1>3 DEF vars, Shape
<1>4. ASSUME NEW name \in DOMAIN Exchanges, Call(name) PROVE Shape'
  <2>1. phase = "idle" /\ exch' = name /\ UNCHANGED <<session, heard, eof>> /\ phase' \in {"sent", "done"}
    BY <1>4 DEF Call
  <2>2. odd'.kind \in OddKinds
    <3>1. odd' = Usual \/ odd' = Odd("value", "")
      BY <1>4 DEF Call
    <3>2. Usual.kind = "none" /\ Odd("value", "").kind = "value"
      BY DEF Usual, Odd
    <3> QED
      BY <3>1, <3>2 DEF OddKinds
  <2>3. said'.class \in DOMAIN Classes
    BY <1>1, <2>1 DEF IInv, SaidTyped
  <2>4. \/ phase' = "sent" /\ result' = result
        \/ phase' = "done" /\ result' = Raised("OverflowError")
    BY <1>4 DEF Call
  <2>5. Raised("OverflowError").outcome = "OverflowError"
    BY DEF Raised
  <2>6. result'.outcome \in Failures \cup {"none", "ok"}
    BY <2>4, <2>5 DEF Shape, Failures
  <2> QED
    BY <2>1, <2>2, <2>3, <2>6 DEF Shape, Phases
<1>5. CASE Heartbeat
  <2>1. phase = "idle" /\ phase' = "sent" /\ exch' = "pong" /\ "pong" \in DOMAIN Exchanges
        /\ UNCHANGED <<session, heard, eof, result>>
    BY <1>5 DEF Heartbeat
  <2>2. odd'.kind \in OddKinds
    <3>1. odd' = Odd("notmap", "") \/ odd' = Odd("value", "")
      BY <1>5 DEF Heartbeat
    <3>2. Odd("notmap", "").kind = "notmap" /\ Odd("value", "").kind = "value"
      BY DEF Odd
    <3> QED
      BY <3>1, <3>2 DEF OddKinds
  <2>3. said'.class \in DOMAIN Classes
    BY <1>1, <2>1 DEF IInv, SaidTyped
  <2> QED
    BY <2>1, <2>2, <2>3 DEF Shape, Phases
<1>6. CASE ServerReads
  <2>1. phase = "sent" /\ UNCHANGED <<exch, odd, said, eof>>
    BY <1>6 DEF ServerReads
  <2>2. \/ /\ phase' = "done" /\ result' = [outcome |-> "ok", values |-> <<>>]
           /\ session' \in {"new", session}
        \/ phase' = "read" /\ UNCHANGED <<result, session>>
    BY <1>6 DEF ServerReads
  <2>3. result'.outcome \in {"ok", result.outcome}
    BY <2>2
  <2> QED
    BY <2>1, <2>2, <2>3 DEF Shape, Phases
<1>7. CASE ServerAnswers
  <2>1. phase = "read" /\ UNCHANGED <<phase, session, exch, said, heard, eof, result>>
    BY <1>7 DEF ServerAnswers
  <2>2. odd'.kind \in OddKinds
    BY <1>7, OddAnswers DEF Shape
  <2> QED
    BY <1>2, <2>1, <2>2 DEF Shape
<1>8. CASE Corrupts
  <2>1. phase = "read" /\ UNCHANGED <<phase, session, exch, said, heard, eof, result>> /\ odd' = Odd("corrupt", "")
    BY <1>8 DEF Corrupts
  <2>2. odd'.kind \in OddKinds
    BY <2>1 DEF Odd, OddKinds
  <2> QED
    BY <1>2, <2>1, <2>2 DEF Shape
<1>9. CASE HangsUp
  <2>1. phase = "read" /\ UNCHANGED <<phase, session, exch, said, heard, result>> /\ eof' = TRUE
        /\ odd' \in {Odd("hangup", ""), Odd("reset", "")}
    BY <1>9 DEF HangsUp
  <2>2. odd'.kind \in OddKinds
    <3>1. Odd("hangup", "").kind = "hangup" /\ Odd("reset", "").kind = "reset"
      BY DEF Odd
    <3> QED
      BY <2>1, <3>1 DEF OddKinds
  <2> QED
    BY <1>2, <2>1, <2>2 DEF Shape
<1>10. CASE Recv \/ BadFrame
  <2>1. phase = "read" /\ UNCHANGED <<exch, odd, said, heard, eof>>
        /\ ((\E exc : ConnectionLost(exc)) \/ UNCHANGED <<phase, session, result>>)
    BY <1>10 DEF Recv, BadFrame
  <2>2. /\ phase' \in {"read", "done"} /\ session' \in {"new", "welcomed", "open"}
        /\ result'.outcome \in Failures \cup {"none", "ok"}
    BY <1>1, <2>1, LostTyped DEF Shape
  <2> QED
    BY <1>2, <2>1, <2>2 DEF Shape
<1>11. CASE TakeFrame
  <2>1. phase = "read" /\ UNCHANGED <<exch, odd, said, heard, eof>>
    BY <1>11 DEF TakeFrame
  <2>2. /\ phase' \in {"read", "done"} /\ session' \in {"new", "welcomed", "open"}
        /\ result'.outcome \in Failures \cup {"none", "ok"}
    BY <1>1, <1>11, TakeFrameTyped DEF Shape
  <2> QED
    BY <1>2, <2>1, <2>2 DEF Shape
<1>12. CASE Return
  <2>1. /\ phase' = "idle" /\ exch' = "hello" /\ odd' = Usual /\ said' = Nothing /\ heard' = Nothing
        /\ eof' = FALSE /\ result' = Pending /\ session' \in {"new", session}
    BY <1>12 DEF Return
  <2>2. Usual.kind = "none" /\ Nothing.class = "" /\ Pending.outcome = "none"
    BY DEF Usual, Odd, Nothing, Message, Pending
  <2>3. odd'.kind = "none" /\ said'.class = "" /\ result'.outcome = "none"
    BY <2>1, <2>2
  <2> QED
    BY <2>1, <2>3, NamesAssumption DEF Shape, Phases, OddKinds
<1>13. CASE WriteFails
  <2>1. /\ UNCHANGED <<exch, said, eof>> /\ odd' \in {Odd("reset", ""), Odd("oversize", "")}
        /\ \E e \in {"OSError", "ProtocolError"}, fatal \in BOOLEAN : Ends(Raised(e), fatal)
    BY <1>13 DEF WriteFails
  <2>2. odd'.kind \in OddKinds
    <3>1. Odd("reset", "").kind = "reset" /\ Odd("oversize", "").kind = "oversize"
      BY DEF Odd
    <3> QED
      BY <2>1, <3>1 DEF OddKinds
  <2>3. \A e \in {"OSError", "ProtocolError"} : Raised(e).outcome \in Failures
    BY DEF Raised, Failures, BrainErrors
  <2>4. /\ phase' = "done" /\ session' \in {"new", "welcomed", "open"}
        /\ result'.outcome \in Failures \cup {"none", "ok"}
    BY <2>1, <2>3, EndsTyped DEF Shape
  <2> QED
    BY <2>1, <2>2, <2>4 DEF Shape, Phases
<1>14. CASE Timeout
  <2>1. /\ phase = "read" /\ UNCHANGED <<exch, said, heard, eof>> /\ odd' = Odd("late", "")
        /\ Ends(Raised("BrainTimeout"), FALSE)
    BY <1>14 DEF Timeout
  <2>2. odd'.kind \in OddKinds
    BY <2>1 DEF Odd, OddKinds
  <2>3. Raised("BrainTimeout").outcome \in Failures
    BY DEF Raised, Failures, BrainErrors
  <2>4. /\ phase' = "done" /\ session' \in {"new", "welcomed", "open"}
        /\ result'.outcome \in Failures \cup {"none", "ok"}
    BY <2>1, <2>3, EndsTyped DEF Shape
  <2> QED
    BY <1>2, <2>1, <2>2, <2>4 DEF Shape
<1> QED
  BY <1>3, <1>4, <1>5, <1>6, <1>7, <1>8, <1>9, <1>10, <1>11, <1>12, <1>13, <1>14 DEF Next

-----------------------------------------------------------------------------
(* Results.                                                                *)

(* Every reachable state is well-typed: a call ends in a result or in one of
   the exceptions the code raises to a caller.  A FrameError of the codec is
   none of them: _fail_all makes it a ConnectionClosed. *)
THEOREM CallsTyped == Spec => []TypeOK
<1>1. Init => Shape
  BY InitTyped
<1>2. AnswerInv /\ AnswerInv' /\ Shape /\ [Next]_vars => Shape'
  BY NextTyped
<1>3. AnswerInv /\ Shape => TypeOK
  BY ShapeTypes DEF AnswerInv
<1> QED
  BY <1>1, <1>2, <1>3, Invariance, PTL DEF Spec

(* The exception tells the cause, as is_retryable needs it to: a hang-up, a
   reset, a damaged frame or a deadline that keeps the answer from the caller
   raises a ConnectionClosed, an OSError or a BrainTimeout (or ends a
   subscription), and nothing else does.  What the protocol, the server or the
   handshake refuses is a BrainError; a reset, and a payload the server got
   wrong, are not (_fail_all, from_map). *)
THEOREM FailuresByCause == Spec => []FailsByCause
<1>1. AnswerInv => FailsByCause
  BY DEF AnswerInv, Told
<1> QED
  BY <1>1, Invariance, PTL

(* An exchange in which nothing goes wrong gives the caller the whole answer
   in order, however the bytes are cut into reads (read_frame), and an ERROR
   frame is raised even after a part of the answer (request, _streamed). *)
THEOREM AnswersHonest == Spec => []HonestAnswer
<1>1. AnswerInv => HonestAnswer
  BY DEF AnswerInv, Told
<1> QED
  BY <1>1, Invariance, PTL

(* What a caller accepts the server sent: no damaged frame, short stream,
   foreign opcode, extra frame or trailing bytes come back as an answer
   (decode_frame, request_one, decode_payload, Subscription.next). *)
THEOREM NothingForged == Spec => []NeverForged
<1>1. AnswerInv => NeverForged
  BY DEF AnswerInv, Told
<1> QED
  BY <1>1, Invariance, PTL
=============================================================================
