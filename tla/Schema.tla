-------------------------------- MODULE Schema -------------------------------
(***************************************************************************)
(* The conventions by which the dataclasses of wire/types.py write         *)
(* themselves into a CBOR map (to_map) and read themselves back            *)
(* (from_map).  Each field of each class follows one of a few conventions; *)
(* the payload modules list, class by class, which.                        *)
(*                                                                         *)
(* A field's value is reduced to what the conventions tell apart: "none"   *)
(* is None, "dflt" the falsy or default value the reader would supply,     *)
(* "val" any other value, "fine" a float a single cannot hold exactly and  *)
(* "huge" one beyond a single's range.  A nested payload is "val".  In the *)
(* map a key may also be "absent", carry "null", carry a "bad" nested item *)
(* (one of the wrong CBOR type), or an externally tagged value whose tag is*)
(* "unknown" to this release.  The order of the keys and the bytes of a    *)
(* value are abstracted away.                                              *)
(***************************************************************************)
EXTENDS TLC

Values == {"none", "dflt", "val", "fine", "huge"}
Items == {"absent", "null", "bad", "unknown", "dflt", "val", "fine", "huge"}

(* A convention: may the value be None; when is the key left out; what does *)
(* a missing key read as; what is done with the item; the nested class.     *)
Convention == [optional : BOOLEAN,
               write : {"always", "unlessNone", "unlessFalsy"},
               read : {"strict", "none", "dflt"},
               as : {"raw", "bool", "int", "list", "f32", "f32s", "f64", "double", "sub"},
               of : STRING]

Leaf(S, optional, write, read, as) ==
  [f \in S |-> [optional |-> optional, write |-> write, read |-> read, as |-> as, of |-> ""]]

Nested(classOf, optional, write, read) ==
  [f \in DOMAIN classOf |-> [optional |-> optional, write |-> write, read |-> read,
                             as |-> "sub", of |-> classOf[f]]]

(* {"k": self.k}, m["k"]; the same through list(), round_f32, mark_f64.     *)
Req(S)      == Leaf(S, FALSE, "always", "strict", "raw")
List(S)     == Leaf(S, FALSE, "always", "strict", "list")
F32(S)      == Leaf(S, FALSE, "always", "strict", "f32")
F32s(S)     == Leaf(S, FALSE, "always", "strict", "f32s")
F64(S)      == Leaf(S, FALSE, "always", "strict", "f64")
(* A plain Python float, which cbor2 writes as a double.                    *)
Double(S)   == Leaf(S, FALSE, "always", "strict", "double")
Sub(r)      == Nested(r, FALSE, "always", "strict")
(* None is written as null, and the key must be there.                      *)
Nul(S)      == Leaf(S, TRUE, "always", "strict", "raw")
NulList(S)  == Leaf(S, TRUE, "always", "strict", "list")
NulF32(S)   == Leaf(S, TRUE, "always", "strict", "f32")
NulSub(r)   == Nested(r, TRUE, "always", "strict")
(* None is written as null, and a missing key reads as None too.            *)
Get(S)      == Leaf(S, TRUE, "always", "none", "raw")
GetList(S)  == Leaf(S, TRUE, "always", "none", "list")
GetSub(r)   == Nested(r, TRUE, "always", "none")
(* Always written, but a missing key reads as the default.                  *)
Tol(S)      == Leaf(S, FALSE, "always", "dflt", "raw")
TolBool(S)  == Leaf(S, FALSE, "always", "dflt", "bool")
TolList(S)  == Leaf(S, FALSE, "always", "dflt", "list")
TolSub(r)   == Nested(r, FALSE, "always", "dflt")
(* Left out when None: `if self.k is not None`, m.get("k").                 *)
Opt(S)      == Leaf(S, TRUE, "unlessNone", "none", "raw")
OptList(S)  == Leaf(S, TRUE, "unlessNone", "none", "list")
OptSub(r)   == Nested(r, TRUE, "unlessNone", "none")
(* Left out when falsy: `if self.k`, m.get("k", default).                   *)
DefInt(S)   == Leaf(S, FALSE, "unlessFalsy", "dflt", "int")
DefBool(S)  == Leaf(S, FALSE, "unlessFalsy", "dflt", "bool")
DefList(S)  == Leaf(S, FALSE, "unlessFalsy", "dflt", "list")
DefF32s(S)  == Leaf(S, FALSE, "unlessFalsy", "dflt", "f32s")
DefSub(r)   == Nested(r, FALSE, "unlessFalsy", "dflt")

(* The externally tagged classes: the payload classes their tags carry, and *)
(* what from_cbor_value makes of a tag it does not know.  "kept" stores the *)
(* tag as it came; EvidenceRef reads every tag but Inline as Overflow.      *)
Tagged(carries, unknown) == [carries |-> carries, unknown |-> unknown]

AuthVariants == [AuthCredentials |-> Tagged({"MtlsClaim"}, "refused")]

StatementVariants == [StatementObject |-> Tagged({"StatementValue"}, "kept"),
                      EvidenceRef |-> Tagged({}, "misread")]

RetrieverVariants == [RetrieverSelection |-> Tagged({}, "refused")]

PlanVariants == [PlanState |-> Tagged({}, "kept"), TransitionKind |-> Tagged({}, "kept")]

ReasonVariants == [ObservationInput |-> Tagged({}, "kept"), InferenceKind |-> Tagged({}, "kept")]

StageVariants == [
  StagePayload |-> Tagged({"StageAutoEdgePayload", "StageTemporalEdgePayload",
      "StageExtractorPayload", "StageHypePayload"}, "refused")]

GraphEventVariants == [
  GraphEventPayload |-> Tagged({"EntityCreatedEvent", "EntityUpdatedEvent", "EntityRenamedEvent",
      "EntityMergedEvent", "EntityUnmergedEvent", "EntityTombstonedEvent",
      "StatementCreatedEvent", "StatementSupersededEvent", "StatementTombstonedEvent",
      "RelationCreatedEvent", "RelationSupersededEvent", "RelationTombstonedEvent",
      "SchemaUpdatedEvent"}, "refused")]

VariantTables == {AuthVariants, StatementVariants, RetrieverVariants, PlanVariants, ReasonVariants,
                  StageVariants, GraphEventVariants}

Variants == [t \in UNION {DOMAIN table : table \in VariantTables} |->
               (CHOOSE table \in VariantTables : t \in DOMAIN table)[t]]

(* The values a field of convention k can hold.                             *)
Domain(k) ==
  {"dflt", "val"} \cup (IF k.optional THEN {"none"} ELSE {})
                  \cup (IF k.as \in {"f32", "f32s", "f64", "double"} THEN {"fine", "huge"} ELSE {})

(* round_f32: an f32 field goes through single precision.                   *)
Rounded(k, v) == IF v = "fine" /\ k.as \in {"f32", "f32s"} THEN "val" ELSE v

(* Mutation of Write: None is left out of the map everywhere.               *)
WriteDropsNone(k, v) ==
  CASE v = "none" -> "absent"
    [] v = "dflt" -> IF k.write = "unlessFalsy" THEN "absent" ELSE "dflt"
    [] OTHER -> Rounded(k, v)

(* to_map, one field.                                                       *)
Write(k, v) ==
  CASE v = "none" -> IF k.write = "unlessNone" THEN "absent" ELSE "null"
    [] v = "dflt" -> IF k.write = "unlessFalsy" THEN "absent" ELSE "dflt"
    [] OTHER -> Rounded(k, v)

(* from_map, one field.  "refused" stands for the KeyError, TypeError,      *)
(* ValueError or AttributeError that escapes it; a null read raw becomes    *)
(* None whether or not the field is optional.                               *)
Read(k, item) ==
  CASE item = "absent" -> IF k.read = "strict" THEN "refused" ELSE k.read
    [] item = "null" -> IF k.optional \/ k.as \in {"raw", "f32", "f64", "double"} THEN "none"
                        ELSE IF k.as = "bool" THEN "dflt" ELSE "refused"
    [] item = "bad" -> "refused"
    [] item = "unknown" -> Variants[k.of].unknown
    [] OTHER -> item

(* A float beyond a single's range raises OverflowError from struct.pack: in*)
(* round_f32, and in _shortest_float_bytes for a marked f64.  A plain float *)
(* never comes that way.                                                    *)
Encodable(class, v) == \A f \in DOMAIN v : v[f] = "huge" => class[f].as = "double"

(* The server keeps its f64 fields as doubles, and writes any of them.      *)
Sendable(class, v) == \A f \in DOMAIN v : v[f] = "huge" => class[f].as \in {"f64", "double"}

Encode(class, v) == [f \in DOMAIN class |-> Write(class[f], v[f])]
Decodes(class, m) == \A f \in DOMAIN class : Read(class[f], m[f]) # "refused"
Decode(class, m) == [f \in DOMAIN class |-> Read(class[f], m[f])]

(* What the receiver must find: the value, its f32 fields rounded.          *)
Meant(class, v) == [f \in DOMAIN class |-> Rounded(class[f], v[f])]

(* The convention's two halves agree: what is left out is read back as what *)
(* it was, and null is only written where it is read as None.               *)
Coherent(k) ==
  /\ k \in Convention
  /\ k.write = "unlessNone" => k.optional /\ k.read = "none"
  /\ k.write = "unlessFalsy" => ~k.optional /\ k.read = "dflt"

ValuesOf(class) == {v \in [DOMAIN class -> Values] : \A f \in DOMAIN class : v[f] \in Domain(class[f])}
=============================================================================
