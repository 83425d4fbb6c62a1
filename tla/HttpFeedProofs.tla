---------------------------- MODULE HttpFeedProofs ----------------------------
(***************************************************************************)
(* Proofs about HttpFeed: its typing, that no event is handed out twice    *)
(* over any number of drops and reconnects (NoReplay), and that a drop     *)
(* loses at most one (LosesAtMostOnePerDrop).  They hold for every number  *)
(* of events, connections and lines per read.                              *)
(*                                                                         *)
(* The argument is about the lines between the edge and the parser, in the *)
(* buffer or on the wire: which line may follow which, that the ids among  *)
(* them go up by one from the last id parsed, and where the parser stands  *)
(* in an event.                                                            *)
(***************************************************************************)
EXTENDS HttpFeed, SequenceTheorems, TLAPS

-----------------------------------------------------------------------------
(* The inductive invariant.                                                *)

(* The lines not yet parsed.                                               *)
Ahead == buf \o wire

(* Line b may come after line a of a response.                             *)
Follows(a, b) ==
  /\ a.field = "id" => b = Line("data", a.value)
  /\ a.field = "event" => b = Line("data", 0)
  /\ a.field = "comment" => b = Blank
  /\ a.field = "data" => b = Blank
  /\ a.field = "" => b.field \in {"id", "event", "comment"}

WellFormed(s) == \A i \in 1..Len(s) - 1 : Follows(s[i], s[i + 1])

(* The id lines go up by one; the first is one above c, which is 0 when it *)
(* is not known.                                                           *)
Climbing(s, c) ==
  \A i \in 1..Len(s) : s[i].field = "id" =>
    /\ s[i].value > 0
    /\ \A j \in 1..i - 1 : s[j].field = "id" => s[j].value < s[i].value
    /\ \/ /\ \A j \in 1..i - 1 : s[j].field # "id"
          /\ c # 0 => s[i].value = c + 1
       \/ \E j \in 1..i - 1 : s[j].field = "id" /\ s[j].value = s[i].value - 1

(* n is the id of the newest event of s, or of the one before s.           *)
Newest(s, c, n) ==
  /\ \A i \in 1..Len(s) : s[i].field = "id" => s[i].value <= n
  /\ \/ /\ \A i \in 1..Len(s) : s[i].field # "id"
        /\ c # 0 => n = c
     \/ \E i \in 1..Len(s) : s[i].field = "id" /\ s[i].value = n

(* The last id the caller has from this feed, or from the feeds before.    *)
Cur == IF last = 0 THEN resume ELSE last

(* The edge writes whole events: what is ahead of the parser ends with     *)
(* one, until the response ends.                                           *)
Edge ==
  /\ WellFormed(Ahead) /\ Climbing(Ahead, Cur)
  /\ ended = "no" =>
       /\ Newest(Ahead, Cur, pos)
       /\ Ahead = <<>> => event = "none" /\ data = <<>>
       /\ Ahead # <<>> => Ahead[Len(Ahead)] = Blank

(* Where the parser is in an event decides which line comes next.          *)
Parser ==
  /\ data # <<>> /\ event = "none" => data = <<last>> /\ last > 0
  /\ data # <<>> /\ event = "closed" => data = <<0>>
  /\ Ahead # <<>> =>
       /\ data # <<>> => Ahead[1] = Blank
       /\ data = <<>> /\ event = "closed" => Ahead[1] = Line("data", 0)
       /\ data = <<>> /\ event = "none" /\ Ahead[1].field = "data" =>
            Ahead[1].value = last /\ last > 0

(* The event of the last id has been begun and can still be handed out.    *)
Pending ==
  event = "none" /\ (data # <<>> \/ (Ahead # <<>> /\ Ahead[1].field = "data"))

(* Lines may still come after the ones parsed.                             *)
Live == Ahead # <<>> \/ ended = "no"

(* The caller has nothing newer than Cur, nor Cur itself when its event is *)
(* pending.                                                                *)
Known ==
  \A i \in 1..Len(handed) : /\ handed[i].lsn <= Cur
                            /\ Pending => handed[i].lsn < Cur

(* How far Cur is ahead of the caller: one event for each connection since,*)
(* and one more while its event is pending or when the response ended in   *)
(* the middle of it.                                                       *)
Behind ==
  handed # <<>> =>
    LET h == handed[Len(handed)] IN
    /\ Cur - h.lsn <= 1 + conn - h.conn
    /\ Live /\ ~Pending => Cur - h.lsn <= conn - h.conn

Core ==
  /\ TypeOK /\ Edge /\ Parser /\ Known /\ Behind /\ NoReplay /\ LosesAtMostOnePerDrop

(* A caller without a feed has kept its position.                          *)
Parked == pc = "stopped" => Cur = resume

IInv == Core /\ Parked

-----------------------------------------------------------------------------
(* Sequences, by their elements.                                           *)

Popped(s, t) == Len(t) = Len(s) - 1 /\ \A i \in 1..Len(t) : t[i] = s[i + 1]
Cut(s, t) == Len(t) <= Len(s) /\ \A i \in 1..Len(t) : t[i] = s[i]
Joined(s, f, t) ==
  /\ Len(t) = Len(s) + Len(f)
  /\ \A i \in 1..Len(s) : t[i] = s[i]
  /\ \A i \in 1..Len(f) : t[Len(s) + i] = f[i]

(* The length and the items of a sequence. *)
LEMMA LenIsNat ==
  ASSUME NEW S, NEW s \in Seq(S)
  PROVE  Len(s) \in Nat /\ (s = <<>> <=> Len(s) = 0) /\ \A i \in 1..Len(s) : s[i] \in S
OBVIOUS

(* Writing more appends to what is ahead. *)
LEMMA ConcatJoins ==
  ASSUME NEW S, NEW s \in Seq(S), NEW f \in Seq(S)
  PROVE  s \o f \in Seq(S) /\ Joined(s, f, s \o f)
BY DEF Joined

(* Taking a line from the buffer takes the first of what is ahead. *)
LEMMA ConcatPops ==
  ASSUME NEW S, NEW s \in Seq(S), NEW w \in Seq(S), s # <<>>
  PROVE  /\ Tail(s) \in Seq(S) /\ Head(s) \in S
         /\ Popped(s \o w, Tail(s) \o w)
         /\ s \o w # <<>> /\ (s \o w)[1] = Head(s)
BY DEF Popped

(* A response cut short leaves a front part of what was ahead. *)
LEMMA ConcatCuts ==
  ASSUME NEW S, NEW s \in Seq(S), NEW w \in Seq(S), NEW n \in 0..Len(w)
  PROVE  /\ SubSeq(w, 1, n) \in Seq(S)
         /\ Cut(s \o w, s \o SubSeq(w, 1, n))
BY DEF Cut

(* Two parts that agree with a whole make the whole. *)
LEMMA PartsJoin ==
  ASSUME NEW S, NEW a \in Seq(S), NEW b \in Seq(S), NEW w \in Seq(S),
         NEW n \in Nat, NEW k \in Nat, Len(a) = n, Len(b) = k, Len(w) = n + k,
         \A i \in 1..n : a[i] = w[i], \A i \in 1..k : b[i] = w[n + i]
  PROVE  a \o b = w
<1>1. a \o b \in Seq(S) /\ Len(a \o b) = n + k
  OBVIOUS
<1>2. ASSUME NEW i \in 1..(n + k) PROVE (a \o b)[i] = w[i]
  <2>1. CASE i <= n
    BY <2>1
  <2>2. CASE ~(i <= n)
    <3>1. (a \o b)[i] = b[i - n] /\ i - n \in 1..k /\ n + (i - n) = i
      BY <2>2
    <3> QED BY <3>1
  <2> QED BY <2>1, <2>2
<1> QED BY <1>1, <1>2, SeqEqual

(* A sequence is its first n items and the others. *)
LEMMA ConcatSame ==
  ASSUME NEW S, NEW w \in Seq(S), NEW n \in 0..Len(w)
  PROVE  /\ SubSeq(w, n + 1, Len(w)) \in Seq(S)
         /\ SubSeq(w, 1, n) \o SubSeq(w, n + 1, Len(w)) = w
<1> DEFINE a == SubSeq(w, 1, n)
           b == SubSeq(w, n + 1, Len(w))
           k == Len(w) - n
<1>1. /\ a \in Seq(S) /\ Len(a) = n
      /\ \A i \in 1..n : a[i] = w[i]
  OBVIOUS
<1>2. /\ b \in Seq(S) /\ Len(b) = k
      /\ \A i \in 1..k : b[i] = w[n + i]
  OBVIOUS
<1>3. n \in Nat /\ k \in Nat /\ Len(w) = n + k
  OBVIOUS
<1> HIDE DEF a, b, k
<1>4. a \o b = w
  BY <1>1, <1>2, <1>3, PartsJoin
<1> QED BY <1>2, <1>4 DEF a, b

(* The empty sequence adds nothing. *)
LEMMA EmptyConcat ==
  ASSUME NEW S, NEW w \in Seq(S)
  PROVE  <<>> \o w = w
OBVIOUS

(* Concatenation is associative. *)
LEMMA ConcatAgain ==
  ASSUME NEW S, NEW s \in Seq(S), NEW w \in Seq(S), NEW f \in Seq(S)
  PROVE  s \o (w \o f) = (s \o w) \o f
OBVIOUS

-----------------------------------------------------------------------------
(* What taking the first line, losing the last ones and writing more does  *)
(* to the shape of what is ahead.                                          *)

(* Without its first line, what is ahead is still well-formed. *)
LEMMA PopForm ==
  ASSUME NEW s \in Seq(Lines), NEW t \in Seq(Lines), s # <<>>, Popped(s, t), WellFormed(s)
  PROVE  WellFormed(t) /\ (t # <<>> => Follows(s[1], t[1]))
<1>1. Len(s) \in Nat /\ Len(t) \in Nat /\ Len(t) = Len(s) - 1 /\ Len(s) > 0
      /\ (t # <<>> => Len(t) > 0)
  BY LenIsNat DEF Popped
<1>2. \A i \in 1..Len(t) : t[i] = s[i + 1]
  BY DEF Popped
<1>3. \A i \in 1..Len(s) - 1 : Follows(s[i], s[i + 1])
  BY DEF WellFormed
<1> HIDE DEF Follows
<1>4. WellFormed(t)
  BY <1>1, <1>2, <1>3 DEF WellFormed
<1> QED BY <1>1, <1>2, <1>3, <1>4

(* Taking a line that is no id line keeps the ids ahead in their order. *)
LEMMA PopPlain ==
  ASSUME NEW s \in Seq(Lines), NEW t \in Seq(Lines), s # <<>>, Popped(s, t),
         s[1].field # "id", NEW c, NEW n, Climbing(s, c)
  PROVE  Climbing(t, c) /\ (Newest(s, c, n) => Newest(t, c, n))
<1>1. Len(s) \in Nat /\ Len(t) \in Nat /\ Len(t) = Len(s) - 1 /\ Len(s) > 0
  BY LenIsNat DEF Popped
<1>2. \A i \in 1..Len(t) : t[i] = s[i + 1] /\ i + 1 \in 1..Len(s)
  BY <1>1 DEF Popped
<1>3. \A i \in 1..Len(s) : s[i].field = "id" => i - 1 \in 1..Len(t) /\ t[i - 1] = s[i]
  BY <1>1, <1>2
<1>4. ASSUME NEW i \in 1..Len(t), t[i].field = "id"
      PROVE  /\ t[i].value > 0
             /\ \A j \in 1..i - 1 : t[j].field = "id" => t[j].value < t[i].value
             /\ \/ /\ \A j \in 1..i - 1 : t[j].field # "id"
                   /\ c # 0 => t[i].value = c + 1
                \/ \E j \in 1..i - 1 : t[j].field = "id" /\ t[j].value = t[i].value - 1
  <2>1. s[i + 1].field = "id" /\ i + 1 \in 1..Len(s) /\ t[i] = s[i + 1]
    BY <1>2, <1>4
  <2>2. /\ s[i + 1].value > 0
        /\ \A j \in 1..i : s[j].field = "id" => s[j].value < s[i + 1].value
        /\ \/ /\ \A j \in 1..i : s[j].field # "id"
              /\ c # 0 => s[i + 1].value = c + 1
           \/ \E j \in 1..i : s[j].field = "id" /\ s[j].value = s[i + 1].value - 1
    BY <2>1, <1>1 DEF Climbing
  <2>3. \A j \in 1..i - 1 : t[j] = s[j + 1] /\ j + 1 \in 1..i
    BY <1>1, <1>2
  <2>4. CASE \E j \in 1..i : s[j].field = "id" /\ s[j].value = s[i + 1].value - 1
    <3>1. PICK j \in 1..i : s[j].field = "id" /\ s[j].value = s[i + 1].value - 1
      BY <2>4
    <3>2. j - 1 \in 1..i - 1 /\ t[j - 1] = s[j]
      BY <1>1, <1>3, <3>1
    <3> QED BY <2>1, <2>2, <2>3, <3>1, <3>2
  <2>5. CASE (\A j \in 1..i : s[j].field # "id") /\ (c # 0 => s[i + 1].value = c + 1)
    BY <2>1, <2>2, <2>3, <2>5
  <2> QED BY <2>2, <2>4, <2>5
<1>5. Climbing(t, c)
  BY <1>4 DEF Climbing
<1>6. ASSUME Newest(s, c, n) PROVE Newest(t, c, n)
  BY <1>1, <1>2, <1>3, <1>6, SMTT(30) DEF Newest
<1> QED BY <1>5, <1>6

(* Taking an id line takes the id off those ahead. *)
LEMMA PopId ==
  ASSUME NEW s \in Seq(Lines), NEW t \in Seq(Lines), s # <<>>, Popped(s, t),
         s[1].field = "id", NEW c, NEW n, Climbing(s, c)
  PROVE  /\ s[1].value > 0 /\ (c # 0 => s[1].value = c + 1)
         /\ Climbing(t, s[1].value)
         /\ Newest(s, c, n) => Newest(t, s[1].value, n)
<1>0. MaxEvents \in Nat /\ \A i \in 1..Len(s) : s[i].value \in 0..MaxEvents
  <2>1. \A i \in 1..Len(s) : s[i] \in Lines
    OBVIOUS
  <2> QED BY <2>1, FeedBounds DEF Lines
<1>1. Len(s) \in Nat /\ Len(t) \in Nat /\ Len(t) = Len(s) - 1 /\ Len(s) > 0
  BY LenIsNat DEF Popped
<1>2. \A i \in 1..Len(t) : t[i] = s[i + 1] /\ i + 1 \in 1..Len(s)
  BY <1>1 DEF Popped
<1>3. \A i \in 1..Len(s) : i > 1 => i - 1 \in 1..Len(t) /\ t[i - 1] = s[i]
  BY <1>1, <1>2
<1>4. s[1].value > 0 /\ (c # 0 => s[1].value = c + 1)
  BY <1>1 DEF Climbing
<1>5. ASSUME NEW i \in 1..Len(t), t[i].field = "id"
      PROVE  /\ t[i].value > 0
             /\ \A j \in 1..i - 1 : t[j].field = "id" => t[j].value < t[i].value
             /\ \/ /\ \A j \in 1..i - 1 : t[j].field # "id"
                   /\ t[i].value = s[1].value + 1
                \/ \E j \in 1..i - 1 : t[j].field = "id" /\ t[j].value = t[i].value - 1
  <2>1. s[i + 1].field = "id" /\ i + 1 \in 1..Len(s) /\ t[i] = s[i + 1]
    BY <1>2, <1>5
  <2>2. /\ s[i + 1].value > 0
        /\ \A j \in 1..i : s[j].field = "id" => s[j].value < s[i + 1].value
        /\ \E j \in 1..i : s[j].field = "id" /\ s[j].value = s[i + 1].value - 1
    BY <2>1, <1>1 DEF Climbing
  <2>3. \A j \in 1..i - 1 : t[j] = s[j + 1] /\ j + 1 \in 1..i
    BY <1>1, <1>2
  <2>4. PICK j \in 1..i : s[j].field = "id" /\ s[j].value = s[i + 1].value - 1
    BY <2>2
  <2>5. CASE j = 1
    <3>1. \A m \in 1..i - 1 : t[m].field # "id"
      <4> SUFFICES ASSUME NEW m \in 1..i - 1, t[m].field = "id" PROVE FALSE
        OBVIOUS
      <4>1. m + 1 \in 1..Len(s) /\ m + 1 \in 1..i /\ s[m + 1].field = "id"
        BY <2>3, <1>1, <2>1
      <4>2. s[m + 1].value < s[i + 1].value
        BY <2>2, <4>1
      <4>3. s[1].value < s[m + 1].value
        BY <4>1, <1>1 DEF Climbing
      <4> QED BY <4>1, <4>2, <4>3, <2>4, <2>5, <2>1, <1>0
    <3>2. s[1].value \in Int /\ s[i + 1].value \in Int
      BY <1>0, <1>1, <2>1
    <3>3. t[i].value = s[1].value + 1
      BY <2>1, <2>4, <2>5, <3>2
    <3>4. \A m \in 1..i - 1 : t[m].field = "id" => t[m].value < t[i].value
      BY <3>1
    <3> QED BY <2>1, <2>2, <3>1, <3>3, <3>4
  <2>6. CASE j # 1
    <3>1. j - 1 \in 1..i - 1 /\ t[j - 1] = s[j]
      BY <1>1, <1>3, <2>6
    <3>2. \A m \in 1..i - 1 : t[m].field = "id" => t[m].value < t[i].value
      BY <2>1, <2>2, <2>3
    <3> QED BY <2>1, <2>2, <2>4, <3>1, <3>2
  <2> QED BY <2>5, <2>6
<1>6. Climbing(t, s[1].value)
  BY <1>5 DEF Climbing
<1>7. ASSUME Newest(s, c, n) PROVE Newest(t, s[1].value, n)
  <2>1. \A i \in 1..Len(t) : t[i].field = "id" => t[i].value <= n
    BY <1>2, <1>7 DEF Newest
  <2>2. PICK i \in 1..Len(s) : s[i].field = "id" /\ s[i].value = n
    BY <1>1, <1>7 DEF Newest
  <2>3. CASE i = 1
    <3>1. \A m \in 1..Len(t) : t[m].field # "id"
      <4> SUFFICES ASSUME NEW m \in 1..Len(t), t[m].field = "id" PROVE FALSE
        OBVIOUS
      <4>1. m + 1 \in 1..Len(s) /\ s[m + 1].field = "id" /\ s[m + 1].value <= n
        BY <1>2, <2>1
      <4>2. s[1].value < s[m + 1].value
        BY <4>1, <1>1 DEF Climbing
      <4>3. s[1].value \in Int /\ s[m + 1].value \in Int
        BY <1>0, <1>1, <4>1
      <4> QED BY <4>1, <4>2, <4>3, <2>2, <2>3
    <3> QED BY <3>1, <2>1, <2>2, <2>3 DEF Newest
  <2>4. CASE i # 1
    <3>1. i - 1 \in 1..Len(t) /\ t[i - 1] = s[i]
      BY <1>1, <1>3, <2>4
    <3> QED BY <2>1, <2>2, <3>1 DEF Newest
  <2> QED BY <2>3, <2>4
<1> QED BY <1>4, <1>6, <1>7

(* A front part of well-formed lines is well-formed. *)
LEMMA CutForm ==
  ASSUME NEW s \in Seq(Lines), NEW t \in Seq(Lines), Cut(s, t), WellFormed(s),
         NEW c, Climbing(s, c)
  PROVE  /\ WellFormed(t) /\ Climbing(t, c)
         /\ t # <<>> => s # <<>> /\ t[1] = s[1]
<1>1. Len(s) \in Nat /\ Len(t) \in Nat /\ Len(t) <= Len(s)
      /\ (t # <<>> => Len(t) > 0) /\ (s = <<>> => Len(s) = 0)
  BY LenIsNat DEF Cut
<1>2. \A i \in 1..Len(t) : t[i] = s[i] /\ i \in 1..Len(s)
  BY <1>1 DEF Cut
<1> HIDE DEF Follows
<1>3. WellFormed(t)
  BY <1>1, <1>2 DEF WellFormed
<1>4. Climbing(t, c)
  BY <1>1, <1>2, SMTT(30) DEF Climbing
<1> QED BY <1>1, <1>2, <1>3, <1>4

(* The blank line. *)
LEMMA BlankFields == Blank \in Lines /\ Blank.field = "" /\ Blank.value = 0
<1>1. Blank.field = "" /\ Blank.value = 0
  BY DEF Blank, Line
<1>2. 0 \in 0..MaxEvents
  BY FeedBounds
<1>3. Blank \in Lines
  BY <1>2 DEF Blank, Line, Lines
<1> QED BY <1>1, <1>3

(* More lines, the first of which starts an item.                          *)
LEMMA JoinForm ==
  ASSUME NEW s \in Seq(Lines), NEW f \in Seq(Lines), NEW t \in Seq(Lines),
         Joined(s, f, t), WellFormed(s), WellFormed(f), f # <<>>,
         s # <<>> => s[Len(s)] = Blank,
         f[1].field \in {"id", "event", "comment"}, f[Len(f)] = Blank
  PROVE  /\ WellFormed(t) /\ t # <<>> /\ t[Len(t)] = Blank
         /\ t[1] = IF s = <<>> THEN f[1] ELSE s[1]
<1>1. /\ Len(s) \in Nat /\ Len(f) \in Nat /\ Len(t) = Len(s) + Len(f) /\ Len(f) > 0
      /\ (s = <<>> <=> Len(s) = 0) /\ Len(t) \in Nat /\ t # <<>>
  BY LenIsNat DEF Joined
<1>2. /\ \A i \in 1..Len(s) : t[i] = s[i]
      /\ \A i \in 1..Len(f) : t[Len(s) + i] = f[i]
  BY DEF Joined
<1>3. t[Len(t)] = Blank
  BY <1>1, <1>2
<1>4. t[1] = IF s = <<>> THEN f[1] ELSE s[1]
  <2>1. CASE s = <<>>
    <3>1. t[0 + 1] = f[1]
      BY <1>1, <1>2, <2>1
    <3> QED BY <2>1, <3>1
  <2>2. CASE s # <<>>
    BY <1>1, <1>2, <2>2
  <2> QED BY <2>1, <2>2
<1>5. ASSUME NEW i \in 1..Len(t) - 1 PROVE Follows(t[i], t[i + 1])
  <2>1. CASE i < Len(s)
    <3>1. i \in 1..Len(s) - 1 /\ t[i] = s[i] /\ t[i + 1] = s[i + 1]
      BY <1>1, <1>2, <2>1
    <3> QED BY <3>1 DEF WellFormed
  <2>2. CASE i = Len(s)
    <3>1. t[i] = Blank
      BY <1>1, <1>2, <2>2
    <3>2. t[i + 1] = f[1]
      BY <1>1, <1>2, <2>2
    <3>3. t[i].field = ""
      BY <3>1, BlankFields
    <3> QED BY <3>2, <3>3 DEF Follows
  <2>3. CASE i > Len(s)
    <3> DEFINE k == i - Len(s)
    <3>1. k \in 1..Len(f) - 1 /\ i = Len(s) + k /\ i + 1 = Len(s) + (k + 1)
      BY <1>1, <2>3
    <3> HIDE DEF k
    <3>2. t[i] = f[k] /\ t[i + 1] = f[k + 1]
      BY <1>1, <1>2, <3>1
    <3> QED BY <3>1, <3>2 DEF WellFormed
  <2> QED BY <1>1, <2>1, <2>2, <2>3
<1>6. WellFormed(t)
  BY <1>5 DEF WellFormed
<1> QED BY <1>1, <1>3, <1>4, <1>6

(* An item without an id.                                                  *)
LEMMA JoinPlain ==
  ASSUME NEW s \in Seq(Lines), NEW f \in Seq(Lines), NEW t \in Seq(Lines),
         Joined(s, f, t), \A i \in 1..Len(f) : f[i].field # "id",
         NEW c, NEW n, Climbing(s, c), Newest(s, c, n)
  PROVE  Climbing(t, c) /\ Newest(t, c, n)
<1>1. Len(s) \in Nat /\ Len(f) \in Nat /\ Len(t) = Len(s) + Len(f)
  BY LenIsNat DEF Joined
<1>2. /\ \A i \in 1..Len(s) : t[i] = s[i] /\ i \in 1..Len(t)
      /\ \A i \in 1..Len(f) : t[Len(s) + i] = f[i]
  BY <1>1 DEF Joined
<1>3. ASSUME NEW i \in 1..Len(t), t[i].field = "id"
      PROVE  i \in 1..Len(s) /\ t[i] = s[i] /\ \A j \in 1..i - 1 : t[j] = s[j]
  <2>1. CASE i \in 1..Len(s)
    BY <1>1, <1>2, <2>1
  <2>2. CASE i \notin 1..Len(s)
    <3> DEFINE k == i - Len(s)
    <3>1. k \in 1..Len(f) /\ i = Len(s) + k
      BY <1>1, <2>2
    <3> HIDE DEF k
    <3> QED BY <1>2, <1>3, <3>1
  <2> QED BY <2>1, <2>2
<1>4. Climbing(t, c)
  BY <1>3, SMTT(30) DEF Climbing
<1>5. Newest(t, c, n)
  BY <1>2, <1>3 DEF Newest
<1> QED BY <1>4, <1>5

(* The next event.                                                         *)
LEMMA JoinId ==
  ASSUME NEW s \in Seq(Lines), NEW f \in Seq(Lines), NEW t \in Seq(Lines),
         Joined(s, f, t), f # <<>>, NEW c, NEW n \in Nat,
         f[1] = Line("id", n + 1), \A i \in 2..Len(f) : f[i].field # "id",
         Climbing(s, c), Newest(s, c, n)
  PROVE  Climbing(t, c) /\ Newest(t, c, n + 1)
<1>0. \A i \in 1..Len(s) : s[i].value \in Int
  <2>1. \A i \in 1..Len(s) : s[i] \in Lines
    OBVIOUS
  <2>2. \A i \in 1..Len(s) : s[i].value \in 0..MaxEvents
    BY <2>1 DEF Lines
  <2> QED BY <2>2, FeedBounds
<1>1. Len(s) \in Nat /\ Len(f) \in Nat /\ Len(t) = Len(s) + Len(f) /\ Len(f) > 0
  BY LenIsNat DEF Joined
<1>2. /\ \A i \in 1..Len(s) : t[i] = s[i] /\ i \in 1..Len(t)
      /\ \A i \in 1..Len(f) : t[Len(s) + i] = f[i]
  BY <1>1 DEF Joined
<1> DEFINE m == Len(s) + 1
<1>3. m \in 1..Len(t) /\ t[m].field = "id" /\ t[m].value = n + 1
  BY <1>1, <1>2 DEF Line
<1>4. ASSUME NEW i \in 1..Len(t), t[i].field = "id"
      PROVE  \/ i = m
             \/ i \in 1..Len(s) /\ t[i] = s[i] /\ \A j \in 1..i - 1 : t[j] = s[j]
  <2>1. CASE i \in 1..Len(s)
    BY <1>1, <1>2, <2>1
  <2>2. CASE i \notin 1..Len(s) /\ i # m
    <3> DEFINE k == i - Len(s)
    <3>1. k \in 2..Len(f) /\ k \in 1..Len(f) /\ i = Len(s) + k
      BY <1>1, <2>2
    <3> HIDE DEF k
    <3> QED BY <1>2, <1>4, <3>1
  <2> QED BY <2>1, <2>2
<1>5. /\ t[m].value > 0
      /\ \A j \in 1..m - 1 : t[j].field = "id" => t[j].value < t[m].value
      /\ \/ /\ \A j \in 1..m - 1 : t[j].field # "id"
            /\ c # 0 => t[m].value = c + 1
         \/ \E j \in 1..m - 1 : t[j].field = "id" /\ t[j].value = t[m].value - 1
  <2>1. \A j \in 1..m - 1 : j \in 1..Len(s) /\ t[j] = s[j]
    BY <1>1, <1>2
  <2>2. \A j \in 1..m - 1 : t[j].field = "id" => t[j].value < t[m].value
    BY <1>0, <1>3, <2>1, SMTT(30) DEF Newest
  <2>3. CASE \E j \in 1..Len(s) : s[j].field = "id" /\ s[j].value = n
    <3>1. PICK j \in 1..Len(s) : s[j].field = "id" /\ s[j].value = n
      BY <2>3
    <3>2. j \in 1..m - 1 /\ t[j] = s[j] /\ n = (n + 1) - 1
      BY <1>1, <1>2
    <3> QED BY <1>3, <2>2, <3>1, <3>2
  <2>4. CASE (\A j \in 1..Len(s) : s[j].field # "id") /\ (c # 0 => n = c)
    BY <1>3, <2>1, <2>2, <2>4
  <2> QED BY <2>3, <2>4 DEF Newest
<1> HIDE DEF m
<1>6. Climbing(t, c)
  <2> SUFFICES ASSUME NEW i \in 1..Len(t), t[i].field = "id"
      PROVE  /\ t[i].value > 0
             /\ \A j \in 1..i - 1 : t[j].field = "id" => t[j].value < t[i].value
             /\ \/ /\ \A j \in 1..i - 1 : t[j].field # "id"
                   /\ c # 0 => t[i].value = c + 1
                \/ \E j \in 1..i - 1 : t[j].field = "id" /\ t[j].value = t[i].value - 1
    BY DEF Climbing
  <2>1. CASE i = m
    BY <1>5, <2>1
  <2>2. CASE i # m
    <3>1. i \in 1..Len(s) /\ t[i] = s[i] /\ \A j \in 1..i - 1 : t[j] = s[j]
      BY <1>4, <2>2
    <3> QED BY <3>1 DEF Climbing
  <2> QED BY <2>1, <2>2
<1>7. Newest(t, c, n + 1)
  <2>1. ASSUME NEW i \in 1..Len(t), t[i].field = "id" PROVE t[i].value <= n + 1
    <3>1. CASE i = m
      BY <1>3, <3>1
    <3>2. CASE i # m
      <4>1. i \in 1..Len(s) /\ t[i] = s[i]
        BY <1>4, <2>1, <3>2
      <4> QED BY <1>0, <2>1, <4>1 DEF Newest
    <3> QED BY <3>1, <3>2
  <2> QED BY <1>3, <2>1 DEF Newest
<1> QED BY <1>6, <1>7

-----------------------------------------------------------------------------
(* What each step does to the lines ahead.                                 *)

(* Ahead is a sequence of lines. *)
LEMMA AheadTyped ==
  ASSUME TypeOK
  PROVE  Ahead \in Seq(Lines) /\ Len(Ahead) \in Nat
BY DEF TypeOK, Ahead

(* And so after the step. *)
LEMMA AheadTypedNext ==
  ASSUME TypeOK'
  PROVE  Ahead' \in Seq(Lines) /\ Len(Ahead') \in Nat
BY DEF TypeOK, Ahead

(* The edge appends to what is ahead. *)
LEMMA WritesAhead ==
  ASSUME TypeOK, NEW f \in Seq(Lines), Writes(f), UNCHANGED buf
  PROVE  wire' \in Seq(Lines) /\ Ahead' \in Seq(Lines) /\ Joined(Ahead, f, Ahead')
<1>1. buf \in Seq(Lines) /\ wire \in Seq(Lines) /\ wire' = wire \o f
  BY DEF TypeOK, Writes
<1>2. wire' \in Seq(Lines) /\ Ahead' = Ahead \o f /\ Ahead \in Seq(Lines)
  BY <1>1, ConcatAgain DEF Ahead
<1> QED BY <1>2, ConcatJoins

(* A drop cuts what is ahead. *)
LEMMA DropsAhead ==
  ASSUME TypeOK, Drops
  PROVE  wire' \in Seq(Lines) /\ Ahead' \in Seq(Lines) /\ Cut(Ahead, Ahead')
<1>1. PICK n \in 0..Len(wire) : wire' = SubSeq(wire, 1, n)
  BY DEF Drops
<1>2. buf' = buf /\ buf \in Seq(Lines) /\ wire \in Seq(Lines)
  BY DEF TypeOK, Drops, subVars
<1>3. wire' \in Seq(Lines)
  BY <1>1, <1>2, ConcatCuts
<1> QED BY <1>1, <1>2, <1>3, ConcatCuts DEF Ahead

(* A read moves lines from the wire to the buffer; what is ahead stays. *)
LEMMA ReadAhead ==
  ASSUME TypeOK, Read
  PROVE  wire' \in Seq(Lines) /\ buf' \in Seq(Lines) /\ Ahead' = Ahead
<1>1. wire \in Seq(Lines) /\ buf = <<>> /\ buf' = Arrived /\ Arrived # <<>>
      /\ wire' = SubSeq(wire, Len(Arrived) + 1, Len(wire))
  BY DEF TypeOK, Read
<1>2. Len(wire) \in Nat /\ ReadSize \in Nat
  BY <1>1, LenIsNat, FeedBounds
<1>3. PICK n \in 0..Len(wire) : Arrived = SubSeq(wire, 1, n) /\ Len(Arrived) = n
  <2>1. CASE Len(wire) >= ReadSize
    <3>1. ReadSize \in 0..Len(wire) /\ Arrived = SubSeq(wire, 1, ReadSize)
      BY <1>2, <2>1 DEF Arrived
    <3>2. Len(Arrived) = ReadSize
      BY <1>1, <1>2, <3>1
    <3> QED BY <3>1, <3>2
  <2>2. CASE ~(Len(wire) >= ReadSize)
    <3>1. Len(wire) < ReadSize
      BY <1>2, <2>2
    <3>2. Arrived = wire
      BY <1>1, <2>2, <3>1 DEF Arrived
    <3>3. wire = SubSeq(wire, 1, Len(wire)) /\ Len(wire) \in 0..Len(wire)
      BY <1>1, <1>2, SeqEqual
    <3> QED BY <3>2, <3>3
  <2> QED BY <2>1, <2>2
<1>4. Arrived \in Seq(Lines)
  BY <1>1, <1>3, ConcatCuts
<1>5. wire' \in Seq(Lines) /\ Arrived \o wire' = wire
  BY <1>1, <1>3, ConcatSame
<1>6. Ahead = wire
  BY <1>1, EmptyConcat DEF Ahead
<1>7. Ahead' = Arrived \o wire'
  BY <1>1 DEF Ahead
<1> QED BY <1>1, <1>4, <1>5, <1>6, <1>7

(* TakeLine takes the first line of what is ahead. *)
LEMMA TakesAhead ==
  ASSUME TypeOK, TakeLine
  PROVE  /\ buf' \in Seq(Lines) /\ Ahead' \in Seq(Lines) /\ wire' = wire
         /\ Ahead # <<>> /\ Ahead[1] = Head(buf) /\ Ahead[1] \in Lines
         /\ Popped(Ahead, Ahead')
<1>1. /\ buf \in Seq(Lines) /\ wire \in Seq(Lines) /\ wire' = wire
      /\ buf # <<>> /\ buf' = Tail(buf)
  BY DEF TypeOK, TakeLine, edgeVars
<1>2. buf' \in Seq(Lines)
  BY <1>1, ConcatPops
<1> QED BY <1>1, <1>2, ConcatPops DEF Ahead

-----------------------------------------------------------------------------
(* What the caller has and what it knows, when neither changes.            *)

(* A step that hands out nothing and keeps the position keeps what the caller has. *)
LEMMA CallerKept ==
  ASSUME Known, Behind, NoReplay, LosesAtMostOnePerDrop,
         UNCHANGED <<handed, conn>>, Cur' = Cur,
         Pending' => Pending, Live' /\ ~Pending' => Live /\ ~Pending
  PROVE  Known' /\ Behind' /\ NoReplay' /\ LosesAtMostOnePerDrop'
<1>1. Known'
  BY DEF Known
<1>2. Behind'
  BY DEF Behind
<1>3. NoReplay' /\ LosesAtMostOnePerDrop'
  BY DEF NoReplay, LosesAtMostOnePerDrop
<1> QED BY <1>1, <1>2, <1>3

(* The newest item the caller has.                                         *)
LEMMA NewestEntry ==
  ASSUME TypeOK, handed # <<>>
  PROVE  /\ Len(handed) \in 1..Len(handed)
         /\ handed[Len(handed)].lsn \in 1..MaxEvents
         /\ handed[Len(handed)].conn \in 1..MaxConns
<1> DEFINE R == [lsn : 1..MaxEvents, conn : 1..MaxConns]
<1>1. handed \in Seq(R)
  BY DEF TypeOK
<1> HIDE DEF R
<1>2. Len(handed) \in 1..Len(handed)
  BY <1>1, LenIsNat
<1>3. handed[Len(handed)] \in R
  BY <1>1, <1>2, LenIsNat
<1> QED BY <1>2, <1>3 DEF R

(* A step that changes neither the lines ahead nor the parser.             *)
LEMMA StillAhead ==
  ASSUME Core, TypeOK', Ahead' = Ahead, UNCHANGED <<event, data, handed, conn>>,
         Cur' = Cur, last' = last,
         \/ ended' # "no"
         \/ ended' = ended /\ pos' = pos
  PROVE  Core'
<1>1. Edge'
  BY DEF Core, Edge
<1>2. Parser'
  BY DEF Core, Parser
<1>3. Pending' = Pending /\ (Live' => Live)
  BY DEF Pending, Live
<1> QED BY <1>1, <1>2, <1>3, CallerKept DEF Core

(* A step of the edge that writes one item.                                *)
LEMMA WritesItem ==
  ASSUME Core, TypeOK', NEW f \in Seq(Lines), Writes(f), UNCHANGED <<subVars, callerVars>>,
         f # <<>>, WellFormed(f), f[1].field \in {"id", "event", "comment"},
         f[Len(f)] = Blank,
         \/ /\ \A i \in 1..Len(f) : f[i].field # "id"
            /\ pos' = pos
         \/ /\ f[1] = Line("id", pos + 1)
            /\ \A i \in 2..Len(f) : f[i].field # "id"
            /\ pos' = pos + 1
  PROVE  Core'
<1>0. /\ ended = "no" /\ Cur' = Cur
      /\ UNCHANGED <<buf, event, data, last, pc, conn, resume, handed>>
  BY DEF Writes, subVars, callerVars, Cur
<1>1. /\ Ahead \in Seq(Lines) /\ Ahead' \in Seq(Lines) /\ Joined(Ahead, f, Ahead')
      /\ pos \in Nat
  BY <1>0, AheadTyped, WritesAhead DEF Core, TypeOK
<1>2. /\ WellFormed(Ahead) /\ Climbing(Ahead, Cur) /\ Newest(Ahead, Cur, pos)
      /\ Ahead = <<>> => event = "none" /\ data = <<>>
      /\ Ahead # <<>> => Ahead[Len(Ahead)] = Blank
  BY <1>0 DEF Core, Edge
<1>3. /\ WellFormed(Ahead') /\ Ahead' # <<>> /\ Ahead'[Len(Ahead')] = Blank
      /\ Ahead'[1] = IF Ahead = <<>> THEN f[1] ELSE Ahead[1]
  BY <1>1, <1>2, JoinForm
<1>4. Climbing(Ahead', Cur) /\ Newest(Ahead', Cur, pos')
  <2>1. CASE pos' = pos /\ \A i \in 1..Len(f) : f[i].field # "id"
    BY <1>1, <1>2, <2>1, JoinPlain
  <2>2. CASE /\ f[1] = Line("id", pos + 1) /\ pos' = pos + 1
             /\ \A i \in 2..Len(f) : f[i].field # "id"
    BY <1>1, <1>2, <2>2, JoinId
  <2> QED BY <2>1, <2>2
<1>5. Edge'
  BY <1>0, <1>3, <1>4 DEF Edge
<1>6. Parser'
  BY <1>0, <1>2, <1>3 DEF Core, Parser
<1>7. Pending' = Pending /\ Live
  BY <1>0, <1>2, <1>3 DEF Pending, Live
<1>8. Known' /\ Behind' /\ NoReplay' /\ LosesAtMostOnePerDrop'
  BY <1>0, <1>7, CallerKept DEF Core
<1> QED BY <1>5, <1>6, <1>8 DEF Core

-----------------------------------------------------------------------------
(* The edge and the network.                                               *)

(* The invariant holds initially. *)
LEMMA InitCore == Init => Core
<1> SUFFICES ASSUME Init PROVE Core
  OBVIOUS
<1>1. TypeOK
  BY FeedBounds DEF Init, TypeOK
<1>2. Ahead = <<>> /\ Cur = 0
  BY DEF Init, Ahead, Cur
<1>3. Edge /\ Parser
  BY <1>2 DEF Init, Edge, Parser, WellFormed, Climbing, Newest
<1>4. Known /\ Behind /\ NoReplay /\ LosesAtMostOnePerDrop
  BY DEF Init, Known, Behind, NoReplay, LosesAtMostOnePerDrop
<1> QED BY <1>1, <1>3, <1>4 DEF Core

(* A new event at the edge. *)
LEMMA PublishCore ==
  ASSUME Core, Publish
  PROVE  Core'
<1> USE DEF Publish, subVars, callerVars
<1>1. TypeOK'
  BY FeedBounds DEF Core, TypeOK
<1>2. Ahead' = Ahead /\ Cur' = Cur
  BY DEF Ahead, Cur
<1> QED BY <1>1, <1>2, StillAhead

(* The items the edge writes, line by line.                                *)
LEMMA EventLines ==
  ASSUME NEW v \in 0..MaxEvents, NEW f, f = <<Line("id", v), Line("data", v), Blank>>
  PROVE  /\ f \in Seq(Lines) /\ f # <<>> /\ WellFormed(f) /\ f[Len(f)] = Blank
         /\ f[1] = Line("id", v) /\ f[1].field = "id"
         /\ \A i \in 2..Len(f) : f[i].field # "id"
<1>1. Line("id", v) \in Lines /\ Line("data", v) \in Lines /\ Blank \in Lines
  BY BlankFields DEF Line, Lines
<1>2. /\ f \in Seq(Lines) /\ Len(f) = 3 /\ f # <<>>
      /\ f[1] = Line("id", v) /\ f[2] = Line("data", v) /\ f[3] = Blank
  BY <1>1
<1>3. /\ Line("id", v).field = "id" /\ Line("id", v).value = v
      /\ Line("data", v).field = "data"
  BY DEF Line
<1>4. Follows(f[1], f[2]) /\ Follows(f[2], f[3])
  BY <1>2, <1>3 DEF Follows
<1>5. WellFormed(f)
  BY <1>2, <1>4 DEF WellFormed
<1>6. ASSUME NEW i \in 2..Len(f) PROVE f[i].field # "id"
  <2>1. i = 2 \/ i = 3
    BY <1>2
  <2> QED BY <1>2, <1>3, <2>1, BlankFields
<1> QED BY <1>2, <1>3, <1>5, <1>6

(* The lines of a keep-alive carry no id. *)
LEMMA CommentLines ==
  ASSUME NEW f, f = <<Line("comment", 0), Blank>>
  PROVE  /\ f \in Seq(Lines) /\ f # <<>> /\ WellFormed(f) /\ f[Len(f)] = Blank
         /\ f[1].field = "comment" /\ \A i \in 1..Len(f) : f[i].field # "id"
<1>0. 0 \in 0..MaxEvents
  BY FeedBounds
<1>1. Line("comment", 0) \in Lines /\ Blank \in Lines
  BY <1>0, BlankFields DEF Line, Lines
<1>2. /\ f \in Seq(Lines) /\ Len(f) = 2 /\ f # <<>>
      /\ f[1] = Line("comment", 0) /\ f[2] = Blank
  BY <1>1
<1>3. Line("comment", 0).field = "comment"
  BY DEF Line
<1>4. Follows(f[1], f[2])
  BY <1>2, <1>3 DEF Follows
<1>5. WellFormed(f)
  BY <1>2, <1>4 DEF WellFormed
<1>6. ASSUME NEW i \in 1..Len(f) PROVE f[i].field # "id"
  <2>1. i = 1 \/ i = 2
    BY <1>2
  <2> QED BY <1>2, <1>3, <2>1, BlankFields
<1> QED BY <1>2, <1>3, <1>5, <1>6

(* The lines of the closing event carry no id. *)
LEMMA ClosedLines ==
  ASSUME NEW f, f = <<Line("event", 0), Line("data", 0), Blank>>
  PROVE  /\ f \in Seq(Lines) /\ f # <<>> /\ WellFormed(f) /\ f[Len(f)] = Blank
         /\ f[1].field = "event" /\ \A i \in 1..Len(f) : f[i].field # "id"
<1>0. 0 \in 0..MaxEvents
  BY FeedBounds
<1>1. Line("event", 0) \in Lines /\ Line("data", 0) \in Lines /\ Blank \in Lines
  BY <1>0, BlankFields DEF Line, Lines
<1>2. /\ f \in Seq(Lines) /\ Len(f) = 3 /\ f # <<>>
      /\ f[1] = Line("event", 0) /\ f[2] = Line("data", 0) /\ f[3] = Blank
  BY <1>1
<1>3. Line("event", 0).field = "event" /\ Line("data", 0).field = "data"
  BY DEF Line
<1>4. Follows(f[1], f[2]) /\ Follows(f[2], f[3])
  BY <1>2, <1>3 DEF Follows
<1>5. WellFormed(f)
  BY <1>2, <1>4 DEF WellFormed
<1>6. ASSUME NEW i \in 1..Len(f) PROVE f[i].field # "id"
  <2>1. i = 1 \/ i = 2 \/ i = 3
    BY <1>2
  <2> QED BY <1>2, <1>3, <2>1, BlankFields
<1> QED BY <1>2, <1>3, <1>5, <1>6

(* The edge sends the next event. *)
LEMMA EdgeSendsCore ==
  ASSUME Core, EdgeSends
  PROVE  Core'
<1> DEFINE f == <<Line("id", pos + 1), Line("data", pos + 1), Blank>>
<1>1. pos + 1 \in 0..MaxEvents
  BY FeedBounds DEF Core, TypeOK, EdgeSends
<1>2. /\ Writes(f) /\ UNCHANGED <<subVars, callerVars>> /\ pos' = pos + 1
      /\ UNCHANGED <<published, ended, buf, event, data, last, pc, conn, resume, handed>>
  BY DEF EdgeSends, subVars, callerVars
<1>3. /\ f \in Seq(Lines) /\ f # <<>> /\ WellFormed(f) /\ f[Len(f)] = Blank
      /\ f[1] = Line("id", pos + 1) /\ f[1].field = "id"
      /\ \A i \in 2..Len(f) : f[i].field # "id"
  BY <1>1, EventLines
<1> HIDE DEF f
<1>4. TypeOK'
  BY <1>1, <1>2, <1>3, WritesAhead DEF Core, TypeOK
<1> QED BY <1>2, <1>3, <1>4, WritesItem

(* The edge sends a comment. *)
LEMMA KeepAliveCore ==
  ASSUME Core, KeepAlive
  PROVE  Core'
<1> DEFINE f == <<Line("comment", 0), Blank>>
<1>2. /\ Writes(f) /\ UNCHANGED <<subVars, callerVars>> /\ pos' = pos
      /\ UNCHANGED <<published, ended, buf, event, data, last, pc, conn, resume, handed>>
  BY DEF KeepAlive, subVars, callerVars
<1>3. /\ f \in Seq(Lines) /\ f # <<>> /\ WellFormed(f) /\ f[Len(f)] = Blank
      /\ f[1].field = "comment" /\ \A i \in 1..Len(f) : f[i].field # "id"
  BY CommentLines
<1> HIDE DEF f
<1>4. TypeOK'
  BY <1>2, <1>3, WritesAhead DEF Core, TypeOK
<1> QED BY <1>2, <1>3, <1>4, WritesItem

(* The edge ends the response. *)
LEMMA EdgeClosesCore ==
  ASSUME Core, EdgeCloses
  PROVE  Core'
<1> DEFINE f == <<Line("event", 0), Line("data", 0), Blank>>
<1>2. /\ Writes(f) /\ UNCHANGED <<subVars, callerVars>> /\ pos' = pos /\ ended' = "eof"
      /\ UNCHANGED <<published, buf, event, data, last, pc, conn, resume, handed>>
  BY DEF EdgeCloses, subVars, callerVars
<1>3. /\ f \in Seq(Lines) /\ f # <<>> /\ WellFormed(f) /\ f[Len(f)] = Blank
      /\ f[1].field = "event" /\ \A i \in 1..Len(f) : f[i].field # "id"
  BY ClosedLines
<1> HIDE DEF f
<1>4. TypeOK'
  BY <1>2, <1>3, WritesAhead DEF Core, TypeOK
<1> QED BY <1>2, <1>3, <1>4, WritesItem

(* The response is cut. *)
LEMMA DropsCore ==
  ASSUME Core, Drops
  PROVE  Core'
<1>0. /\ UNCHANGED <<published, pos, buf, event, data, last, pc, conn, resume, handed>>
      /\ ended' \in {"eof", "broken"} /\ Cur' = Cur
  BY DEF Drops, subVars, callerVars, Cur
<1>1. wire' \in Seq(Lines) /\ Ahead' \in Seq(Lines) /\ Cut(Ahead, Ahead') /\ Ahead \in Seq(Lines)
  BY DropsAhead, AheadTyped DEF Core
<1>2. TypeOK'
  BY <1>0, <1>1 DEF Core, TypeOK
<1>3. /\ WellFormed(Ahead') /\ Climbing(Ahead', Cur)
      /\ Ahead' # <<>> => Ahead # <<>> /\ Ahead'[1] = Ahead[1]
  BY <1>1, CutForm DEF Core, Edge
<1>4. Edge'
  BY <1>0, <1>3 DEF Edge
<1>5. Parser'
  BY <1>0, <1>3 DEF Core, Parser
<1>6. (Pending' => Pending) /\ (Live' /\ ~Pending' => Live /\ ~Pending)
  BY <1>0, <1>3 DEF Pending, Live
<1>7. Known' /\ Behind' /\ NoReplay' /\ LosesAtMostOnePerDrop'
  BY <1>0, <1>6, CallerKept DEF Core
<1> QED BY <1>2, <1>4, <1>5, <1>7 DEF Core

-----------------------------------------------------------------------------
(* The caller, outside of _take_frame.                                     *)

(* The caller enters next. *)
LEMMA CallNextCore ==
  ASSUME Core, CallNext
  PROVE  Core'
<1> USE DEF CallNext, edgeVars, subVars
<1>1. TypeOK'
  BY DEF Core, TypeOK
<1>2. Ahead' = Ahead /\ Cur' = Cur
  BY DEF Ahead, Cur
<1> QED BY <1>1, <1>2, StillAhead

(* A read fills the buffer. *)
LEMMA ReadCore ==
  ASSUME Core, Read
  PROVE  Core'
<1>1. UNCHANGED <<published, pos, ended, event, data, last, pc, conn, resume, handed>>
  BY DEF Read, callerVars
<1>2. wire' \in Seq(Lines) /\ buf' \in Seq(Lines) /\ Ahead' = Ahead
  BY ReadAhead DEF Core
<1>3. TypeOK'
  BY <1>1, <1>2 DEF Core, TypeOK
<1>4. Cur' = Cur
  BY <1>1 DEF Cur
<1> QED BY <1>1, <1>2, <1>3, <1>4, StillAhead

(* The response is exhausted. *)
LEMMA EndsCore ==
  ASSUME Core, Ends
  PROVE  Core'
<1> USE DEF Ends, Remember, edgeVars, subVars
<1>1. TypeOK'
  BY DEF Core, TypeOK
<1>2. Ahead' = Ahead /\ Cur' = Cur
  BY DEF Ahead, Cur
<1> QED BY <1>1, <1>2, StillAhead

(* The caller closes the feed. *)
LEMMA CloseCore ==
  ASSUME Core, Close
  PROVE  Core'
<1> USE DEF Close, Remember, subVars
<1>1. TypeOK'
  BY DEF Core, TypeOK
<1>2. Ahead' = Ahead /\ Cur' = Cur
  BY DEF Ahead, Cur
<1> QED BY <1>1, <1>2, StillAhead

(* A reconnect starts at the event after the last id, so the one event that*)
(* was pending, if there was one, is what the connection counts for.       *)
LEMMA ReconnectCore ==
  ASSUME Core, Parked, Reconnect
  PROVE  Core'
<1>0. /\ wire' = <<>> /\ ended' = "no" /\ buf' = <<>> /\ event' = "none" /\ data' = <<>>
      /\ last' = 0 /\ conn' = conn + 1 /\ UNCHANGED <<published, resume, handed>>
      /\ pos' = IF resume = 0 THEN published ELSE resume
      /\ conn < MaxConns /\ pc = "stopped" /\ pc' = "idle"
  BY DEF Reconnect
<1>1. TypeOK'
  BY <1>0, FeedBounds DEF Core, TypeOK
<1>2. Ahead' = <<>> /\ Cur' = Cur
  BY <1>0 DEF Ahead, Cur, Parked
<1>3. Edge'
  <2>1. Cur' # 0 => pos' = Cur'
    BY <1>0 DEF Cur
  <2> QED BY <1>0, <1>2, <2>1 DEF Edge, WellFormed, Climbing, Newest
<1>4. Parser'
  BY <1>0, <1>2 DEF Parser
<1>5. ~Pending'
  BY <1>0, <1>2 DEF Pending
<1>6. Known'
  BY <1>0, <1>2, <1>5 DEF Core, Known
<1>7. Behind'
  <2> SUFFICES ASSUME handed # <<>>
               PROVE  Behind'
    BY <1>0 DEF Behind
  <2> DEFINE h == handed[Len(handed)]
  <2>1. h.lsn \in Int /\ h.conn \in Int /\ Cur \in Int /\ conn \in Int
    BY NewestEntry, FeedBounds DEF Core, TypeOK, Cur
  <2>2. Cur - h.lsn <= 1 + conn - h.conn
    BY DEF Core, Behind
  <2> HIDE DEF h
  <2>3. /\ Cur - h.lsn <= 1 + (conn + 1) - h.conn
        /\ Cur - h.lsn <= (conn + 1) - h.conn
    BY <2>1, <2>2
  <2> QED BY <1>0, <1>2, <2>3 DEF Behind, h
<1>8. NoReplay' /\ LosesAtMostOnePerDrop'
  BY <1>0 DEF Core, NoReplay, LosesAtMostOnePerDrop
<1> QED BY <1>1, <1>3, <1>4, <1>6, <1>7, <1>8 DEF Core

-----------------------------------------------------------------------------
(* _take_frame, line by line.                                              *)

(* What holds whichever line is taken.                                     *)
LEMMA TakeShape ==
  ASSUME Core, TakeLine
  PROVE  /\ Ahead # <<>> /\ Ahead[1] \in Lines /\ Live
         /\ UNCHANGED <<published, pos, wire, ended, conn, resume>> /\ pc = "next"
         /\ buf' \in Seq(Lines) /\ WellFormed(Ahead')
         /\ Ahead' # <<>> => Follows(Ahead[1], Ahead'[1])
         /\ ended = "no" => /\ Ahead' = <<>> => Ahead[1] = Blank
                            /\ Ahead' # <<>> => Ahead'[Len(Ahead')] = Blank
<1>1. /\ buf' \in Seq(Lines) /\ Ahead' \in Seq(Lines) /\ Ahead # <<>>
      /\ Ahead[1] \in Lines /\ Popped(Ahead, Ahead')
  BY TakesAhead DEF Core
<1>2. Ahead \in Seq(Lines) /\ WellFormed(Ahead)
  BY AheadTyped DEF Core, Edge
<1>3. WellFormed(Ahead') /\ (Ahead' # <<>> => Follows(Ahead[1], Ahead'[1]))
  BY <1>1, <1>2, PopForm
<1>4. UNCHANGED <<published, pos, wire, ended, conn, resume>> /\ pc = "next"
  BY DEF TakeLine, edgeVars
<1>5. ASSUME ended = "no"
      PROVE  /\ Ahead' = <<>> => Ahead[1] = Blank
             /\ Ahead' # <<>> => Ahead'[Len(Ahead')] = Blank
  <2>1. Ahead[Len(Ahead)] = Blank
    BY <1>1, <1>5 DEF Core, Edge
  <2>2. /\ Len(Ahead) \in Nat /\ Len(Ahead') \in Nat /\ Len(Ahead') = Len(Ahead) - 1
        /\ (Ahead' = <<>> <=> Len(Ahead') = 0)
    BY <1>1, <1>2, LenIsNat DEF Popped
  <2>3. CASE Ahead' = <<>>
    <3>1. Len(Ahead) = 1
      BY <2>2, <2>3
    <3> QED BY <2>1, <2>3, <3>1
  <2>4. CASE Ahead' # <<>>
    <3>1. Len(Ahead') \in 1..Len(Ahead') /\ Len(Ahead') + 1 = Len(Ahead)
      BY <2>2, <2>4
    <3>2. Ahead'[Len(Ahead')] = Ahead[Len(Ahead') + 1]
      BY <1>1, <3>1 DEF Popped
    <3> QED BY <2>1, <2>4, <3>1, <3>2
  <2> QED BY <2>3, <2>4
<1> QED BY <1>1, <1>3, <1>4, <1>5 DEF Live

(* A line that is no id leaves the ids ahead as they were.                 *)
LEMMA TakePlain ==
  ASSUME Core, TakeLine, Ahead[1].field # "id", last' = last
  PROVE  /\ Cur' = Cur /\ Climbing(Ahead', Cur')
         /\ ended = "no" => Newest(Ahead', Cur', pos)
<1>1. Cur' = Cur
  BY TakeShape DEF Cur
<1>2. Ahead \in Seq(Lines) /\ Ahead' \in Seq(Lines) /\ Ahead # <<>> /\ Popped(Ahead, Ahead')
  BY TakesAhead, AheadTyped DEF Core
<1> QED BY <1>1, <1>2, PopPlain DEF Core, Edge

(* A blank line.                                                           *)
LEMMA TakeBlank ==
  ASSUME Core, TakeLine, Ahead[1] = Blank
  PROVE  Core'
<1>0. /\ event' = "none" /\ data' = <<>> /\ last' = last
      /\ pc' = IF data = <<>> THEN pc ELSE "idle"
      /\ handed' = IF data = <<>> \/ event = "closed" THEN handed
                   ELSE Append(handed, [lsn |-> Head(data), conn |-> conn])
  BY TakesAhead DEF Core, TakeLine, Dispatch
<1>1. Ahead[1].field = "" /\ Ahead[1].field # "id"
  BY BlankFields
<1>2. Edge'
  BY <1>0, <1>1, TakeShape, TakePlain DEF Edge
<1>3. Ahead' # <<>> => Ahead'[1].field \in {"id", "event", "comment"}
  BY <1>1, TakeShape DEF Follows
<1>4. Parser' /\ ~Pending'
  BY <1>0, <1>3 DEF Parser, Pending
<1>5. CASE data = <<>> \/ event = "closed"
  <2>1. TypeOK'
    BY <1>0, <1>5, TakeShape DEF Core, TypeOK
  <2>2. ~Pending
    BY <1>1, <1>5, BlankFields DEF Pending
  <2>3. Known' /\ Behind' /\ NoReplay' /\ LosesAtMostOnePerDrop'
    BY <1>0, <1>1, <1>4, <1>5, <2>2, TakeShape, TakePlain, CallerKept DEF Core
  <2> QED BY <1>2, <1>4, <2>1, <2>3 DEF Core
<1>6. CASE data # <<>> /\ event # "closed"
  <2>1. event = "none" /\ data = <<last>> /\ last > 0 /\ Pending
    BY <1>6 DEF Core, TypeOK, Parser, Pending
  <2>2. handed' = Append(handed, [lsn |-> last, conn |-> conn])
    BY <1>0, <1>6, <2>1
  <2> DEFINE R == [lsn : 1..MaxEvents, conn : 1..MaxConns]
             e == [lsn |-> last, conn |-> conn]
             n == Len(handed)
  <2>3. handed \in Seq(R) /\ e \in R /\ e.lsn = last /\ e.conn = conn
    BY <2>1, FeedBounds DEF Core, TypeOK
  <2> HIDE DEF R, e
  <2>4. /\ n \in Nat /\ Len(handed') = n + 1 /\ handed'[n + 1] = e /\ handed' \in Seq(R)
        /\ \A j \in 1..n : handed'[j] = handed[j]
    BY <2>2, <2>3 DEF e
  <2>5. TypeOK'
    BY <1>0, <2>4, TakeShape DEF Core, TypeOK, R
  <2>6. Cur = last /\ Cur' = last
    BY <1>0, <2>1 DEF Cur
  <2>7. \A j \in 1..n : handed[j].lsn < last
    BY <2>1, <2>6 DEF Core, Known
  <2>8. last \in Int /\ conn \in Int /\ conn' = conn
    BY FeedBounds, TakeShape DEF Core, TypeOK
  <2>9. Known'
    <3> SUFFICES ASSUME NEW j \in 1..Len(handed') PROVE handed'[j].lsn <= last
      BY <1>4, <2>6 DEF Known
    <3>1. CASE j = n + 1
      BY <2>3, <2>4, <2>8, <3>1
    <3>2. CASE j # n + 1
      <4>1. j \in 1..n /\ handed'[j] = handed[j] /\ handed[j] \in R
        BY <2>3, <2>4, <3>2
      <4>2. handed[j].lsn \in Int
        BY <4>1, FeedBounds DEF R
      <4> QED BY <2>7, <2>8, <4>1, <4>2
    <3> QED BY <3>1, <3>2
  <2>10. Behind'
    <3>1. handed'[Len(handed')] = e
      BY <2>4
    <3>2. last - last <= 1 + conn - conn /\ last - last <= conn - conn
      BY <2>8
    <3> QED BY <2>3, <2>6, <2>8, <3>1, <3>2 DEF Behind
  <2>11. NoReplay'
    <3> SUFFICES ASSUME NEW j \in 1..n PROVE handed'[j].lsn < handed'[j + 1].lsn
      BY <2>4 DEF NoReplay
    <3>1. CASE j = n
      BY <2>3, <2>4, <2>7, <3>1
    <3>2. CASE j # n
      <4>1. j \in 1..n - 1 /\ handed'[j] = handed[j] /\ handed'[j + 1] = handed[j + 1]
        BY <2>4, <3>2
      <4> QED BY <4>1 DEF Core, NoReplay
    <3> QED BY <3>1, <3>2
  <2>12. LosesAtMostOnePerDrop'
    <3> SUFFICES ASSUME NEW j \in 1..n
                 PROVE  handed'[j + 1].lsn - handed'[j].lsn
                          <= 1 + handed'[j + 1].conn - handed'[j].conn
      BY <2>4 DEF LosesAtMostOnePerDrop
    <3>1. CASE j = n
      <4>1. handed # <<>>
        BY <2>3, <2>4, <3>1
      <4>2. last - handed[n].lsn <= 1 + conn - handed[n].conn
        BY <2>6, <4>1 DEF Core, Behind
      <4> QED BY <2>3, <2>4, <3>1, <4>2
    <3>2. CASE j # n
      <4>1. j \in 1..n - 1 /\ handed'[j] = handed[j] /\ handed'[j + 1] = handed[j + 1]
        BY <2>4, <3>2
      <4> QED BY <4>1 DEF Core, LosesAtMostOnePerDrop
    <3> QED BY <3>1, <3>2
  <2> QED BY <1>2, <1>4, <2>5, <2>9, <2>10, <2>11, <2>12 DEF Core
<1> QED BY <1>5, <1>6

(* Any other line: what the parser's place in the item leaves possible.    *)
LEMMA TakeField ==
  ASSUME Core, TakeLine, Ahead[1] # Blank
  PROVE  /\ Field(Ahead[1]) /\ UNCHANGED <<pc, handed>> /\ data = <<>>
         /\ Ahead[1].field # "data" => event = "none"
         /\ ended = "no" => Ahead' # <<>>
<1>1. Field(Ahead[1]) /\ UNCHANGED <<pc, handed>>
  BY TakesAhead DEF Core, TakeLine
<1>2. data = <<>>
  BY TakeShape DEF Core, Parser
<1>3. Line("data", 0).field = "data"
  BY DEF Line
<1>4. Ahead[1].field # "data" => event = "none"
  BY <1>2, <1>3, TakeShape DEF Core, Parser, TypeOK
<1> QED BY <1>1, <1>2, <1>4, TakeShape

(* An id: its event is pending.                                            *)
LEMMA TakeId ==
  ASSUME Core, TakeLine, Ahead[1].field = "id"
  PROVE  Core'
<1>0. Ahead[1] # Blank /\ Ahead[1].field # "data"
  BY BlankFields
<1> DEFINE v == Ahead[1].value
<1>1. /\ last' = v /\ event' = event /\ data' = data /\ event = "none" /\ data = <<>>
      /\ UNCHANGED <<pc, handed>> /\ (ended = "no" => Ahead' # <<>>)
  BY <1>0, TakeField DEF Field
<1>2. Ahead \in Seq(Lines) /\ Ahead' \in Seq(Lines) /\ Ahead # <<>> /\ Popped(Ahead, Ahead')
  BY TakesAhead, AheadTyped DEF Core
<1>3. v \in 0..MaxEvents
  BY TakeShape DEF Lines
<1>4. /\ v > 0 /\ (Cur # 0 => v = Cur + 1) /\ Climbing(Ahead', v)
      /\ ended = "no" => Newest(Ahead', v, pos)
  BY <1>2, PopId DEF Core, Edge
<1>5. Ahead' # <<>> => Ahead'[1] = Line("data", v)
  BY TakeShape DEF Follows
<1> HIDE DEF v
<1>6. Cur' = v
  BY <1>1, <1>3, <1>4, FeedBounds DEF Cur
<1>7. TypeOK'
  BY <1>1, <1>3, TakeShape DEF Core, TypeOK
<1>8. Edge'
  BY <1>1, <1>4, <1>6, TakeShape DEF Edge
<1>9. Line("data", v).field = "data" /\ Line("data", v).value = v
  BY DEF Line
<1>10. Parser'
  BY <1>1, <1>4, <1>5, <1>9 DEF Parser
<1>11. Live' => Pending'
  BY <1>1, <1>5, <1>9, TakeShape DEF Pending, Live
<1>12. ~Pending
  BY <1>0, <1>1 DEF Pending
<1>13. v \in Int /\ Cur \in Int /\ conn \in Int
  BY <1>3, FeedBounds DEF Core, TypeOK, Cur
<1>14. Known'
  <2> SUFFICES ASSUME NEW j \in 1..Len(handed) PROVE handed[j].lsn < v /\ handed[j].lsn <= v
    BY <1>1, <1>6 DEF Known
  <2>1. handed[j].lsn \in 1..MaxEvents
    <3>1. handed \in Seq([lsn : 1..MaxEvents, conn : 1..MaxConns])
      BY DEF Core, TypeOK
    <3>2. handed[j] \in [lsn : 1..MaxEvents, conn : 1..MaxConns]
      BY <3>1, LenIsNat
    <3> QED BY <3>2
  <2>2. handed[j].lsn <= Cur
    BY DEF Core, Known
  <2> QED BY <1>4, <1>13, <2>1, <2>2, FeedBounds
<1>15. Behind'
  <2> SUFFICES ASSUME handed # <<>> PROVE Behind'
    BY <1>1 DEF Behind
  <2> DEFINE h == handed[Len(handed)]
  <2>1. Len(handed) \in 1..Len(handed) /\ h.lsn \in 1..MaxEvents /\ h.conn \in 1..MaxConns
    BY NewestEntry DEF Core
  <2>2. h.lsn <= Cur
    BY <2>1 DEF Core, Known
  <2>3. Cur - h.lsn <= conn - h.conn
    BY <1>12, TakeShape DEF Core, Behind
  <2> HIDE DEF h
  <2>4. v - h.lsn <= 1 + conn - h.conn
    BY <1>4, <1>13, <2>1, <2>2, <2>3, FeedBounds
  <2> QED BY <1>1, <1>6, <1>11, <2>4, TakeShape DEF Behind, h
<1>16. NoReplay' /\ LosesAtMostOnePerDrop'
  BY <1>1 DEF Core, NoReplay, LosesAtMostOnePerDrop
<1> QED BY <1>7, <1>8, <1>10, <1>14, <1>15, <1>16 DEF Core

(* A data line: the event of the last id, or the body of the terminal item.*)
LEMMA TakeData ==
  ASSUME Core, TakeLine, Ahead[1].field = "data"
  PROVE  Core'
<1>0. Ahead[1] # Blank /\ Ahead[1].field # "id"
  BY BlankFields
<1> DEFINE v == Ahead[1].value
<1>1. /\ last' = last /\ event' = event /\ data' = Append(data, v) /\ data = <<>>
      /\ UNCHANGED <<pc, handed>> /\ (ended = "no" => Ahead' # <<>>)
  BY <1>0, TakeField DEF Field
<1>2. v \in 0..MaxEvents
  BY TakeShape DEF Lines
<1>3. /\ event = "none" => v = last /\ last > 0
      /\ event = "closed" => v = 0
  <2>1. Line("data", 0).value = 0
    BY DEF Line
  <2> QED BY <1>1, <2>1, TakeShape DEF Core, Parser
<1>4. Ahead' # <<>> => Ahead'[1] = Blank
  BY TakeShape DEF Follows
<1> HIDE DEF v
<1>5. data' = <<v>> /\ data' # <<>> /\ data' \in Seq(0..MaxEvents) /\ Len(data') <= 1
  BY <1>1, <1>2
<1>6. TypeOK'
  BY <1>1, <1>5, TakeShape DEF Core, TypeOK
<1>7. Edge'
  BY <1>0, <1>1, TakeShape, TakePlain DEF Edge
<1>8. Parser'
  BY <1>1, <1>3, <1>4, <1>5 DEF Parser
<1>9. Pending' <=> Pending
  BY <1>1, <1>5, TakeShape DEF Pending
<1>10. Known' /\ Behind' /\ NoReplay' /\ LosesAtMostOnePerDrop'
  BY <1>0, <1>1, <1>9, TakeShape, TakePlain, CallerKept DEF Core
<1> QED BY <1>6, <1>7, <1>8, <1>10 DEF Core

(* The event line of the terminal item.                                    *)
LEMMA TakeEvent ==
  ASSUME Core, TakeLine, Ahead[1].field = "event"
  PROVE  Core'
<1>0. Ahead[1] # Blank /\ Ahead[1].field # "id" /\ Ahead[1].field # "data"
  BY BlankFields
<1>1. /\ last' = last /\ event' = "closed" /\ data' = data /\ event = "none" /\ data = <<>>
      /\ UNCHANGED <<pc, handed>> /\ (ended = "no" => Ahead' # <<>>)
  BY <1>0, TakeField DEF Field
<1>2. Ahead' # <<>> => Ahead'[1] = Line("data", 0)
  BY TakeShape DEF Follows
<1>3. TypeOK'
  BY <1>1, TakeShape DEF Core, TypeOK
<1>4. Edge'
  BY <1>0, <1>1, TakeShape, TakePlain DEF Edge
<1>5. Parser'
  BY <1>1, <1>2 DEF Parser
<1>6. ~Pending /\ ~Pending'
  BY <1>0, <1>1 DEF Pending
<1>7. Known' /\ Behind' /\ NoReplay' /\ LosesAtMostOnePerDrop'
  BY <1>0, <1>1, <1>6, TakeShape, TakePlain, CallerKept DEF Core
<1> QED BY <1>3, <1>4, <1>5, <1>7 DEF Core

(* A comment: nothing.                                                     *)
LEMMA TakeComment ==
  ASSUME Core, TakeLine, Ahead[1] # Blank, Ahead[1].field \in {"comment", ""}
  PROVE  Core'
<1>1. /\ last' = last /\ event' = event /\ data' = data /\ event = "none" /\ data = <<>>
      /\ UNCHANGED <<pc, handed>> /\ (ended = "no" => Ahead' # <<>>)
  BY TakeField DEF Field
<1>2. Ahead' # <<>> => Ahead'[1].field # "data"
  BY TakeShape, BlankFields DEF Follows
<1>3. TypeOK'
  BY <1>1, TakeShape DEF Core, TypeOK
<1>4. Edge'
  BY <1>1, TakeShape, TakePlain DEF Edge
<1>5. Parser'
  BY <1>1, <1>2 DEF Parser
<1>6. ~Pending /\ ~Pending'
  BY <1>1, <1>2 DEF Pending
<1>7. Known' /\ Behind' /\ NoReplay' /\ LosesAtMostOnePerDrop'
  BY <1>1, <1>6, TakeShape, TakePlain, CallerKept DEF Core
<1> QED BY <1>3, <1>4, <1>5, <1>7 DEF Core

(* A line is taken, whichever it is. *)
LEMMA TakeLineCore ==
  ASSUME Core, TakeLine
  PROVE  Core'
<1>1. Ahead[1].field \in {"id", "event", "data", "comment", ""}
  BY TakeShape DEF Lines
<1> QED BY <1>1, TakeBlank, TakeId, TakeData, TakeEvent, TakeComment

-----------------------------------------------------------------------------
(* The invariant.                                                          *)

(* A caller who has stopped has remembered how far the reader had come. *)
LEMMA ParkedStep ==
  ASSUME Core, Parked, Next
  PROVE  Parked'
<1> USE DEF Parked, Cur
<1>1. CASE Publish \/ EdgeSends \/ KeepAlive \/ EdgeCloses \/ Drops
  BY <1>1 DEF Publish, EdgeSends, KeepAlive, EdgeCloses, Drops, subVars, callerVars
<1>2. CASE CallNext \/ Reconnect
  BY <1>2 DEF CallNext, Reconnect
<1>3. CASE Ends \/ Close
  BY <1>3 DEF Ends, Close, Remember, subVars
<1>4. CASE Read
  BY <1>4 DEF Read, callerVars
<1>5. CASE TakeLine
  BY <1>5 DEF TakeLine, Dispatch, Field
<1> QED BY <1>1, <1>2, <1>3, <1>4, <1>5 DEF Next

(* Every step keeps the invariant. *)
LEMMA NextInv == IInv /\ [Next]_vars => IInv'
<1> SUFFICES ASSUME IInv, [Next]_vars PROVE IInv'
  OBVIOUS
<1>1. CASE Next
  <2>1. Parked'
    BY <1>1, ParkedStep DEF IInv
  <2>2. Core'
    BY <1>1, PublishCore, EdgeSendsCore, KeepAliveCore, EdgeClosesCore, DropsCore,
       CallNextCore, TakeLineCore, ReadCore, EndsCore, CloseCore, ReconnectCore
       DEF IInv, Next
  <2> QED BY <2>1, <2>2 DEF IInv
<1>2. CASE UNCHANGED vars
  <2> USE DEF vars, edgeVars, subVars, callerVars
  <2>1. TypeOK'
    BY <1>2 DEF IInv, Core, TypeOK
  <2>2. Ahead' = Ahead /\ Cur' = Cur
    BY <1>2 DEF Ahead, Cur
  <2>3. Core'
    BY <1>2, <2>1, <2>2, StillAhead DEF IInv
  <2>4. Parked'
    BY <1>2, <2>2 DEF IInv, Parked
  <2> QED BY <2>3, <2>4 DEF IInv
<1> QED BY <1>1, <1>2

(* So it holds in every reachable state. *)
LEMMA Invariance == Spec => []IInv
<1>1. Init => IInv
  BY InitCore DEF IInv, Parked, Init
<1> QED BY <1>1, NextInv, PTL DEF Spec

-----------------------------------------------------------------------------
(* Results.                                                                *)

(* Every variable of the feed stays in its domain; _data never holds more  *)
(* than the one line of the event being parsed (Subscription._take_frame). *)
THEOREM FeedTyped == Spec => []TypeOK
<1>1. IInv => TypeOK
  BY DEF IInv, Core
<1> QED BY <1>1, Invariance, PTL

(* No event is handed out twice, over any number of drops and reconnects   *)
(* with last_event_id, wherever in an event a response ended.              *)
THEOREM NeverReplayed == Spec => []NoReplay
<1>1. IInv => NoReplay
  BY DEF IInv, Core
<1> QED BY <1>1, Invariance, PTL

(* On one response no event is lost, however the reads fall; each reconnect*)
(* loses at most the one event whose id line was the last thing parsed.    *)
THEOREM OneLossPerDrop == Spec => []LosesAtMostOnePerDrop
<1>1. IInv => LosesAtMostOnePerDrop
  BY DEF IInv, Core
<1> QED BY <1>1, Invariance, PTL
=============================================================================
