------------------------------ MODULE HttpFeed ------------------------------
(***************************************************************************)
(* The HTTP change feed, python/src/brain_db_sdk/http/sse.py, and a caller *)
(* who iterates it and, when it ends, reconnects with                      *)
(* subscribe(from_lsn=sub.last_event_id) as the documentation says.        *)
(*                                                                         *)
(* A line of the response is one unit; an event is an id line carrying its *)
(* LSN, a data line and a blank line.  HTTPResponse.read(4096) returns that*)
(* much, or less only at the end of the response: the same in lines here   *)
(* (ReadSize), and an event may straddle two reads.  A line cut in two by  *)
(* the end of the response is one that did not arrive.                     *)
(***************************************************************************)
EXTENDS Integers, Sequences, FiniteSets

CONSTANTS ReadSize,   \* what one read waits for: 4096 bytes in the code
          WireCap,    \* bound: lines the connection holds
          MaxEvents,  \* bound: events published
          MaxConns    \* bound: times the caller connects

ASSUME FeedBounds == /\ ReadSize \in Nat /\ WireCap \in Nat /\ MaxEvents \in Nat /\ MaxConns \in Nat
                     /\ 0 < ReadSize /\ ReadSize < WireCap /\ 0 < MaxConns

VARIABLES
  \* ---- the edge and the network
  published,  \* the LSN of the newest event
  pos,        \* the newest LSN written on the current response
  wire,       \* lines of the response not yet read
  ended,      \* the response: "no", "eof" (closed cleanly) or "broken"
  \* ---- the Subscription object
  buf, event, data,
  last,       \* _last_id; 0 stands for None
  \* ---- the caller
  pc,         \* "idle" between items, "next" inside __next__, "stopped" without a feed
  conn,       \* how many times it has connected
  resume,     \* the last_event_id it will pass on
  handed      \* the events it was given: LSN, and connection it came on

edgeVars == <<published, pos, wire, ended>>
subVars == <<buf, event, data, last>>
callerVars == <<pc, conn, resume, handed>>
vars == <<edgeVars, subVars, callerVars>>

Line(field, value) == [field |-> field, value |-> value]
Lines == [field : {"id", "event", "data", "comment", ""}, value : 0..MaxEvents]
Blank == Line("", 0)

Init ==
  /\ published = 0 /\ pos = 0 /\ wire = <<>> /\ ended = "no"
  /\ buf = <<>> /\ event = "none" /\ data = <<>> /\ last = 0
  /\ pc = "idle" /\ conn = 1 /\ resume = 0 /\ handed = <<>>

-----------------------------------------------------------------------------
(* The edge.                                                               *)

Publish ==
  /\ published < MaxEvents
  /\ published' = published + 1
  /\ UNCHANGED <<pos, wire, ended, subVars, callerVars>>

Writes(lines) ==
  /\ ended = "no" /\ Len(wire) + Len(lines) <= WireCap
  /\ wire' = wire \o lines

EdgeSends ==
  /\ pos < published
  /\ Writes(<<Line("id", pos + 1), Line("data", pos + 1), Blank>>)
  /\ pos' = pos + 1
  /\ UNCHANGED <<published, ended, subVars, callerVars>>

(* The comment the edge sends on an idle feed.                             *)
KeepAlive ==
  /\ Writes(<<Line("comment", 0), Blank>>)
  /\ UNCHANGED <<published, pos, ended, subVars, callerVars>>

(* The terminal item, and the end of the response.                         *)
EdgeCloses ==
  /\ Writes(<<Line("event", 0), Line("data", 0), Blank>>)
  /\ ended' = "eof"
  /\ UNCHANGED <<published, pos, subVars, callerVars>>

(* The response ends anywhere, with or without an error; what had not      *)
(* arrived is lost.                                                        *)
Drops ==
  /\ ended = "no"
  /\ ended' \in {"eof", "broken"}
  /\ \E n \in 0..Len(wire) : wire' = SubSeq(wire, 1, n)
  /\ UNCHANGED <<published, pos, subVars, callerVars>>

-----------------------------------------------------------------------------
(* Subscription.__next__: _take_frame over the buffer, else a read.        *)

CallNext ==
  /\ pc = "idle"
  /\ pc' = "next"
  /\ UNCHANGED <<edgeVars, subVars, conn, resume, handed>>

(* Mutation of Dispatch: _data is not emptied with the frame.              *)
DispatchKeepsData ==
  /\ event' = "none"
  /\ UNCHANGED data
  /\ pc' = IF data = <<>> THEN pc ELSE "idle"
  /\ handed' = IF data = <<>> \/ event = "closed" THEN handed
               ELSE Append(handed, [lsn |-> Head(data), conn |-> conn])

(* Mutation of Dispatch: of several frames in the buffer the last wins.    *)
DispatchLatest ==
  LET older == \E i \in 2..Len(buf) : buf[i] = Blank IN
  /\ event' = "none"
  /\ data' = <<>>
  /\ pc' = IF data = <<>> \/ older THEN pc ELSE "idle"
  /\ handed' = IF data = <<>> \/ event = "closed" \/ older THEN handed
               ELSE Append(handed, [lsn |-> Head(data), conn |-> conn])

(* A blank line: with data pending it ends __next__ and hands the event, or*)
(* the terminal item, to the caller; after a comment it does nothing.      *)
Dispatch ==
  /\ event' = "none"
  /\ data' = <<>>
  /\ pc' = IF data = <<>> THEN pc ELSE "idle"
  /\ handed' = IF data = <<>> \/ event = "closed" THEN handed
               ELSE Append(handed, [lsn |-> Head(data), conn |-> conn])

(* Mutation of Field: only the first id is kept.                           *)
FieldKeepsFirstId(line) ==
  /\ event' = IF line.field = "event" THEN "closed" ELSE event
  /\ last' = IF line.field = "id" /\ last = 0 THEN line.value ELSE last
  /\ data' = IF line.field = "data" THEN Append(data, line.value) ELSE data

(* event, id and data; anything else is ignored.  The id is remembered as  *)
(* soon as its line is seen.                                               *)
Field(line) ==
  /\ event' = IF line.field = "event" THEN "closed" ELSE event
  /\ last' = IF line.field = "id" THEN line.value ELSE last
  /\ data' = IF line.field = "data" THEN Append(data, line.value) ELSE data

TakeLine ==
  /\ pc = "next" /\ buf # <<>>
  /\ buf' = Tail(buf)
  /\ \/ Head(buf) = Blank /\ Dispatch /\ UNCHANGED last
     \/ Head(buf) # Blank /\ Field(Head(buf)) /\ UNCHANGED <<pc, handed>>
  /\ UNCHANGED <<edgeVars, conn, resume>>

(* Mutation of Arrived: read() without a size.                             *)
ArrivedAtEnd == IF ended = "eof" THEN wire ELSE <<>>

(* What read(4096) returns now, if anything: a full measure, or the rest   *)
(* of a response that was closed.                                          *)
Arrived ==
  CASE Len(wire) >= ReadSize -> SubSeq(wire, 1, ReadSize)
    [] Len(wire) < ReadSize /\ ended = "eof" -> wire
    [] OTHER -> <<>>

Read ==
  /\ pc = "next" /\ buf = <<>> /\ Arrived # <<>>
  /\ buf' = Arrived
  /\ wire' = SubSeq(wire, Len(Arrived) + 1, Len(wire))
  /\ UNCHANGED <<published, pos, ended, event, data, last, callerVars>>

(* What the caller knows of its position when a feed is over.              *)
Remember == resume' = IF last = 0 THEN resume ELSE last

(* An empty read closes the feed and raises StopIteration, whatever is     *)
(* half-parsed; a broken connection raises out of read.                    *)
Ends ==
  /\ pc = "next" /\ buf = <<>> /\ Arrived = <<>> /\ ended # "no"
  /\ pc' = "stopped"
  /\ Remember
  /\ UNCHANGED <<edgeVars, subVars, conn, handed>>

(* Subscription.close, between two items.                                  *)
Close ==
  /\ pc = "idle"
  /\ pc' = "stopped"
  /\ ended' = "eof"
  /\ Remember
  /\ UNCHANGED <<published, pos, wire, subVars, conn, handed>>

(* A new response and a new Subscription.  Without from_lsn the edge starts*)
(* at the newest event.                                                    *)
Reconnect ==
  /\ pc = "stopped" /\ conn < MaxConns
  /\ pos' = IF resume = 0 THEN published ELSE resume
  /\ wire' = <<>> /\ ended' = "no"
  /\ buf' = <<>> /\ event' = "none" /\ data' = <<>> /\ last' = 0
  /\ pc' = "idle" /\ conn' = conn + 1
  /\ UNCHANGED <<published, resume, handed>>

-----------------------------------------------------------------------------

Next ==
  \/ Publish \/ EdgeSends \/ KeepAlive \/ EdgeCloses \/ Drops
  \/ CallNext \/ TakeLine \/ Read \/ Ends \/ Close \/ Reconnect

Spec == Init /\ [][Next]_vars

(* __next__ runs when it can, and the edge keeps an idle feed alive with   *)
(* comments (_open_stream: "its liveness signal is the edge's keep-alive   *)
(* comment rather than a deadline").  Nothing else is assumed of it.       *)
FairSpec == Spec /\ WF_vars(TakeLine \/ Read \/ Ends) /\ WF_vars(KeepAlive)

-----------------------------------------------------------------------------
(* Properties.                                                             *)

(* Every variable stays in its domain; _data never holds more than the one *)
(* line of the event being parsed.                                         *)
TypeOK ==
  /\ published \in 0..MaxEvents /\ pos \in 0..MaxEvents
  /\ wire \in Seq(Lines) /\ ended \in {"no", "eof", "broken"}
  /\ buf \in Seq(Lines) /\ event \in {"none", "closed"}
  /\ data \in Seq(0..MaxEvents) /\ Len(data) <= 1
  /\ last \in 0..MaxEvents
  /\ pc \in {"idle", "next", "stopped"} /\ conn \in 1..MaxConns
  /\ resume \in 0..MaxEvents
  /\ handed \in Seq([lsn : 1..MaxEvents, conn : 1..MaxConns])

(* "Pass it back as from_lsn on a reconnect to resume exactly rather than  *)
(* replay ...": no event is handed out twice, over any number of drops and *)
(* reconnects, wherever in an event a response ended.                      *)
NoReplay ==
  \A i \in 1..Len(handed) - 1 : handed[i].lsn < handed[i + 1].lsn

(* On one response no event is lost, though an event may straddle reads    *)
(* and a read may carry several; what is lost over reconnects is at most   *)
(* one event for each, the one whose id line was the last thing parsed.    *)
LosesAtMostOnePerDrop ==
  \A i \in 1..Len(handed) - 1 :
    handed[i + 1].lsn - handed[i].lsn <= 1 + handed[i + 1].conn - handed[i].conn

Whole(lines) ==
  \E i \in 1..Len(lines) - 1 : lines[i].field = "data" /\ lines[i + 1] = Blank

(* A __next__ to which a whole event was sent returns, as long as the edge *)
(* goes on sending comments: the read it is in waits for a full measure.   *)
NextReturns == pc = "next" /\ Whole(buf \o wire) ~> pc # "next"

-----------------------------------------------------------------------------
(* What the documentation says and the code does not do.                   *)

(* "... or skip": the next event after a reconnect is the one after the    *)
(* last event handed out.                                                  *)
NoSkip ==
  \A i \in 1..Len(handed) - 1 : handed[i + 1].lsn = handed[i].lsn + 1
=============================================================================
