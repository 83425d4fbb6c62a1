------------------------------- MODULE Demux -------------------------------
(***************************************************************************)
(* What a multiplexed connection promises its callers, whatever carries    *)
(* the frames: every call has an answer of its own, made of frames the     *)
(* server numbers 1, 2, ...; a call is handed exactly those, in order and  *)
(* without a gap, until it returns or is abandoned; it returns normally    *)
(* only with the whole answer; and once the connection has failed no call  *)
(* can be opened on it.  There are no stream ids, queues, locks or reader. *)
(*                                                                         *)
(* AsyncMuxConnection implements this: MuxAio!Implements.                  *)
(***************************************************************************)
EXTENDS Naturals, Sequences

CONSTANT Calls

VARIABLES alive,     \* the connection has not failed and was not closed
          phase,     \* each call: idle, open, returned or aborted
          answered,  \* how many frames the server has sent to a call
          complete,  \* the last of them ended the answer
          taken      \* the frames the call was handed, each named by call and number

vars == <<alive, phase, answered, complete, taken>>

Init ==
  /\ alive = TRUE
  /\ phase = [c \in Calls |-> "idle"]
  /\ answered = [c \in Calls |-> 0]
  /\ complete = [c \in Calls |-> FALSE]
  /\ taken = [c \in Calls |-> <<>>]

Open(c) ==
  /\ phase[c] = "idle" /\ alive
  /\ phase' = [phase EXCEPT ![c] = "open"]
  /\ UNCHANGED <<alive, answered, complete, taken>>

(* A call may be refused, or give up at any moment: a deadline, a          *)
(* cancellation, an error of the server, a failure of the connection.      *)
Abort(c) ==
  /\ phase[c] \in {"idle", "open"}
  /\ phase' = [phase EXCEPT ![c] = "aborted"]
  /\ UNCHANGED <<alive, answered, complete, taken>>

(* The server goes on answering a call that has been abandoned.            *)
Answer(c) ==
  /\ phase[c] # "idle" /\ ~complete[c]
  /\ answered' = [answered EXCEPT ![c] = @ + 1]
  /\ \E last \in BOOLEAN : complete' = [complete EXCEPT ![c] = last]
  /\ UNCHANGED <<alive, phase, taken>>

(* The next frame of a call's own answer.  Taking the last one may end the *)
(* call.                                                                   *)
Deliver(c) ==
  /\ phase[c] = "open" /\ Len(taken[c]) < answered[c]
  /\ taken' = [taken EXCEPT ![c] = Append(@, [of |-> c, n |-> Len(@) + 1])]
  /\ \E p \in {"open", "aborted", "returned"} :
       /\ p = "returned" => complete[c] /\ Len(taken'[c]) = answered[c]
       /\ phase' = [phase EXCEPT ![c] = p]
  /\ UNCHANGED <<alive, answered, complete>>

Fail ==
  /\ alive' = FALSE
  /\ UNCHANGED <<phase, answered, complete, taken>>

Next == Fail \/ \E c \in Calls : Open(c) \/ Abort(c) \/ Answer(c) \/ Deliver(c)

Spec == Init /\ [][Next]_vars
=============================================================================
