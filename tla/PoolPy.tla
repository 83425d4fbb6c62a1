-------------------------------- MODULE PoolPy --------------------------------
(***************************************************************************)
(* The threaded connection pool, python/src/brain_db_sdk/pool.py.          *)
(*                                                                         *)
(* A connection is a number, in the order of dialing.  `alive` is the      *)
(* negation of BrainClient.is_closed: it falls when the peer goes away and *)
(* never rises again.  `shut` records client.close().                      *)
(*                                                                         *)
(* A step is one critical section of the pool's lock or of a slot's        *)
(* reconnect lock, one is_closed test, one dial, or one assignment to the  *)
(* list of clients.                                                        *)
(***************************************************************************)
EXTENDS Integers, FiniteSets

CONSTANTS Threads,    \* threads borrowing from, or closing, the pool
          NoThread,   \* "the lock is free"
          Size,       \* members of the pool
          Targets,    \* TRUE: built by connect_with; FALSE: as Pool(clients), no host and port
          MaxConns    \* bound: connections ever dialed

ASSUME PoolAssumption ==
  /\ NoThread \notin Threads
  /\ Size \in Nat /\ MaxConns \in Nat /\ Targets \subseteq BOOLEAN

VARIABLES
  phase,     \* of connect_with: opening, unwinding after a failure, ready, failed
  hasTarget, \* _host, _port and _config are set; never changes
  slots,     \* _clients: slot -> connection
  opened,    \* connections dialed so far; the next one is opened + 1
  alive,     \* ~ is_closed
  shut,      \* close() was called on it
  counter,   \* _counter modulo Size
  lock,      \* _reconnect_locks
  pc, idx, client,   \* per thread: where it is, its slot, the client in hand
  closing    \* per thread: the slot close() has come to

poolVars == <<slots, counter, lock>>
connVars == <<opened, alive, shut>>
threadVars == <<pc, idx, client, closing>>
setup == <<phase, hasTarget>>
vars == <<setup, poolVars, connVars, threadVars>>

Slots == 0..(Size - 1)
Conns == 1..MaxConns
NoConn == 0

(* BrainClient.connect_with returned a live client.                        *)
Connected(c) ==
  /\ c = opened + 1 /\ c \in Conns
  /\ opened' = c
  /\ alive' = alive \cup {c}
  /\ UNCHANGED shut

Init ==
  /\ phase = IF Size < 1 THEN "failed" ELSE "opening"
  /\ hasTarget \in Targets
  /\ slots = [i \in Slots |-> NoConn]
  /\ opened = 0
  /\ alive = {}
  /\ shut = {}
  /\ counter = 0
  /\ lock = [i \in Slots |-> NoThread]
  /\ pc = [t \in Threads |-> "idle"]
  /\ idx = [t \in Threads |-> 0]
  /\ client = [t \in Threads |-> NoConn]
  /\ closing = [t \in Threads |-> 0]

-----------------------------------------------------------------------------
(* connect_with: open the members one after the other; on a failure close  *)
(* those already opened.                                                   *)

OpenMember ==
  /\ phase = "opening"
  /\ Connected(opened + 1)
  /\ slots' = [slots EXCEPT ![opened] = opened + 1]
  /\ phase' = IF opened + 1 = Size THEN "ready" ELSE "opening"
  /\ UNCHANGED <<hasTarget, counter, lock, threadVars>>

OpenFails ==
  /\ phase = "opening"
  /\ phase' = "unwinding"
  /\ UNCHANGED <<hasTarget, poolVars, connVars, threadVars>>

(* Mutation of Unwind: the member opened last is not closed.               *)
UnwindSkipsLast ==
  /\ phase = "unwinding"
  /\ shut' = shut \cup (1..(opened - 1))
  /\ phase' = "failed"
  /\ UNCHANGED <<hasTarget, poolVars, opened, alive, threadVars>>

Unwind ==
  /\ phase = "unwinding"
  /\ shut' = shut \cup (1..opened)
  /\ phase' = "failed"
  /\ UNCHANGED <<hasTarget, poolVars, opened, alive, threadVars>>

-----------------------------------------------------------------------------
Goto(t, label) == pc' = [pc EXCEPT ![t] = label]

(* Mutation of NextSlot: the counter is not taken modulo the size.         *)
NextSlotUnbounded == counter + 1

(* get_healthy and get both take the next slot under _lock, then read the  *)
(* list.                                                                   *)
NextSlot == (counter + 1) % Size

Get(t) ==
  /\ phase = "ready" /\ pc[t] = "idle"
  /\ counter' = NextSlot
  /\ client' = [client EXCEPT ![t] = slots[counter]]
  /\ UNCHANGED <<setup, slots, lock, connVars, pc, idx, closing>>

GetHealthy(t) ==
  /\ phase = "ready" /\ pc[t] = "idle"
  /\ counter' = NextSlot
  /\ idx' = [idx EXCEPT ![t] = counter]
  /\ client' = [client EXCEPT ![t] = slots[counter]]
  /\ Goto(t, "check")
  /\ UNCHANGED <<setup, slots, lock, connVars, closing>>

(* The first is_closed test, without the lock; a pool with no target hands *)
(* a dead client out.                                                      *)
Check(t) ==
  /\ pc[t] = "check"
  /\ Goto(t, IF client[t] \in alive \/ ~hasTarget THEN "idle" ELSE "lock")
  /\ UNCHANGED <<setup, poolVars, connVars, idx, client, closing>>

LockSlot(t) ==
  /\ pc[t] = "lock" /\ lock[idx[t]] = NoThread
  /\ lock' = [lock EXCEPT ![idx[t]] = t]
  /\ Goto(t, "recheck")
  /\ UNCHANGED <<setup, slots, counter, connVars, idx, client, closing>>

Release(t) == lock' = [lock EXCEPT ![idx[t]] = NoThread]

(* Mutation of Recheck: the slot is not read again under the lock.         *)
RecheckNot(t) ==
  /\ pc[t] = "recheck"
  /\ Goto(t, "dial")
  /\ UNCHANGED <<setup, poolVars, connVars, idx, client, closing>>

(* "Another thread may have reconnected while we waited."                  *)
Recheck(t) ==
  /\ pc[t] = "recheck"
  /\ client' = [client EXCEPT ![t] = slots[idx[t]]]
  /\ IF slots[idx[t]] \in alive THEN Goto(t, "idle") /\ Release(t)
                                ELSE Goto(t, "dial") /\ UNCHANGED lock
  /\ UNCHANGED <<setup, slots, counter, connVars, idx, closing>>

Dial(t) ==
  /\ pc[t] = "dial"
  /\ Connected(opened + 1)
  /\ client' = [client EXCEPT ![t] = opened + 1]
  /\ Goto(t, "install")
  /\ UNCHANGED <<setup, poolVars, idx, closing>>

(* Mutation of DialFails: the exception leaves the slot locked.            *)
DialFailsLocked(t) ==
  /\ pc[t] = "dial"
  /\ Goto(t, "idle")
  /\ UNCHANGED <<setup, poolVars, connVars, idx, client, closing>>

(* The exception leaves through the `with`, which releases the lock.       *)
DialFails(t) ==
  /\ pc[t] = "dial"
  /\ Release(t)
  /\ Goto(t, "idle")
  /\ UNCHANGED <<setup, slots, counter, connVars, idx, client, closing>>

Install(t) ==
  /\ pc[t] = "install"
  /\ slots' = [slots EXCEPT ![idx[t]] = client[t]]
  /\ Release(t)
  /\ Goto(t, "idle")
  /\ UNCHANGED <<setup, counter, connVars, idx, client, closing>>

-----------------------------------------------------------------------------
(* close: one client.close() after the other, each read from the list when *)
(* its turn comes; no flag marks the pool closed.                          *)

StartClose(t) ==
  /\ phase = "ready" /\ pc[t] = "idle"
  /\ closing' = [closing EXCEPT ![t] = 0]
  /\ Goto(t, "close")
  /\ UNCHANGED <<setup, poolVars, connVars, idx, client>>

CloseMember(t) ==
  /\ pc[t] = "close"
  /\ shut' = shut \cup {slots[closing[t]]}
  /\ IF closing[t] + 1 = Size THEN Goto(t, "idle") /\ UNCHANGED closing
       ELSE closing' = [closing EXCEPT ![t] = @ + 1] /\ UNCHANGED pc
  /\ UNCHANGED <<setup, poolVars, opened, alive, idx, client>>

(* The reader of a connection ends: the peer went away, or answered BYE.   *)
ConnectionDies(c) ==
  /\ c \in alive
  /\ alive' = alive \ {c}
  /\ UNCHANGED <<setup, poolVars, opened, shut, threadVars>>

-----------------------------------------------------------------------------
Progress(t) ==
  Check(t) \/ LockSlot(t) \/ Recheck(t) \/ Dial(t) \/ DialFails(t) \/ Install(t) \/ CloseMember(t)

Next ==
  \/ OpenMember \/ OpenFails \/ Unwind
  \/ \E t \in Threads : Get(t) \/ GetHealthy(t) \/ StartClose(t) \/ Progress(t)
  \/ \E c \in Conns : ConnectionDies(c)

Spec == Init /\ [][Next]_vars

(* A dial ends, one way or the other (connect_timeout), and a thread that  *)
(* waits for a lock that is released again and again gets it.              *)
FairSpec ==
  Spec /\ \A t \in Threads : WF_vars(Progress(t)) /\ SF_vars(LockSlot(t))

-----------------------------------------------------------------------------
(* Every variable stays in its domain; a ready pool has a client in every  *)
(* slot (connect_with, get_healthy).                                       *)
TypeOK ==
  /\ phase \in {"opening", "unwinding", "ready", "failed"} /\ hasTarget \in BOOLEAN
  /\ slots \in [Slots -> Conns \cup {NoConn}]
  /\ opened \in 0..MaxConns
  /\ alive \subseteq 1..opened
  /\ shut \subseteq 1..opened
  /\ counter \in Slots \cup {0}
  /\ lock \in [Slots -> Threads \cup {NoThread}]
  /\ pc \in [Threads -> {"idle", "check", "lock", "recheck", "dial", "install", "close"}]
  /\ idx \in [Threads -> Nat] /\ closing \in [Threads -> Nat]
  /\ client \in [Threads -> 0..opened]
  /\ phase = "ready" => \A i \in Slots : slots[i] # NoConn

(* At most one reconnect runs per member at a time, and concurrent callers *)
(* share it (get_healthy): a member is replaced only when it is dead, so a *)
(* caller never throws away the fresh connection of another.               *)
OnlyDeadReplaced ==
  [][\A i \in Slots : slots[i] # NoConn /\ slots'[i] # slots[i] => slots[i] \notin alive]_vars

(* connect_with closes what it opened when it fails, and a replacement is  *)
(* never lost: a connection that lives and was not closed is a member of   *)
(* the pool, or in the hands of the thread about to install it.            *)
NoOrphan ==
  \A c \in alive \ shut :
    \/ phase # "failed" /\ \E i \in Slots : slots[i] = c
    \/ \E t \in Threads : pc[t] = "install" /\ client[t] = c

(* Every borrower gets an answer: a failed dial does not leave the slot    *)
(* locked for the callers waiting behind it (get_healthy).                 *)
BorrowReturns == \A t \in Threads : pc[t] = "check" ~> pc[t] = "idle"
=============================================================================
