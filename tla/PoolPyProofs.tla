----------------------------- MODULE PoolPyProofs -----------------------------
(***************************************************************************)
(* Safety of the threaded pool, for any number of threads, members and     *)
(* dials: its types, that no connection is lost, and that only a dead      *)
(* member is ever replaced.                                                *)
(*                                                                         *)
(* The argument.  A thread between Recheck and the release of a slot's     *)
(* reconnect lock holds that lock (Holds), so the slot it found dead under *)
(* the lock cannot have been given a fresh connection by another thread    *)
(* (DeadSlot): connections are numbered in the order of dialing, and one   *)
(* that is dialed later is not the one in the slot.                        *)
(***************************************************************************)
EXTENDS PoolPy, TLAPS

Working == {"check", "lock", "recheck", "dial", "install"}
Locked == {"recheck", "dial", "install"}

(* Slots hold connections that were dialed; connect_with fills them in     *)
(* order, and a ready pool has no empty one.                               *)
Members ==
  /\ \A i \in Slots : slots[i] <= opened
  /\ phase \in {"opening", "unwinding"} =>
       /\ opened < Size
       /\ \A i \in Slots : slots[i] = IF i < opened THEN i + 1 ELSE NoConn

(* Threads use a pool that connect_with has returned; a pool that failed   *)
(* to open keeps nothing open.                                             *)
Phases ==
  /\ phase # "ready" => \A t \in Threads : pc[t] = "idle"
  /\ phase = "ready" => Size >= 1
  /\ phase = "failed" => alive \subseteq shut

Indices ==
  \A t \in Threads : /\ pc[t] \in Working => idx[t] \in Slots
                     /\ pc[t] = "close" => closing[t] \in Slots
                     /\ pc[t] = "install" => client[t] # NoConn

(* The reconnect lock of a slot is held by the thread that rechecks, dials *)
(* or installs there.                                                      *)
Holds == \A t \in Threads : pc[t] \in Locked => lock[idx[t]] = t

(* What it found dead under the lock is dead still.                        *)
DeadSlot == \A t \in Threads : pc[t] \in {"dial", "install"} => slots[idx[t]] \notin alive

IInv == TypeOK /\ Members /\ Phases /\ Indices /\ Holds /\ DeadSlot /\ NoOrphan

-----------------------------------------------------------------------------
(* A pool nobody has opened yet satisfies the invariant.                   *)
LEMMA InitIInv == Init => IInv
BY PoolAssumption DEF Init, IInv, TypeOK, Members, Phases, Indices, Holds, DeadSlot, NoOrphan,
  Slots, Conns, NoConn, Working, Locked

(* Every critical section, test, dial and assignment of pool.py keeps it.  *)
LEMMA NextIInv == IInv /\ [Next]_vars => IInv'
<1> SUFFICES ASSUME IInv, [Next]_vars PROVE IInv'
  OBVIOUS
<1> USE PoolAssumption DEF IInv, setup, poolVars, connVars, threadVars, Goto, Slots, Conns, NoConn,
  Working, Locked
<1>1. CASE OpenMember
  <2>1. TypeOK' BY <1>1 DEF TypeOK, Members, OpenMember, Connected
  <2>2. Members' BY <1>1 DEF Members, TypeOK, OpenMember, Connected
  <2>3. Phases' BY <1>1 DEF Phases, TypeOK, OpenMember, Connected
  <2>4. Indices' BY <1>1 DEF Indices, Phases, OpenMember, Connected
  <2>5. Holds' BY <1>1 DEF Holds, Phases, OpenMember, Connected
  <2>6. DeadSlot' BY <1>1 DEF DeadSlot, Phases, OpenMember, Connected
  <2>7. NoOrphan' BY <1>1 DEF NoOrphan, TypeOK, Members, OpenMember, Connected
  <2>8. QED BY <2>1, <2>2, <2>3, <2>4, <2>5, <2>6, <2>7
<1>2. CASE OpenFails
  <2>1. TypeOK' BY <1>2 DEF TypeOK, OpenFails
  <2>2. Members' BY <1>2 DEF Members, OpenFails
  <2>3. Phases' BY <1>2 DEF Phases, OpenFails
  <2>4. Indices' BY <1>2 DEF Indices, OpenFails
  <2>5. Holds' BY <1>2 DEF Holds, OpenFails
  <2>6. DeadSlot' BY <1>2 DEF DeadSlot, OpenFails
  <2>7. NoOrphan' BY <1>2 DEF NoOrphan, OpenFails
  <2>8. QED BY <2>1, <2>2, <2>3, <2>4, <2>5, <2>6, <2>7
<1>3. CASE Unwind
  <2>1. TypeOK' BY <1>3 DEF TypeOK, Unwind
  <2>2. Members' BY <1>3 DEF Members, Unwind
  <2>3. Phases' BY <1>3 DEF Phases, TypeOK, Unwind
  <2>4. Indices' BY <1>3 DEF Indices, Unwind
  <2>5. Holds' BY <1>3 DEF Holds, Unwind
  <2>6. DeadSlot' BY <1>3 DEF DeadSlot, Unwind
  <2>7. NoOrphan' BY <1>3 DEF NoOrphan, TypeOK, Unwind
  <2>8. QED BY <2>1, <2>2, <2>3, <2>4, <2>5, <2>6, <2>7
<1>4. ASSUME NEW t \in Threads, Get(t) PROVE IInv'
  <2>1. TypeOK' BY <1>4 DEF TypeOK, Members, Phases, Get, NextSlot
  <2>2. Members' BY <1>4 DEF Members, Get, NextSlot
  <2>3. Phases' BY <1>4 DEF Phases, Get, NextSlot
  <2>4. Indices' BY <1>4 DEF Indices, TypeOK, Get, NextSlot
  <2>5. Holds' BY <1>4 DEF Holds, Get, NextSlot
  <2>6. DeadSlot' BY <1>4 DEF DeadSlot, Get, NextSlot
  <2>7. NoOrphan' BY <1>4 DEF NoOrphan, TypeOK, Get, NextSlot
  <2>8. QED BY <2>1, <2>2, <2>3, <2>4, <2>5, <2>6, <2>7
<1>5. ASSUME NEW t \in Threads, GetHealthy(t) PROVE IInv'
  <2>1. TypeOK' BY <1>5 DEF TypeOK, Members, Phases, GetHealthy, NextSlot
  <2>2. Members' BY <1>5 DEF Members, GetHealthy, NextSlot
  <2>3. Phases' BY <1>5 DEF Phases, TypeOK, GetHealthy, NextSlot
  <2>4. Indices' BY <1>5 DEF Indices, TypeOK, Phases, GetHealthy, NextSlot
  <2>5. Holds' BY <1>5 DEF Holds, TypeOK, GetHealthy, NextSlot
  <2>6. DeadSlot' BY <1>5 DEF DeadSlot, TypeOK, GetHealthy, NextSlot
  <2>7. NoOrphan' BY <1>5 DEF NoOrphan, TypeOK, GetHealthy, NextSlot
  <2>8. QED BY <2>1, <2>2, <2>3, <2>4, <2>5, <2>6, <2>7
<1>6. ASSUME NEW t \in Threads, StartClose(t) PROVE IInv'
  <2>1. TypeOK' BY <1>6 DEF TypeOK, StartClose
  <2>2. Members' BY <1>6 DEF Members, StartClose
  <2>3. Phases' BY <1>6 DEF Phases, TypeOK, StartClose
  <2>4. Indices' BY <1>6 DEF Indices, TypeOK, Phases, StartClose
  <2>5. Holds' BY <1>6 DEF Holds, TypeOK, StartClose
  <2>6. DeadSlot' BY <1>6 DEF DeadSlot, TypeOK, StartClose
  <2>7. NoOrphan' BY <1>6 DEF NoOrphan, TypeOK, StartClose
  <2>8. QED BY <2>1, <2>2, <2>3, <2>4, <2>5, <2>6, <2>7
<1>7. ASSUME NEW t \in Threads, Check(t) PROVE IInv'
  <2>1. TypeOK' BY <1>7 DEF TypeOK, Check
  <2>2. Members' BY <1>7 DEF Members, Check
  <2>3. Phases' BY <1>7 DEF Phases, TypeOK, Check
  <2>4. Indices' BY <1>7 DEF Indices, TypeOK, Check
  <2>5. Holds' BY <1>7 DEF Holds, TypeOK, Check
  <2>6. DeadSlot' BY <1>7 DEF DeadSlot, TypeOK, Check
  <2>7. NoOrphan' BY <1>7 DEF NoOrphan, TypeOK, Check
  <2>8. QED BY <2>1, <2>2, <2>3, <2>4, <2>5, <2>6, <2>7
<1>8. ASSUME NEW t \in Threads, LockSlot(t) PROVE IInv'
  <2>1. TypeOK' BY <1>8 DEF TypeOK, Indices, LockSlot
  <2>2. Members' BY <1>8 DEF Members, LockSlot
  <2>3. Phases' BY <1>8 DEF Phases, TypeOK, LockSlot
  <2>4. Indices' BY <1>8 DEF Indices, TypeOK, LockSlot
  <2>5. Holds' BY <1>8 DEF Holds, TypeOK, Indices, LockSlot
  <2>6. DeadSlot' BY <1>8 DEF DeadSlot, TypeOK, LockSlot
  <2>7. NoOrphan' BY <1>8 DEF NoOrphan, TypeOK, LockSlot
  <2>8. QED BY <2>1, <2>2, <2>3, <2>4, <2>5, <2>6, <2>7
<1>9. ASSUME NEW t \in Threads, Dial(t) PROVE IInv'
  <2>1. TypeOK' BY <1>9 DEF TypeOK, Dial, Connected
  <2>2. Members' BY <1>9 DEF Members, TypeOK, Phases, Dial, Connected
  <2>3. Phases' BY <1>9 DEF Phases, TypeOK, Dial, Connected
  <2>4. Indices' BY <1>9 DEF Indices, TypeOK, Dial, Connected
  <2>5. Holds' BY <1>9 DEF Holds, TypeOK, Dial, Connected
  <2>6. DeadSlot' BY <1>9 DEF DeadSlot, TypeOK, Members, Indices, Dial, Connected
  <2>7. NoOrphan' BY <1>9 DEF NoOrphan, TypeOK, Phases, Dial, Connected
  <2>8. QED BY <2>1, <2>2, <2>3, <2>4, <2>5, <2>6, <2>7
<1>10. ASSUME NEW t \in Threads, DialFails(t) PROVE IInv'
  <2>1. TypeOK' BY <1>10 DEF TypeOK, Indices, DialFails, Release
  <2>2. Members' BY <1>10 DEF Members, DialFails, Release
  <2>3. Phases' BY <1>10 DEF Phases, TypeOK, DialFails, Release
  <2>4. Indices' BY <1>10 DEF Indices, TypeOK, DialFails, Release
  <2>5. Holds' BY <1>10 DEF Holds, TypeOK, Indices, DialFails, Release
  <2>6. DeadSlot' BY <1>10 DEF DeadSlot, TypeOK, DialFails, Release
  <2>7. NoOrphan' BY <1>10 DEF NoOrphan, TypeOK, DialFails, Release
  <2>8. QED BY <2>1, <2>2, <2>3, <2>4, <2>5, <2>6, <2>7
<1>11. ASSUME NEW t \in Threads, Install(t) PROVE IInv'
  <2>1. TypeOK' BY <1>11 DEF TypeOK, Indices, Install, Release
  <2>2. Members' BY <1>11 DEF Members, TypeOK, Phases, Install, Release
  <2>3. Phases' BY <1>11 DEF Phases, TypeOK, Install, Release
  <2>4. Indices' BY <1>11 DEF Indices, TypeOK, Install, Release
  <2>5. Holds' BY <1>11 DEF Holds, TypeOK, Indices, Install, Release
  <2>6. DeadSlot' BY <1>11 DEF DeadSlot, TypeOK, Indices, Holds, Install, Release
  <2>7. NoOrphan' BY <1>11, SMTT(30) DEF NoOrphan, TypeOK, Members, Phases, Indices, Holds, DeadSlot, Install, Release
  <2>8. QED BY <2>1, <2>2, <2>3, <2>4, <2>5, <2>6, <2>7
<1>12. ASSUME NEW c \in Conns, ConnectionDies(c) PROVE IInv'
  <2>1. TypeOK' BY <1>12 DEF TypeOK, ConnectionDies
  <2>2. Members' BY <1>12 DEF Members, ConnectionDies
  <2>3. Phases' BY <1>12 DEF Phases, ConnectionDies
  <2>4. Indices' BY <1>12 DEF Indices, ConnectionDies
  <2>5. Holds' BY <1>12 DEF Holds, ConnectionDies
  <2>6. DeadSlot' BY <1>12 DEF DeadSlot, ConnectionDies
  <2>7. NoOrphan' BY <1>12 DEF NoOrphan, ConnectionDies
  <2>8. QED BY <2>1, <2>2, <2>3, <2>4, <2>5, <2>6, <2>7
<1>13. ASSUME NEW t \in Threads, Recheck(t) PROVE IInv'
  <2>1. CASE slots[idx[t]] \in alive
    <3>1. /\ idx[t] \in Slots
          /\ lock' = [lock EXCEPT ![idx[t]] = NoThread]
          /\ pc' = [pc EXCEPT ![t] = "idle"]
          /\ client' = [client EXCEPT ![t] = slots[idx[t]]]
          /\ slots[idx[t]] \in 0..opened
          /\ UNCHANGED <<phase, hasTarget, slots, counter, opened, alive, shut, idx, closing>>
      BY <1>13, <2>1 DEF TypeOK, Members, Indices, Recheck, Release
    <3>2. TypeOK' BY <3>1 DEF TypeOK
    <3>3. Members' /\ Phases' BY <1>13, <3>1 DEF TypeOK, Members, Phases, Recheck
    <3>4. Indices' BY <3>1 DEF TypeOK, Indices
    <3>5. Holds' BY <1>13, <3>1 DEF TypeOK, Holds, Indices, Recheck
    <3>6. DeadSlot' BY <3>1 DEF TypeOK, DeadSlot
    <3>7. NoOrphan' BY <1>13, <3>1 DEF TypeOK, NoOrphan, Recheck
    <3>8. QED BY <3>2, <3>3, <3>4, <3>5, <3>6, <3>7
  <2>2. CASE slots[idx[t]] \notin alive
    <3>1. TypeOK' BY <1>13, <2>2 DEF TypeOK, Members, Indices, Recheck
    <3>2. Members' /\ Phases' BY <1>13, <2>2 DEF TypeOK, Members, Phases, Recheck
    <3>3. Indices' BY <1>13, <2>2 DEF TypeOK, Indices, Recheck
    <3>4. Holds' BY <1>13, <2>2 DEF TypeOK, Holds, Recheck
    <3>5. DeadSlot' BY <1>13, <2>2 DEF TypeOK, DeadSlot, Recheck
    <3>6. NoOrphan' BY <1>13, <2>2 DEF TypeOK, NoOrphan, Recheck
    <3>7. QED BY <3>1, <3>2, <3>3, <3>4, <3>5, <3>6
  <2>3. QED BY <2>1, <2>2
<1>14. ASSUME NEW t \in Threads, CloseMember(t) PROVE IInv'
  <2>1. phase = "ready" /\ slots[closing[t]] \in 1..opened
    BY <1>14 DEF CloseMember, TypeOK, Members, Phases, Indices
  <2>2. CASE closing[t] + 1 = Size
    <3>1. TypeOK' BY <1>14, <2>1, <2>2 DEF TypeOK, CloseMember
    <3>2. Members' /\ Phases' BY <1>14, <2>1, <2>2 DEF TypeOK, Members, Phases, CloseMember
    <3>3. Indices' BY <1>14, <2>1, <2>2 DEF TypeOK, Indices, CloseMember
    <3>4. Holds' /\ DeadSlot' BY <1>14, <2>1, <2>2 DEF TypeOK, Holds, DeadSlot, CloseMember
    <3>5. NoOrphan' BY <1>14, <2>1, <2>2 DEF TypeOK, NoOrphan, CloseMember
    <3>6. QED BY <3>1, <3>2, <3>3, <3>4, <3>5
  <2>3. CASE closing[t] + 1 # Size
    <3>1. closing[t] + 1 \in Slots /\ closing' = [closing EXCEPT ![t] = closing[t] + 1]
      BY <1>14, <2>3 DEF TypeOK, Indices, CloseMember
    <3>2. TypeOK'
      <4>1. closing' \in [Threads -> Nat]
        <5>1. closing \in [Threads -> Nat] /\ closing[t] + 1 \in Nat BY <3>1 DEF TypeOK
        <5>2. QED BY <3>1, <5>1
      <4>2. UNCHANGED <<phase, hasTarget, slots, opened, alive, counter, lock, pc, idx, client>>
        BY <1>14, <2>3 DEF CloseMember
      <4>3. shut' \subseteq 1..opened BY <1>14, <2>1 DEF TypeOK, CloseMember
      <4>4. QED BY <4>1, <4>2, <4>3 DEF TypeOK
    <3>3. Members' /\ Phases' BY <1>14, <2>1, <2>3 DEF TypeOK, Members, Phases, CloseMember
    <3>4. Indices' BY <1>14, <2>3, <3>1 DEF TypeOK, Indices, CloseMember
    <3>5. Holds' /\ DeadSlot' BY <1>14, <2>1, <2>3 DEF TypeOK, Holds, DeadSlot, CloseMember
    <3>6. NoOrphan' BY <1>14, <2>1, <2>3 DEF TypeOK, NoOrphan, CloseMember
    <3>7. QED BY <3>2, <3>3, <3>4, <3>5, <3>6
  <2>4. QED BY <2>2, <2>3
<1>15. CASE UNCHANGED vars
  BY <1>15 DEF vars, TypeOK, Members, Phases, Indices, Holds, DeadSlot, NoOrphan
<1>16. QED
  BY <1>1, <1>2, <1>3, <1>4, <1>5, <1>6, <1>7, <1>8, <1>9, <1>10, <1>11, <1>12, <1>13, <1>14, <1>15
  DEF Next, Progress

(* The inductive invariant holds in every reachable state.                 *)
LEMMA Invariant == Spec => []IInv
BY InitIInv, NextIInv, PTL DEF Spec

-----------------------------------------------------------------------------
(* Every reachable state of the pool is well-typed: the round-robin counter*)
(* stays a slot, and a ready pool has a client in every one.               *)
THEOREM PoolTyped == Spec => []TypeOK
<1>1. IInv => TypeOK BY DEF IInv
<1>2. QED BY Invariant, <1>1, PTL

(* connect_with and get_healthy lose no connection: one that lives and was *)
(* not closed is a member, or about to be installed by its dialer.         *)
THEOREM NothingLost == Spec => []NoOrphan
<1>1. IInv => NoOrphan BY DEF IInv
<1>2. QED BY Invariant, <1>1, PTL

(* get_healthy replaces dead members only, however many threads find the   *)
(* same member dead at the same time.                                      *)
THEOREM DeadReplaced == Spec => OnlyDeadReplaced
<1> DEFINE Kept == \A i \in Slots : slots[i] # NoConn /\ slots'[i] # slots[i] => slots[i] \notin alive
<1>1. IInv /\ [Next]_vars => [Kept]_vars
  <2> SUFFICES ASSUME IInv, Next PROVE Kept
    OBVIOUS
  <2> USE DEF IInv, TypeOK, setup, poolVars, connVars, threadVars
  <2>1. CASE OpenMember BY <2>1 DEF OpenMember, Members, Slots
  <2>2. CASE OpenFails \/ Unwind BY <2>2 DEF OpenFails, Unwind
  <2>3. ASSUME NEW t \in Threads, Install(t) PROVE Kept
    BY <2>3 DEF Install, DeadSlot, Indices, Working
  <2>4. ASSUME NEW t \in Threads, Get(t) \/ GetHealthy(t) \/ StartClose(t) \/ Check(t) \/ LockSlot(t)
                 \/ Recheck(t) \/ Dial(t) \/ DialFails(t) \/ CloseMember(t)
        PROVE  Kept
    BY <2>4 DEF Get, GetHealthy, StartClose, Check, LockSlot, Recheck, Dial, DialFails, CloseMember
  <2>5. ASSUME NEW c \in Conns, ConnectionDies(c) PROVE Kept
    BY <2>5 DEF ConnectionDies
  <2>6. QED BY <2>1, <2>2, <2>3, <2>4, <2>5 DEF Next, Progress
<1>2. QED BY Invariant, <1>1, PTL DEF Spec, OnlyDeadReplaced
=============================================================================
