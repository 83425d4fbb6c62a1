----------------------------- MODULE RetryProofs ------------------------------
(***************************************************************************)
(* Proofs about Retry: its typing, that a keyed or single-shot write is    *)
(* stored at most once, that an operation gives up only when its attempts  *)
(* are spent, that every wait lies between the server's hint and the cap,  *)
(* and that the SDKs share one backoff curve.  They hold for every set of  *)
(* policies, hints and clients.                                            *)
(*                                                                         *)
(* The first part is about Doubling: that the recursive definition has a   *)
(* solution, and that it grows.  Induction over the naturals is used in    *)
(* the form "a set that holds 0 and the successor of each of its elements  *)
(* holds every natural number", which follows from the well-foundedness of *)
(* the order.                                                              *)
(***************************************************************************)
EXTENDS Retry, WellFoundedInduction, TLAPS

-----------------------------------------------------------------------------
(* Induction over the naturals, and powers of two.                         *)

Below == OpToRel(<, Nat)

(* The order on the naturals, as a relation, has no infinite descent.      *)
LEMMA BelowIsLess ==
  /\ IsWellFoundedOn(Below, Nat)
  /\ \A x, y \in Nat : x < y => <<x, y>> \in Below
<1>1. IsWellFoundedOn(Below, Nat)
  BY NatLessThanWellFounded, Zenon DEF Below
<1>2. \A x, y \in Nat : x < y => <<x, y>> \in Below
  BY DEF Below, OpToRel
<1> QED BY <1>1, <1>2

(* A set of naturals that is not empty has a least element.                *)
LEMMA LeastElement ==
  ASSUME NEW T, T \subseteq Nat, T # {}
  PROVE  \E x \in T : \A y \in T : ~(y < x)
<1>1. IsWellFoundedOn(Below, Nat)
  BY BelowIsLess
<1>2. \E x \in T : \A y \in T : ~(<<y, x>> \in Below)
  BY <1>1, WFMin
<1> QED BY <1>2, BelowIsLess

(* The principle of induction, for a set.                                  *)
LEMMA SetInduction ==
  ASSUME NEW S, 0 \in S, \A n \in Nat : n \in S => n + 1 \in S
  PROVE  Nat \subseteq S
<1> DEFINE T == Nat \ S
<1>1. SUFFICES ASSUME T # {} PROVE FALSE
  OBVIOUS
<1>2. T \subseteq Nat /\ T # {}
  BY <1>1
<1> HIDE DEF T
<1>3. PICK x \in T : \A y \in T : ~(y < x)
  BY <1>2, LeastElement
<1>4. x \in Nat /\ x # 0 /\ x - 1 \in Nat /\ x - 1 < x
  BY <1>3 DEF T
<1>5. (x - 1) + 1 \in S
  BY <1>3, <1>4 DEF T
<1> QED BY <1>3, <1>4, <1>5 DEF T

(* f holds the first n + 1 powers of two.                                  *)
Doubles(f, n) == f = [i \in 0..n |-> IF i = 0 THEN 1 ELSE 2 * f[i - 1]]

(* There is such an f for every n.                                         *)
LEMMA SegmentsExist == \A n \in Nat : \E f : Doubles(f, n)
<1> DEFINE S == {n \in Nat : \E f : Doubles(f, n)}
<1>1. 0 \in S
  <2>1. Doubles([i \in 0..0 |-> 1], 0)
    BY DEF Doubles
  <2> QED BY <2>1
<1>2. ASSUME NEW n \in Nat, n \in S PROVE n + 1 \in S
  <2>1. PICK f : Doubles(f, n)
    BY <1>2
  <2> DEFINE g == [i \in 0..(n + 1) |-> IF i <= n THEN f[i] ELSE 2 * f[n]]
  <2>2. \A i \in 0..n : f[i] = IF i = 0 THEN 1 ELSE 2 * f[i - 1]
    BY <2>1 DEF Doubles
  <2>3. \A i \in 0..(n + 1) : g[i] = IF i = 0 THEN 1 ELSE 2 * g[i - 1]
    BY <2>2
  <2>4. Doubles(g, n + 1)
    BY <2>3 DEF Doubles
  <2> QED BY <2>4
<1> HIDE DEF S
<1>3. Nat \subseteq S
  BY <1>1, <1>2, SetInduction
<1> QED BY <1>3 DEF S

(* Two of them agree where both are defined.                               *)
LEMMA SegmentsAgree ==
  ASSUME NEW m \in Nat, NEW n \in Nat, NEW f, NEW g, Doubles(f, m), Doubles(g, n)
  PROVE  \A i \in Nat : i <= m /\ i <= n => f[i] = g[i]
<1> DEFINE S == {i \in Nat : i <= m /\ i <= n => f[i] = g[i]}
<1>1. /\ \A i \in 0..m : f[i] = IF i = 0 THEN 1 ELSE 2 * f[i - 1]
      /\ \A i \in 0..n : g[i] = IF i = 0 THEN 1 ELSE 2 * g[i - 1]
  BY DEF Doubles
<1>2. 0 \in S
  BY <1>1
<1>3. ASSUME NEW i \in Nat, i \in S PROVE i + 1 \in S
  BY <1>1, <1>3
<1> HIDE DEF S
<1>4. Nat \subseteq S
  BY <1>2, <1>3, SetInduction
<1> QED BY <1>4 DEF S

(* The definition of Doubling has a solution, so Doubling is one.          *)
LEMMA DoublingUnfolds ==
  Doubling = [n \in Nat |-> IF n = 0 THEN 1 ELSE 2 * Doubling[n - 1]]
<1> DEFINE F(n) == CHOOSE f : Doubles(f, n)
           P == [n \in Nat |-> F(n)[n]]
<1>1. \A n \in Nat : Doubles(F(n), n)
  BY SegmentsExist
<1> HIDE DEF F
<1>2. ASSUME NEW n \in Nat, n # 0 PROVE P[n] = 2 * P[n - 1]
  <2>1. Doubles(F(n), n) /\ Doubles(F(n - 1), n - 1) /\ n - 1 \in Nat
    BY <1>1, <1>2
  <2>2. F(n)[n] = 2 * F(n)[n - 1]
    BY <2>1, <1>2 DEF Doubles
  <2>3. F(n)[n - 1] = F(n - 1)[n - 1]
    BY <2>1, SegmentsAgree
  <2> QED BY <2>1, <2>2, <2>3
<1>3. P[0] = 1
  BY <1>1 DEF Doubles
<1>4. P = [n \in Nat |-> IF n = 0 THEN 1 ELSE 2 * P[n - 1]]
  BY <1>2, <1>3
<1> HIDE DEF P
<1>5. \E f : f = [n \in Nat |-> IF n = 0 THEN 1 ELSE 2 * f[n - 1]]
  BY <1>4
<1> QED BY <1>5 DEF Doubling

(* Every power of two is a positive natural number.                        *)
LEMMA DoublingType == \A n \in Nat : Doubling[n] \in Nat /\ Doubling[n] > 0
<1> DEFINE S == {n \in Nat : Doubling[n] \in Nat /\ Doubling[n] > 0}
<1>0. \A n \in Nat : Doubling[n] = IF n = 0 THEN 1 ELSE 2 * Doubling[n - 1]
  BY DoublingUnfolds
<1>1. 0 \in S
  BY <1>0
<1>2. ASSUME NEW n \in Nat, n \in S PROVE n + 1 \in S
  BY <1>0, <1>2
<1> HIDE DEF S
<1>3. Nat \subseteq S
  BY <1>1, <1>2, SetInduction
<1> QED BY <1>3 DEF S

(* They grow.                                                              *)
LEMMA DoublingGrows ==
  ASSUME NEW m \in Nat, NEW n \in Nat, m <= n
  PROVE  Doubling[m] <= Doubling[n]
<1> DEFINE S == {k \in Nat : Doubling[m] <= Doubling[m + k]}
<1>0. \A k \in Nat : Doubling[k] = IF k = 0 THEN 1 ELSE 2 * Doubling[k - 1]
  BY DoublingUnfolds
<1>1. 0 \in S
  BY DoublingType
<1>2. ASSUME NEW k \in Nat, k \in S PROVE k + 1 \in S
  <2>1. Doubling[m + (k + 1)] = 2 * Doubling[m + k]
    BY <1>0
  <2>2. Doubling[m] \in Nat /\ Doubling[m + k] \in Nat
    BY DoublingType
  <2> QED BY <1>2, <2>1, <2>2
<1> HIDE DEF S
<1>3. n - m \in S
  BY <1>1, <1>2, SetInduction
<1> QED BY <1>3 DEF S

-----------------------------------------------------------------------------
(* The backoff.                                                            *)

AnyClient == WireClients \cup HttpClients

(* The schedule every client is to follow: the hint, or the base doubled   *)
(* for each attempt made, up to the cap.                                   *)
Curve(p, a, hint) ==
  IF hint # NoHint THEN Smaller(hint, p.max_delay)
  ELSE Smaller(p.base_delay * Doubling[a - 1], p.max_delay)

(* The same with the saturating shift of Rust.                             *)
Saturated(p, a, hint) ==
  IF hint # NoHint THEN Smaller(hint, p.max_delay)
  ELSE Smaller(p.base_delay * Doubling[Smaller(a - 1, ShiftCap)], p.max_delay)

(* A product of naturals is a natural, and grows with a factor.            *)
LEMMA Products ==
  ASSUME NEW b \in Nat, NEW x \in Nat, NEW y \in Nat, x <= y
  PROVE  b * x \in Nat /\ b * x <= b * y
OBVIOUS

(* A base delay of zero stays zero. *)
LEMMA ZeroProduct ==
  ASSUME NEW x \in Nat
  PROVE  0 * x = 0
OBVIOUS

(* The smaller of two naturals.                                            *)
LEMMA SmallerIs ==
  ASSUME NEW x \in Nat, NEW y \in Nat
  PROVE  /\ Smaller(x, y) \in Nat /\ Smaller(x, y) <= y /\ Smaller(x, y) <= x
         /\ Smaller(x, y) \in {x, y}
BY DEF Smaller

(* Without a delay to start from there is none to wait.                    *)
LEMMA NoBase ==
  ASSUME NEW p \in RetryPolicy, p.base_delay = 0, NEW n \in Nat
  PROVE  Smaller(p.base_delay * Doubling[n], p.max_delay) = 0
<1>1. Doubling[n] \in Nat /\ p.max_delay \in Nat
  BY DoublingType DEF RetryPolicy
<1>2. p.base_delay * Doubling[n] = 0
  BY <1>1, ZeroProduct
<1> QED BY <1>1, <1>2 DEF Smaller

(* The seven functions are two.                                            *)
LEMMA BackoffForms ==
  ASSUME NEW c \in AnyClient, NEW p \in RetryPolicy, NEW a \in Nat \ {0}, NEW h
  PROVE  Backoff(c, p, a, h) = IF c \in {"rust", "http_rust"} THEN Saturated(p, a, h)
                               ELSE Curve(p, a, h)
<1>1. a - 1 \in Nat /\ Smaller(a - 1, ShiftCap) \in Nat
  BY RetryAssumption, SmallerIs
<1>2. /\ BackoffPy(p, a, h) = Curve(p, a, h)
      /\ BackoffTs(p, a, h) = Curve(p, a, h)
  BY <1>1, NoBase DEF BackoffPy, BackoffTs, Curve
<1>3. BackoffRust(p, a, h) = Saturated(p, a, h)
  BY <1>1, NoBase DEF BackoffRust, Saturated
<1>4. /\ HttpBackoffPy(p, a, h) = Curve(p, a, h)
      /\ HttpBackoffTs(p, a, h) = Curve(p, a, h)
      /\ HttpBackoffRust(p, a, h) = Saturated(p, a, h)
  BY DEF HttpBackoffPy, HttpBackoffTs, HttpBackoffRust, Curve, Saturated
<1>5. c \in {"python", "aio", "rust", "typescript", "http_python", "http_rust", "http_typescript"}
  BY DEF AnyClient, WireClients, HttpClients
<1> QED BY <1>2, <1>3, <1>4, <1>5 DEF Backoff

(* Both are at most the cap, and a hint below the cap is what they are.    *)
LEMMA CurveBounded ==
  ASSUME NEW p \in RetryPolicy, NEW a \in Nat \ {0}, NEW h \in Hints \cup {NoHint}
  PROVE  /\ Curve(p, a, h) \in Nat /\ Curve(p, a, h) <= p.max_delay
         /\ Saturated(p, a, h) \in Nat /\ Saturated(p, a, h) <= p.max_delay
         /\ h # NoHint => /\ Curve(p, a, h) = Smaller(h, p.max_delay)
                          /\ Saturated(p, a, h) = Smaller(h, p.max_delay)
<1>1. p.base_delay \in Nat /\ p.max_delay \in Nat /\ ShiftCap \in Nat
  BY RetryAssumption DEF RetryPolicy
<1>2. a - 1 \in Nat /\ Smaller(a - 1, ShiftCap) \in Nat
  BY <1>1, SmallerIs
<1>3. /\ p.base_delay * Doubling[a - 1] \in Nat
      /\ p.base_delay * Doubling[Smaller(a - 1, ShiftCap)] \in Nat
  BY <1>1, <1>2, DoublingType, Products
<1>4. h # NoHint => h \in Nat
  BY RetryAssumption
<1> QED BY <1>1, <1>3, <1>4, SmallerIs DEF Curve, Saturated

(* Where the saturated shift has already reached the cap they are equal.   *)
LEMMA CurvesMeet ==
  ASSUME NEW p \in RetryPolicy, NEW a \in Nat \ {0}, NEW h,
         p.base_delay * Doubling[ShiftCap] >= p.max_delay
  PROVE  Saturated(p, a, h) = Curve(p, a, h)
<1>1. p.base_delay \in Nat /\ p.max_delay \in Nat /\ ShiftCap \in Nat /\ a - 1 \in Nat
  BY RetryAssumption DEF RetryPolicy
<1>2. CASE a - 1 <= ShiftCap
  BY <1>1, <1>2 DEF Smaller, Saturated, Curve
<1>3. CASE ~(a - 1 <= ShiftCap)
  <2>1. Smaller(a - 1, ShiftCap) = ShiftCap
    BY <1>3 DEF Smaller
  <2>2. /\ Doubling[ShiftCap] \in Nat /\ Doubling[a - 1] \in Nat
        /\ Doubling[ShiftCap] <= Doubling[a - 1]
    BY <1>1, <1>3, DoublingType, DoublingGrows
  <2> DEFINE x == p.base_delay * Doubling[ShiftCap]
             y == p.base_delay * Doubling[a - 1]
  <2>3. x \in Nat /\ y \in Nat /\ x <= y
    BY <1>1, <2>2, Products
  <2>4. Saturated(p, a, h) = IF h # NoHint THEN Smaller(h, p.max_delay) ELSE Smaller(x, p.max_delay)
    BY <2>1 DEF Saturated
  <2>5. Curve(p, a, h) = IF h # NoHint THEN Smaller(h, p.max_delay) ELSE Smaller(y, p.max_delay)
    BY DEF Curve
  <2>6. x >= p.max_delay
    OBVIOUS
  <2> HIDE DEF x, y
  <2>7. Smaller(x, p.max_delay) = p.max_delay /\ Smaller(y, p.max_delay) = p.max_delay
    BY <1>1, <2>3, <2>6 DEF Smaller
  <2> QED BY <2>4, <2>5, <2>7
<1> QED BY <1>2, <1>3

(* What a client may sleep: no less than the capped hint, no more than the *)
(* cap.                                                                    *)
LEMMA WindowBounds ==
  ASSUME NEW c \in AnyClient, NEW p \in RetryPolicy, NEW a \in Nat \ {0},
         NEW h \in Hints \cup {NoHint}, NEW d \in SleepWindow(c, p, a, h)
  PROVE  /\ d \in Nat /\ d <= p.max_delay
         /\ h # NoHint => d >= Smaller(h, p.max_delay)
<1> DEFINE b == Backoff(c, p, a, h)
           floor == IF h = NoHint THEN 0 ELSE Smaller(h, p.max_delay)
<1>1. /\ b \in Nat /\ b <= p.max_delay /\ p.max_delay \in Nat
      /\ h # NoHint => b = Smaller(h, p.max_delay)
  BY BackoffForms, CurveBounded DEF RetryPolicy
<1>2. floor \in Nat /\ floor <= b
  BY <1>1
<1>3. \/ d \in JitteredPy(b, floor) \/ d \in JitteredRust(b, floor)
      \/ d \in JitteredTs(b, floor) \/ d = b
  BY DEF SleepWindow
<1>4. h # NoHint => floor = Smaller(h, p.max_delay)
  OBVIOUS
<1> HIDE DEF b, floor
<1>5. d \in Nat /\ floor <= d /\ d <= b
  BY <1>1, <1>2, <1>3 DEF JitteredPy, JitteredRust, JitteredTs, Smaller
<1> QED BY <1>1, <1>2, <1>4, <1>5

-----------------------------------------------------------------------------
(* The inductive invariant.                                                *)

(* The link verb is HTTP's alone.                                          *)
Wrapped == verb = "link" => Http

(* A failure in hand is a failure.                                         *)
InHand == pc \in {"failed", "sleep"} => error.kind \in ErrorKinds

(* Who sleeps has an attempt left and a reason to go on; one attempt is    *)
(* all a single-shot verb gets.                                            *)
Sleeping ==
  /\ pc = "sleep" => /\ Retried /\ attempt < policy.max_attempts
                     /\ error.kind \notin {"rejected", "protocol", "none"}
  /\ ~Retried => attempt = 1

(* The attempts are spent when a retryable failure is the result.          *)
Spent == pc = "done" /\ Retried /\ result \in RetryablePy => attempt = LastAttempt

(* The antecedent of StoredOnce, and what it buys: all the attempts of the *)
(* write have the one key, and the server counts it once.                  *)
OneKey == verb = "encode" /\ Retried => CarriesKey
Counted ==
  OneKey => seen \subseteq {1} /\ stored = IF 1 \in seen THEN 1 ELSE 0

IInv ==
  /\ TypeOK /\ Wrapped /\ InHand /\ Sleeping /\ Spent /\ Counted /\ WaitInBounds

(* A policy, as TypeOK knows it.                                           *)
LEMMA PolicyTyped ==
  ASSUME TypeOK
  PROVE  /\ policy \in RetryPolicy /\ policy.max_attempts \in Nat
         /\ client \in AnyClient /\ attempt \in Nat \ {0}
         /\ error.hint \in Hints \cup {NoHint} /\ error.kind \in ErrorKinds \cup {"none"}
         /\ LastAttempt \in Nat /\ attempt <= LastAttempt
         /\ attempt < policy.max_attempts => attempt + 1 <= LastAttempt
         /\ ~(attempt < policy.max_attempts) => attempt = LastAttempt
<1>1. /\ policy \in RetryPolicy /\ client \in AnyClient
  BY RetryAssumption DEF TypeOK, AnyClient
<1>2. policy.max_attempts \in Nat
  BY <1>1 DEF RetryPolicy
<1>3. LastAttempt \in Nat /\ attempt \in 1..LastAttempt
  BY <1>2 DEF TypeOK, LastAttempt
<1>4. error.hint \in Hints \cup {NoHint} /\ error.kind \in ErrorKinds \cup {"none"}
  BY DEF TypeOK
<1> QED BY <1>1, <1>2, <1>3, <1>4 DEF LastAttempt

(* A client that goes round again has an attempt left and a retryable      *)
(* failure; one that does not lacks one or the other.                      *)
LEMMA AgainMeans ==
  ASSUME TypeOK, Wrapped
  PROVE  /\ Again => /\ AttemptsRemain /\ Retried
                     /\ error.kind \in HttpRetryableRust
         /\ ~Again /\ Retried /\ error.kind \in RetryablePy => ~AttemptsRemain
<1>1. client \in {"python", "aio", "rust", "typescript", "http_python", "http_rust", "http_typescript"}
  BY PolicyTyped DEF AnyClient, WireClients, HttpClients
<1>2. /\ RetryablePy \subseteq HttpRetryableRust /\ RetryableRust \subseteq HttpRetryableRust
      /\ RetryableTs \subseteq HttpRetryableRust /\ HttpRetryablePy \subseteq HttpRetryableRust
      /\ HttpRetryableTs \subseteq HttpRetryableRust
  BY DEF RetryablePy, RetryableRust, RetryableTs, HttpRetryablePy, HttpRetryableTs,
         HttpRetryableRust, TransportKinds
<1>3. /\ RetryablePy \subseteq RetryableRust /\ RetryablePy \subseteq RetryableTs
      /\ RetryablePy \subseteq HttpRetryablePy /\ RetryablePy \subseteq HttpRetryableTs
  BY DEF RetryablePy, RetryableRust, RetryableTs, HttpRetryablePy, HttpRetryableTs,
         TransportKinds
<1>4. client \in {"python", "aio", "rust", "typescript"} => Retried
  BY DEF Retried, Http, HttpClients
<1> QED
  BY <1>1, <1>2, <1>3, <1>4
     DEF Again, AgainPy, AgainAio, AgainRust, AgainTs, HttpAgainPy, HttpAgainRust, HttpAgainTs

(* The invariant holds initially. *)
LEMMA InitInv == Init => IInv
<1> SUFFICES ASSUME Init PROVE IInv
  OBVIOUS
<1>1. policy.max_attempts \in Nat /\ LastAttempt \in Nat \ {0}
  BY RetryAssumption DEF Init, RetryPolicy, LastAttempt
<1>2. TypeOK
  BY <1>1 DEF Init, TypeOK
<1>3. Wrapped /\ InHand /\ Sleeping /\ Spent /\ Counted /\ WaitInBounds
  BY DEF Init, Wrapped, Http, InHand, Sleeping, Spent, Counted, WaitInBounds
<1> QED BY <1>2, <1>3 DEF IInv

(* What no step changes, and the parts that depend on it alone.            *)
LEMMA SetupStays ==
  ASSUME UNCHANGED setup
  PROVE  /\ UNCHANGED <<client, verb, policy>>
         /\ Retried' <=> Retried
         /\ CarriesKey' <=> CarriesKey
         /\ OneKey' <=> OneKey
         /\ Wrapped => Wrapped'
         /\ LastAttempt' = LastAttempt
BY DEF setup, Retried, Http, CarriesKey, OneKey, Wrapped, LastAttempt

(* A step of the client that counts no attempt and stores nothing.         *)
LEMMA CountKept ==
  ASSUME UNCHANGED setup, UNCHANGED <<seen, stored>>, Counted
  PROVE  Counted'
BY SetupStays DEF Counted

(* An operation starts with nothing in flight. *)
LEMMA InvokeInv ==
  ASSUME IInv, Invoke
  PROVE  IInv'
<1> USE DEF IInv, Invoke
<1>1. TypeOK'
  BY PolicyTyped, SetupStays DEF TypeOK, setup
<1>2. Wrapped' /\ Counted'
  BY SetupStays, CountKept
<1>3. InHand' /\ Sleeping' /\ Spent' /\ WaitInBounds'
  BY SetupStays DEF InHand, Sleeping, Spent, WaitInBounds
<1> QED BY <1>1, <1>2, <1>3

(* An answer arrives in time. *)
LEMMA OpReturnsInv ==
  ASSUME IInv, OpReturns
  PROVE  IInv'
<1> USE DEF IInv, OpReturns
<1>1. TypeOK'
  <2>1. error' \in [kind : ErrorKinds \cup {"none"}, hint : Hints \cup {NoHint}]
    BY DEF TypeOK, ErrorKinds
  <2> QED BY <2>1, PolicyTyped, SetupStays DEF TypeOK, setup, serverVars, Finish
<1>2. Wrapped' /\ Counted'
  BY SetupStays, CountKept DEF serverVars
<1>3. InHand'
  BY DEF InHand, Finish, ErrorKinds
<1>4. Sleeping' /\ Spent' /\ WaitInBounds'
  BY SetupStays DEF Sleeping, Spent, WaitInBounds, Finish, RetryablePy
<1> QED BY <1>1, <1>2, <1>3, <1>4

(* An attempt fails; its request may still be in flight. *)
LEMMA OpFailsInv ==
  ASSUME IInv, OpFails
  PROVE  IInv'
<1> USE DEF IInv, OpFails
<1>1. TypeOK'
  <2>1. error' \in [kind : ErrorKinds \cup {"none"}, hint : Hints \cup {NoHint}]
    BY DEF ErrorKinds, TransportKinds, Dropped
  <2> QED BY <2>1, PolicyTyped, SetupStays DEF TypeOK, setup
<1>2. Wrapped' /\ Counted'
  BY SetupStays, CountKept
<1>3. InHand'
  BY DEF InHand, ErrorKinds, TransportKinds, Dropped
<1>4. Sleeping' /\ Spent' /\ WaitInBounds'
  BY SetupStays DEF Sleeping, Spent, WaitInBounds
<1> QED BY <1>1, <1>2, <1>3, <1>4

(* The loop gives up, or chooses a wait in the window of its client. *)
LEMMA DecideInv ==
  ASSUME IInv, Decide
  PROVE  IInv'
<1> USE DEF IInv
<1>0. pc = "failed" /\ UNCHANGED <<setup, attempt, error, reply, serverVars>>
  BY DEF Decide
<1>1. Wrapped' /\ Counted'
  BY <1>0, SetupStays, CountKept DEF serverVars
<1>2. CASE Again
  <2>1. /\ pc' = "sleep" /\ UNCHANGED result
        /\ delay' \in SleepWindow(client, policy, attempt, error.hint)
    BY <1>2 DEF Decide
  <2>2. /\ delay' \in Nat /\ delay' <= policy.max_delay
        /\ error.hint # NoHint => delay' >= Smaller(error.hint, policy.max_delay)
    BY <2>1, PolicyTyped, WindowBounds
  <2>3. TypeOK'
    BY <1>0, <2>1, <2>2, SetupStays DEF TypeOK, setup, serverVars
  <2>4. WaitInBounds'
    BY <1>0, <2>2, SetupStays DEF WaitInBounds
  <2>5. InHand' /\ Sleeping'
    BY <1>0, <1>2, <2>1, SetupStays, AgainMeans
       DEF InHand, Sleeping, AttemptsRemain, HttpRetryableRust, TransportKinds
  <2>6. Spent'
    BY <2>1 DEF Spent
  <2> QED BY <1>1, <2>3, <2>4, <2>5, <2>6
<1>3. CASE ~Again
  <2>1. pc' = "done" /\ result' = error.kind /\ UNCHANGED delay
    BY <1>3 DEF Decide, Finish
  <2>2. TypeOK'
    BY <1>0, <2>1, SetupStays DEF TypeOK, InHand, setup, serverVars
  <2>3. Spent'
    BY <1>0, <1>3, <2>1, SetupStays, AgainMeans, PolicyTyped DEF Spent, AttemptsRemain
  <2>4. InHand' /\ Sleeping' /\ WaitInBounds'
    BY <1>0, <2>1, SetupStays DEF InHand, Sleeping, WaitInBounds
  <2> QED BY <1>1, <2>2, <2>3, <2>4
<1> QED BY <1>2, <1>3

(* The next attempt starts. *)
LEMMA WakeInv ==
  ASSUME IInv, Wake
  PROVE  IInv'
<1> USE DEF IInv, Wake
<1>1. attempt + 1 <= LastAttempt /\ Retried
  BY PolicyTyped DEF Sleeping
<1>2. TypeOK'
  <2>1. 1..attempt \subseteq 1..(attempt + 1) /\ attempt' \in 1..LastAttempt'
    BY <1>1, PolicyTyped, SetupStays
  <2> QED BY <2>1, SetupStays DEF TypeOK, setup, serverVars
<1>3. Wrapped' /\ Counted'
  BY SetupStays, CountKept DEF serverVars
<1>4. InHand' /\ Sleeping' /\ Spent' /\ WaitInBounds'
  BY <1>1, SetupStays DEF InHand, Sleeping, Spent, WaitInBounds
<1> QED BY <1>2, <1>3, <1>4

(* The caller cancels. *)
LEMMA CancelInv ==
  ASSUME IInv, Cancel
  PROVE  IInv'
<1> USE DEF IInv, Cancel, Finish
<1>1. TypeOK'
  BY PolicyTyped, SetupStays DEF TypeOK, setup, serverVars
<1>2. Wrapped' /\ Counted'
  BY SetupStays, CountKept DEF serverVars
<1>3. InHand' /\ Sleeping' /\ Spent' /\ WaitInBounds'
  BY SetupStays DEF InHand, Sleeping, Spent, WaitInBounds, RetryablePy
<1> QED BY <1>1, <1>2, <1>3

(* Under OneKey a request in flight that would be stored has key 1.        *)
LEMMA FlyingKey ==
  ASSUME TypeOK, Wrapped, Sleeping, OneKey, verb # "recall", NEW a \in flying
  PROVE  Key(a) = 1
<1>1. CASE CarriesKey
  BY <1>1 DEF Key
<1>2. CASE ~CarriesKey
  <2>1. ~Retried
    BY <1>2, RetryAssumption DEF OneKey, Wrapped, Retried, TypeOK
  <2>2. attempt = 1 /\ a \in 1..1
    BY <2>1 DEF Sleeping, TypeOK
  <2> QED BY <1>2, <2>2 DEF Key
<1> QED BY <1>1, <1>2

(* The server carries a request out, perhaps one of an abandoned attempt. *)
LEMMA ServerExecutesInv ==
  ASSUME IInv, NEW a \in flying, ServerExecutes(a)
  PROVE  IInv'
<1> USE DEF IInv
<1>0. /\ UNCHANGED <<setup, pc, attempt, error, delay, result>>
      /\ flying' = flying \ {a}
      /\ \/ (verb = "recall" \/ Key(a) \in seen) /\ UNCHANGED <<seen, stored>>
         \/ /\ verb # "recall" /\ Key(a) \notin seen
            /\ seen' = seen \cup {Key(a)} /\ stored' = stored + 1
  BY DEF ServerExecutes
<1>1. TypeOK'
  <2>1. Key(a) \in 1..attempt
    BY PolicyTyped DEF TypeOK, Key
  <2>2. seen' \subseteq 1..attempt
    BY <1>0, <2>1 DEF TypeOK
  <2>3. stored' \in Nat
    BY <1>0 DEF TypeOK
  <2>4. reply' \in VerdictKinds \cup {"none", "ok"}
    BY DEF TypeOK, Answer, ServerExecutes
  <2> QED BY <1>0, <2>2, <2>3, <2>4, SetupStays DEF TypeOK, setup
<1>2. Counted'
  <2>1. CASE OneKey
    <3>1. seen \subseteq {1} /\ stored = IF 1 \in seen THEN 1 ELSE 0
      BY <2>1 DEF Counted
    <3>2. CASE verb = "recall"
      BY <1>0, <3>1, <3>2, SetupStays DEF Counted
    <3>3. CASE verb # "recall"
      <4>1. Key(a) = 1
        BY <2>1, <3>3, FlyingKey
      <4>2. CASE 1 \in seen
        BY <1>0, <3>1, <3>3, <4>1, <4>2, SetupStays DEF Counted
      <4>3. CASE 1 \notin seen
        <5>1. seen' = seen \cup {1} /\ stored = 0 /\ stored' = stored + 1
          BY <1>0, <3>1, <3>3, <4>1, <4>3
        <5> QED BY <3>1, <5>1, SetupStays DEF Counted
      <4> QED BY <4>2, <4>3
    <3> QED BY <3>2, <3>3
  <2>2. CASE ~OneKey
    BY <1>0, <2>2, SetupStays DEF Counted
  <2> QED BY <2>1, <2>2
<1>3. Wrapped' /\ InHand' /\ Sleeping' /\ Spent' /\ WaitInBounds'
  BY <1>0, SetupStays DEF InHand, Sleeping, Spent, WaitInBounds
<1> QED BY <1>1, <1>2, <1>3

(* The server refuses a request. *)
LEMMA ServerRefusesInv ==
  ASSUME IInv, NEW a \in flying, ServerRefuses(a)
  PROVE  IInv'
<1> USE DEF IInv, ServerRefuses
<1>1. TypeOK'
  BY SetupStays DEF TypeOK, setup, Answer
<1>2. Wrapped' /\ Counted'
  BY SetupStays, CountKept
<1>3. InHand' /\ Sleeping' /\ Spent' /\ WaitInBounds'
  BY SetupStays DEF InHand, Sleeping, Spent, WaitInBounds
<1> QED BY <1>1, <1>2, <1>3

(* Every step keeps the invariant. *)
LEMMA NextInv == IInv /\ [Next]_vars => IInv'
<1> SUFFICES ASSUME IInv, [Next]_vars PROVE IInv'
  OBVIOUS
<1>1. CASE Next
  BY <1>1, InvokeInv, OpReturnsInv, OpFailsInv, DecideInv, WakeInv, CancelInv,
     ServerExecutesInv, ServerRefusesInv DEF Next, ClientStep
<1>2. CASE UNCHANGED vars
  <2>1. UNCHANGED <<setup, pc, attempt, error, delay, result, reply, flying, seen, stored>>
    BY <1>2 DEF vars, serverVars
  <2>2. TypeOK'
    BY <2>1, SetupStays DEF IInv, TypeOK, setup
  <2>3. Wrapped' /\ Counted'
    BY <2>1, SetupStays, CountKept DEF IInv
  <2>4. InHand' /\ Sleeping' /\ Spent' /\ WaitInBounds'
    BY <2>1, SetupStays DEF IInv, InHand, Sleeping, Spent, WaitInBounds
  <2> QED BY <2>2, <2>3, <2>4 DEF IInv
<1> QED BY <1>1, <1>2

(* So it holds in every reachable state. *)
LEMMA Invariance == Spec => []IInv
BY InitInv, NextInv, PTL DEF Spec

-----------------------------------------------------------------------------
(* Results.                                                                *)

(* Every variable of the loop stays in its domain; there are never more    *)
(* attempts than max_attempts, which counts the first (with_retry).        *)
THEOREM RetryTyped == Spec => []TypeOK
<1>1. IInv => TypeOK
  BY DEF IInv
<1> QED BY <1>1, Invariance, PTL

(* A write that is retried only under a key, or not retried at all, is     *)
(* stored at most once, whatever is late, lost or repeated (retry.py: "a   *)
(* retried verb does not double-apply").                                   *)
THEOREM AppliedOnce == Spec => []StoredOnce
<1>1. IInv => StoredOnce
  BY DEF IInv, Counted, OneKey, StoredOnce
<1> QED BY <1>1, Invariance, PTL

(* The operation ends with a retryable failure only when the attempts are  *)
(* used up or the verb is single-shot (the except clause of with_retry and *)
(* the loops of the HTTP clients).                                         *)
THEOREM GivesUpLate == Spec => []GivesUpOnlyWhenSpent
<1>1. IInv => GivesUpOnlyWhenSpent
  BY DEF IInv, Spent, Sleeping, GivesUpOnlyWhenSpent
<1> QED BY <1>1, Invariance, PTL

(* A wait lies between the capped retry_after and max_delay                *)
(* (RetryPolicy.backoff and the jitter of sleep_before_retry).             *)
THEOREM WaitsBounded == Spec => []WaitInBounds
<1>1. IInv => WaitInBounds
  BY DEF IInv
<1> QED BY <1>1, Invariance, PTL

(* The backoff curves of the seven clients are one curve, for every policy *)
(* and every attempt, as long as Rust's saturating shift reaches the cap   *)
(* no later than max_delay does (RetryPolicy.backoff, RetryPolicy::backoff,*)
(* backoffMs and the copies in the HTTP tier).                             *)
THEOREM OneCurve == Spec => []SameCurve
<1>1. TypeOK => SameCurve
  <2> SUFFICES ASSUME TypeOK, policy.base_delay * Doubling[ShiftCap] >= policy.max_delay,
                      NEW c \in Clients
               PROVE  Backoff(c, policy, attempt, error.hint)
                        = Backoff(client, policy, attempt, error.hint)
    BY DEF SameCurve
  <2>1. c \in AnyClient
    BY RetryAssumption DEF AnyClient
  <2> QED BY <2>1, PolicyTyped, BackoffForms, CurvesMeet
<1>2. IInv => SameCurve
  BY <1>1 DEF IInv
<1> QED BY <1>2, Invariance, PTL
=============================================================================
