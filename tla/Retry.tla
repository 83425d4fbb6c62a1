-------------------------------- MODULE Retry ---------------------------------
(***************************************************************************)
(* One operation under a retry policy, in each of the SDK's clients:       *)
(* with_retry of the threaded, asyncio, Rust and TypeScript wire clients,  *)
(* and the loop built into the three HTTP clients.                         *)
(*                                                                         *)
(* The operation is a request to a server that may be slow, may refuse it, *)
(* or may carry it out after the client has given the attempt up; requests *)
(* and answers get lost.  The server keeps the keys of the writes it has   *)
(* carried out and answers a repeat without storing again; a write without *)
(* a key is a new write to it.                                             *)
(*                                                                         *)
(* Delays are whole ticks.  A delay of 0 stands for "no wait".             *)
(***************************************************************************)
EXTENDS Integers, FiniteSets

CONSTANTS Clients,   \* the clients a run covers
          Verbs,     \* "recall" reads, "encode" and "link" store
          Policies,  \* RetryPolicy values
          Hints,     \* retry_after values the server sends
          NoHint,    \* "no retry_after"
          ShiftCap   \* the largest shift Rust uses, 31 in the code

WireClients == {"python", "aio", "rust", "typescript"}
HttpClients == {"http_python", "http_rust", "http_typescript"}

(* Beyond 1024 attempts 2 ** (attempt - 1) is no longer a float in Python. *)
RetryPolicy == [max_attempts : 0..1024, base_delay : Nat, max_delay : Nat]

ASSUME RetryAssumption ==
  /\ Clients \subseteq WireClients \cup HttpClients
  /\ Verbs \subseteq {"recall", "encode", "link"}
  /\ Policies \subseteq RetryPolicy
  /\ Hints \subseteq Nat /\ NoHint \notin Nat
  /\ ShiftCap \in Nat

VARIABLES
  client, verb, policy,   \* chosen once
  pc,        \* op, await, failed, sleep, done
  attempt,   \* 1-based
  error,     \* the failure in hand: its kind and the server's hint
  delay,     \* the sleep before the next attempt
  result,    \* how the whole operation ended
  flying,    \* attempts whose request is still on its way
  reply,     \* the answer that has come back for the current attempt
  seen,      \* keys the server has carried out
  stored     \* writes the server has carried out

setup == <<client, verb, policy>>
serverVars == <<flying, seen, stored>>
vars == <<setup, pc, attempt, error, delay, result, reply, serverVars>>

Http == client \in HttpClients
Smaller(a, b) == IF a <= b THEN a ELSE b

-----------------------------------------------------------------------------
(* The backoff after a failed attempt, before jitter.                      *)

(* 2 ** n, and 1 << n.                                                     *)
Doubling[n \in Nat] == IF n = 0 THEN 1 ELSE 2 * Doubling[n - 1]

(* RetryPolicy.backoff of Python.                                          *)
BackoffPy(p, a, hint) ==
  IF hint # NoHint THEN Smaller(hint, p.max_delay)
  ELSE IF p.base_delay = 0 THEN 0
  ELSE Smaller(p.base_delay * Doubling[a - 1], p.max_delay)

(* Mutation of BackoffRust: the first backoff is already doubled.          *)
BackoffRustTwice(p, a, hint) ==
  IF hint # NoHint THEN Smaller(hint, p.max_delay)
  ELSE Smaller(p.base_delay * Doubling[Smaller(a, ShiftCap)], p.max_delay)

(* RetryPolicy::backoff of Rust: the shift saturates; an overflowing       *)
(* product is the maximum, which it exceeds anyway.                        *)
BackoffRust(p, a, hint) ==
  IF hint # NoHint THEN Smaller(hint, p.max_delay)
  ELSE IF p.base_delay = 0 THEN 0
  ELSE Smaller(p.base_delay * Doubling[Smaller(a - 1, ShiftCap)], p.max_delay)

(* backoffMs of TypeScript.                                                *)
BackoffTs(p, a, hint) ==
  IF hint # NoHint THEN Smaller(hint, p.max_delay)
  ELSE IF p.base_delay = 0 THEN 0
  ELSE Smaller(p.base_delay * Doubling[a - 1], p.max_delay)

(* The HTTP tier repeats the schedule in a policy of its own.              *)
HttpBackoffPy(p, a, hint) ==
  IF hint # NoHint THEN Smaller(hint, p.max_delay)
  ELSE Smaller(p.base_delay * Doubling[a - 1], p.max_delay)

HttpBackoffRust(p, a, hint) ==
  IF hint # NoHint THEN Smaller(hint, p.max_delay)
  ELSE Smaller(p.base_delay * Doubling[Smaller(a - 1, ShiftCap)], p.max_delay)

HttpBackoffTs(p, a, hint) ==
  IF hint # NoHint THEN Smaller(hint, p.max_delay)
  ELSE Smaller(p.base_delay * Doubling[a - 1], p.max_delay)

Backoff(c, p, a, hint) ==
  CASE c \in {"python", "aio"} -> BackoffPy(p, a, hint)
    [] c = "rust" -> BackoffRust(p, a, hint)
    [] c = "typescript" -> BackoffTs(p, a, hint)
    [] c = "http_python" -> HttpBackoffPy(p, a, hint)
    [] c = "http_rust" -> HttpBackoffRust(p, a, hint)
    [] c = "http_typescript" -> HttpBackoffTs(p, a, hint)

-----------------------------------------------------------------------------
(* Jitter: the sleeps a wire client may choose from.                       *)

(* Python: random.uniform includes both ends.                              *)
JitteredPy(d, floor) == Smaller(floor, d)..d

(* Rust: floor plus a remainder modulo the span.                           *)
JitteredRust(d, floor) == IF d <= floor THEN {d} ELSE floor..(d - 1)

(* TypeScript.                                                             *)
JitteredTs(d, floor) == Smaller(floor, d)..d

(* Mutation of SleepWindow: the hint is no floor for the jitter.           *)
SleepWindowNoFloor(c, p, a, hint) ==
  IF c \in HttpClients THEN {Backoff(c, p, a, hint)} ELSE 0..Backoff(c, p, a, hint)

(* sleep_before_retry: the capped hint is the floor of the jitter; the HTTP*)
(* loops sleep the backoff as it is.                                       *)
SleepWindow(c, p, a, hint) ==
  LET d == Backoff(c, p, a, hint)
      floor == IF hint = NoHint THEN 0 ELSE Smaller(hint, p.max_delay)
  IN  CASE c \in {"python", "aio"} -> JitteredPy(d, floor)
        [] c = "rust" -> JitteredRust(d, floor)
        [] c = "typescript" -> JitteredTs(d, floor)
        [] OTHER -> {d}

-----------------------------------------------------------------------------
(* Which failures are retried.  The kinds are transport failures (closed,  *)
(* timeout, transport: status 0 over HTTP), server verdicts (exhausted: the*)
(* category, or 429; unavailable: the category, or 503; rejected: any other*)
(* verdict), an answer that is cut short or does not decode, and, in Rust, *)
(* "protocol": see Dropped.                                                *)
TransportKinds == {"closed", "timeout", "transport"}
VerdictKinds == {"exhausted", "unavailable", "rejected"}
ErrorKinds == TransportKinds \cup VerdictKinds \cup {"undecodable", "protocol"}

RetryablePy == {"closed", "timeout", "transport", "exhausted", "unavailable"}
RetryableRust == {"transport", "closed", "timeout", "exhausted", "unavailable"}

(* Mutation of RetryableTs: a socket error is not classified.              *)
RetryableTsNoTransport == {"closed", "timeout", "exhausted", "unavailable"}

RetryableTs == {"closed", "timeout", "transport", "exhausted", "unavailable"}
HttpRetryablePy == TransportKinds \cup {"exhausted", "unavailable"}

(* Rust's HTTP client reports a body it cannot read or decode as status 0; *)
(* the other two raise what their JSON or HTTP library raised.             *)
HttpRetryableRust == TransportKinds \cup {"exhausted", "unavailable", "undecodable"}
HttpRetryableTs == TransportKinds \cup {"exhausted", "unavailable"}

(* The idempotent flag of an HTTP verb: link creates state and runs once.  *)
(* On the wire it is the caller who wraps the verb.                        *)
Retried == Http => verb # "link"

(* Mutation of AttemptsRemain: one attempt too many.                       *)
AttemptsRemainOneMore == attempt <= policy.max_attempts

AttemptsRemain == attempt < policy.max_attempts

(* The condition under which each loop goes round again.                   *)
AgainPy == AttemptsRemain /\ error.kind \in RetryablePy
AgainAio == AttemptsRemain /\ error.kind \in RetryablePy
AgainRust == AttemptsRemain /\ error.kind \in RetryableRust
AgainTs == AttemptsRemain /\ error.kind \in RetryableTs
HttpAgainPy == Retried /\ AttemptsRemain /\ error.kind \in HttpRetryablePy
HttpAgainRust == Retried /\ AttemptsRemain /\ error.kind \in HttpRetryableRust
HttpAgainTs == Retried /\ AttemptsRemain /\ error.kind \in HttpRetryableTs

Again ==
  CASE client = "python" -> AgainPy
    [] client = "aio" -> AgainAio
    [] client = "rust" -> AgainRust
    [] client = "typescript" -> AgainTs
    [] client = "http_python" -> HttpAgainPy
    [] client = "http_rust" -> HttpAgainRust
    [] client = "http_typescript" -> HttpAgainTs

(* Whether every attempt of a write names the same write: the request_id   *)
(* the wire builders mint, the Idempotency-Key of TypeScript's HTTP encode.*)
CarriesKey == verb = "encode" /\ client \in WireClients \cup {"http_typescript"}

(* Mutation of Key: the request is rebuilt, with a fresh id, on each try.  *)
KeyFresh(a) == a

(* The key attempt a carries.                                              *)
Key(a) == IF CarriesKey THEN 1 ELSE a

-----------------------------------------------------------------------------
Init ==
  /\ client \in Clients /\ policy \in Policies
  /\ verb \in IF client \in HttpClients THEN Verbs ELSE Verbs \ {"link"}
  /\ pc = "op" /\ attempt = 1
  /\ error = [kind |-> "none", hint |-> NoHint]
  /\ delay = 0 /\ result = "none" /\ reply = "none"
  /\ flying = {} /\ seen = {} /\ stored = 0

Finish(r) == pc' = "done" /\ result' = r

(* op(): the request goes out.                                             *)
Invoke ==
  /\ pc = "op"
  /\ pc' = "await"
  /\ flying' = flying \cup {attempt}
  /\ reply' = "none"
  /\ UNCHANGED <<setup, attempt, error, delay, result, seen, stored>>

(* The answer arrives in time: a result, a verdict, or a body that is cut  *)
(* short or does not decode.                                               *)
OpReturns ==
  /\ pc = "await" /\ reply # "none"
  /\ \/ reply = "ok" /\ Finish("ok") /\ UNCHANGED error
     \/ /\ reply = "ok"
        /\ error' = [kind |-> "undecodable", hint |-> NoHint]
        /\ pc' = "failed" /\ UNCHANGED result
     \/ /\ reply \in VerdictKinds
        /\ \E h \in Hints \cup {NoHint} : error' = [kind |-> reply, hint |-> h]
        /\ pc' = "failed" /\ UNCHANGED result
  /\ UNCHANGED <<setup, attempt, delay, reply, serverVars>>

(* A connection that ends under a request: ConnectionClosed, or status 0.  *)
(* Rust's reader records its reason before it wakes anyone, so closed_error*)
(* gives BrainError::Protocol, which is_retryable refuses.                 *)
Dropped(c) == IF c = "rust" THEN "protocol" ELSE "closed"

(* The connection drops, a write on it fails or the deadline passes; the   *)
(* request may be lost with it, or still arrive.                           *)
OpFails ==
  /\ pc = "await"
  /\ \E k \in {Dropped(client), "timeout", "transport"} : error' = [kind |-> k, hint |-> NoHint]
  /\ pc' = "failed"
  /\ flying' \in {flying, flying \ {attempt}}
  /\ UNCHANGED <<setup, attempt, delay, result, reply, seen, stored>>

(* The except clause: sleep and go round again, or raise.                  *)
Decide ==
  /\ pc = "failed"
  /\ IF Again
       THEN /\ delay' \in SleepWindow(client, policy, attempt, error.hint)
            /\ pc' = "sleep" /\ UNCHANGED result
       ELSE Finish(error.kind) /\ UNCHANGED delay
  /\ UNCHANGED <<setup, attempt, error, reply, serverVars>>

(* Mutation of Wake: the attempt is not counted.                           *)
WakeUncounted ==
  /\ pc = "sleep"
  /\ pc' = "op"
  /\ UNCHANGED <<setup, attempt, error, delay, result, reply, serverVars>>

Wake ==
  /\ pc = "sleep"
  /\ attempt' = attempt + 1
  /\ pc' = "op"
  /\ UNCHANGED <<setup, error, delay, result, reply, serverVars>>

(* An asyncio task is cancelled, a Rust future dropped: CancelledError is  *)
(* no Exception, so the loop does not see it.                              *)
Cancel ==
  /\ client \in {"aio", "rust", "http_rust"}
  /\ pc \in {"await", "sleep"}
  /\ Finish("cancelled")
  /\ UNCHANGED <<setup, attempt, error, delay, reply, serverVars>>

-----------------------------------------------------------------------------
(* The server.                                                             *)

Answer(a, r) == reply' = IF a = attempt /\ pc = "await" THEN r ELSE reply

(* Carry the request out, unless its key has been carried out before; the  *)
(* answer may be lost.                                                     *)
ServerExecutes(a) ==
  /\ a \in flying
  /\ flying' = flying \ {a}
  /\ IF verb = "recall" \/ Key(a) \in seen
       THEN UNCHANGED <<seen, stored>>
       ELSE seen' = seen \cup {Key(a)} /\ stored' = stored + 1
  /\ Answer(a, "ok") \/ UNCHANGED reply
  /\ UNCHANGED <<setup, pc, attempt, error, delay, result>>

ServerRefuses(a) ==
  /\ a \in flying
  /\ flying' = flying \ {a}
  /\ \E k \in VerdictKinds : Answer(a, k)
  /\ UNCHANGED <<setup, pc, attempt, error, delay, result, seen, stored>>

-----------------------------------------------------------------------------
ClientStep == Invoke \/ OpReturns \/ OpFails \/ Decide \/ Wake

Next ==
  \/ ClientStep \/ Cancel
  \/ \E a \in flying : ServerExecutes(a) \/ ServerRefuses(a)

Spec == Init /\ [][Next]_vars

(* Every attempt ends, by an answer or by its deadline; sleeps end.        *)
FairSpec == Spec /\ WF_vars(ClientStep)

-----------------------------------------------------------------------------
LastAttempt == IF policy.max_attempts < 1 THEN 1 ELSE policy.max_attempts

(* Every variable stays in its domain; in particular there are never more  *)
(* attempts than max_attempts, which counts the first (with_retry).        *)
TypeOK ==
  /\ client \in Clients /\ verb \in Verbs /\ policy \in Policies
  /\ pc \in {"op", "await", "failed", "sleep", "done"}
  /\ attempt \in 1..LastAttempt
  /\ error \in [kind : ErrorKinds \cup {"none"}, hint : Hints \cup {NoHint}]
  /\ delay \in Nat
  /\ result \in ErrorKinds \cup {"none", "ok", "cancelled"}
  /\ reply \in VerdictKinds \cup {"none", "ok"}
  /\ flying \subseteq 1..attempt /\ seen \subseteq 1..attempt /\ stored \in Nat

(* "A retried verb does not double-apply" (retry.py): however timeouts,    *)
(* late executions, lost answers and retries interleave, a write that is   *)
(* retried only under a key, or not retried at all, is stored at most once.*)
StoredOnce ==
  (verb = "encode" /\ Retried => CarriesKey) => stored <= 1

(* The operation "re-runs while the error is retryable and attempts remain"*)
(* (with_retry): it ends with a retryable error only when the attempts are *)
(* used up or the verb is single-shot, and never runs again after a final  *)
(* one.  A connection that drops is retryable except in Rust, where it ends*)
(* as a Protocol error.                                                    *)
GivesUpOnlyWhenSpent ==
  /\ pc = "done" /\ Retried /\ result \in RetryablePy => attempt = LastAttempt
  /\ pc = "sleep" => error.kind \notin {"rejected", "protocol", "none"}

(* A wait honours the server's retry_after up to the cap, and no single    *)
(* wait exceeds max_delay (backoff, sleep_before_retry, and the jitter of  *)
(* each language).                                                         *)
WaitInBounds ==
  pc = "sleep" =>
    /\ delay <= policy.max_delay
    /\ error.hint # NoHint => delay >= Smaller(error.hint, policy.max_delay)

(* The SDKs do not drift into different backoff curves (sleep_before_retry,*)
(* RetryPolicy::step, and the copy in the HTTP tier), as long as Rust's    *)
(* shift saturates no sooner than max_delay does.                          *)
SameCurve ==
  pc = "sleep" /\ policy.base_delay * Doubling[ShiftCap] >= policy.max_delay =>
    \A c \in Clients : Backoff(c, policy, attempt, error.hint)
                         = Backoff(client, policy, attempt, error.hint)

(* with_retry returns: the loop cannot go round for ever.                  *)
Returns == <>(pc = "done")

-----------------------------------------------------------------------------
(* What the documentation says and the code does not do.                   *)

(* HTTP "encode" is "Idempotent (stable server-side request id) - retried":*)
(* a retried encode stores one memory.                                     *)
EncodeStoredOnce == verb = "encode" => stored <= 1
=============================================================================
