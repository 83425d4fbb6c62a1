------------------------------- MODULE MCRetry --------------------------------
(* Small policies for the retry loops: no retry, retry at once, a growing   *)
(* backoff that reaches its cap, and a cap of zero.                         *)
EXTENDS Retry

Policy(n, base, max) == [max_attempts |-> n, base_delay |-> base, max_delay |-> max]

MCPolicies == {Policy(0, 1, 4), Policy(1, 0, 0), Policy(3, 0, 4), Policy(5, 1, 3), Policy(2, 2, 8)}
WirePolicies == {Policy(3, 2, 8)}
=============================================================================
