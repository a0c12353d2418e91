-------------------------- MODULE HttpRetrySeries --------------------------
(***************************************************************************)
(* The tries of one request: every exchange and its result, what the       *)
(* recovery manager decides about it and how long the recovery task waits  *)
(* before each retry (http_recovery_manager_get_backoff_ms).  The queues   *)
(* between the tasks are module HttpPipeline's.                            *)
(***************************************************************************)
EXTENDS HttpExchange

CONSTANTS MaxRetries        \* request.max_retries, a uint8_t
ASSUME RetryAssumption == MaxRetries \in 0 .. 255

VARIABLES retry             \* request.retry_count
vars == <<exchangeVars, retry>>

Init == ExchangeInit /\ retry = 0

Exchange == ExchangeNext /\ UNCHANGED retry

Retry ==
    /\ phase = "done"
    /\ RecoveryAction(result) = "RETRY"
    /\ retry < MaxRetries
    /\ retry' = retry + 1
    /\ ExchangeAgain

Next == Exchange \/ Retry

Spec == Init /\ [][Next]_vars

-----------------------------------------------------------------------------
BackoffBase == 1000         \* HTTP_RECOVERY_BACKOFF_BASE_MS
BackoffMax == 8000          \* HTTP_RECOVERY_BACKOFF_MAX_MS
JitterMax == 500            \* HTTP_RECOVERY_JITTER_MAX_MS

\* Mutant: the loop is left before the maximum is assigned.
Doubled_NoMaximum(delay) == IF delay >= BackoffMax \div 2 THEN delay ELSE delay * 2
Doubled(delay) == IF delay >= BackoffMax \div 2 THEN BackoffMax ELSE delay * 2

\* The delay after n rounds of the loop; at the maximum, where the loop is
\* left, further rounds would change nothing.
Rounds[n \in Nat] == IF n = 0 THEN BackoffBase ELSE Doubled(Rounds[n - 1])

\* The least and the greatest result of http_recovery_manager_get_backoff_ms.
LeastWait(n) == IF n = 0 THEN 0 ELSE Rounds[n - 1]
GreatestWait(n) == IF n = 0 THEN 0 ELSE Rounds[n - 1] + JitterMax

-----------------------------------------------------------------------------
\* The two judgements of a result agree: a request counts as a success in the
\* statistics exactly when the recovery manager finds nothing to recover, so
\* that a request is never counted as done and then sent again.
SuccessIffNothingToDo == Class(result) = "SUCCESS" <=> RecoveryAction(result) = "NONE"

\* The comment "Recovery policy", lines 13 to 21 of http_recovery_manager.c, row
\* by row, and the comments where the code goes beyond it: a status the table
\* does not list is final (203), a silent server (135) and an unresolved host
\* name (154) count as a server that is off.  Every result has exactly one row:
\* a wrong certificate is final even when the exchange also timed out, and an
\* error nobody has looked at yet is never retried.
Unreachable == {"CONNECTION_TIMEOUT", "FAILED_CONNECT_TO_HOST", "CANNOT_RESOLVE_HOSTNAME"}
ServerOff == result.err = "HTTP_EAGAIN" \/ result.tls \in Unreachable
FollowsPolicyTable ==
    /\ result.err = "ESP_OK" =>
        /\ result.status \in 200 .. 299 => RecoveryAction(result) = "NONE"
        /\ result.status \in {400, 401, 403, 404} => RecoveryAction(result) = "DO_NOT_RETRY"
        /\ result.status \in {408, 429, 500, 502, 503, 504} => RecoveryAction(result) = "RETRY"
        /\ result.status \notin (200 .. 299) \cup {408, 429, 500, 502, 503, 504}
            => RecoveryAction(result) = "DO_NOT_RETRY"
    /\ result.err # "ESP_OK" =>
        /\ ~result.verifyFailed /\ ServerOff => RecoveryAction(result) = "RETRY"
        /\ result.verifyFailed => RecoveryAction(result) = "DO_NOT_RETRY"
        /\ ~result.verifyFailed /\ ~ServerOff => RecoveryAction(result) = "DO_NOT_RETRY"

\* A later retry waits longer than an earlier one whatever their jitter, up to
\* BackoffMax, where every further retry stays; it waits BackoffMax from the
\* fourth retry on.
WaitsGrow ==
    [][ Retry => /\ LeastWait(retry') > GreatestWait(retry) \/ LeastWait(retry') = BackoffMax
                 /\ retry' >= 4 => LeastWait(retry') = BackoffMax ]_vars
=============================================================================
