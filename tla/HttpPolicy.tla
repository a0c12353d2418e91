----------------------------- MODULE HttpPolicy -----------------------------
(***************************************************************************)
(* How the firmware judges the result of one HTTP exchange: its class for  *)
(* the statistics (http_manager_classify_result) and what the recovery     *)
(* manager does about it (http_recovery_action_manager_get_cation).        *)
(*                                                                         *)
(* A result keeps the four fields the two functions read.  An esp_err_t is *)
(* one of the codes they compare with, or "other"; a TLS error likewise.   *)
(***************************************************************************)
EXTENDS Integers

Errors == {"ESP_OK", "HTTP_EAGAIN", "other"}
TlsErrors == {"none", "CONNECTION_TIMEOUT", "FAILED_CONNECT_TO_HOST",
              "CANNOT_RESOLVE_HOSTNAME", "other"}

\* http_client_result_t: err, transport_error.tls_verify_flags # 0,
\* transport_error.tls_error, response.status_code.
ResultOf(statuses) ==
    [err : Errors, verifyFailed : BOOLEAN, tls : TlsErrors, status : statuses]

Classes == {"SUCCESS", "TRANSPORT_ERROR", "REDIRECT", "CLIENT_ERROR",
            "SERVER_ERROR", "UNKNOWN_ERROR"}
Actions == {"NONE", "RETRY", "DO_NOT_RETRY"}

SuccessStatus == 200 .. 299

\* http_manager_classify_result
Class(result) ==
    CASE result.err # "ESP_OK"       -> "TRANSPORT_ERROR"
      [] result.err = "ESP_OK" /\ result.status \in SuccessStatus -> "SUCCESS"
      [] result.err = "ESP_OK" /\ result.status \in 300 .. 399 -> "REDIRECT"
      [] result.err = "ESP_OK" /\ result.status \in 400 .. 499 -> "CLIENT_ERROR"
      [] result.err = "ESP_OK" /\ result.status \in 500 .. 599 -> "SERVER_ERROR"
      [] OTHER -> "UNKNOWN_ERROR"

RetryableTls == {"CONNECTION_TIMEOUT", "FAILED_CONNECT_TO_HOST",
                 "CANNOT_RESOLVE_HOSTNAME"}
RetryableStatus == {408, 429, 500, 502, 503, 504}

\* Mutant: fails open, only the certificate is final.
TransportRetryable_FailsOpen(result) == ~result.verifyFailed

\* The exchange failed below HTTP: a bad certificate is final, a missing
\* answer or an unreachable server is not, anything else fails closed.
TransportRetryable(result) ==
    /\ ~result.verifyFailed
    /\ result.err = "HTTP_EAGAIN" \/ result.tls \in RetryableTls

\* Mutant: 300 taken for a success.
NothingToDoStatus_To300 == 200 .. 300
NothingToDoStatus == 200 .. 299

\* http_recovery_action_manager_get_cation
RecoveryAction(result) ==
    IF result.err # "ESP_OK"
    THEN IF TransportRetryable(result) THEN "RETRY" ELSE "DO_NOT_RETRY"
    ELSE IF result.status \in NothingToDoStatus THEN "NONE"
    ELSE IF result.status \in RetryableStatus THEN "RETRY"
    ELSE "DO_NOT_RETRY"

=============================================================================
