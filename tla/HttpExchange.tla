---------------------------- MODULE HttpExchange ----------------------------
(***************************************************************************)
(* One exchange of http_client_worker_task: the call into http_client.c,   *)
(* the events esp_http_client raises on the way, which fill the response   *)
(* body piece by piece, and the result that comes out of it.  The diagnosis *)
(* of a failure arrives last: the library reports it with the event        *)
(* DISCONNECTED, which esp_http_client_cleanup raises after                *)
(* esp_http_client_perform has returned.                                   *)
(*                                                                         *)
(* The k-th byte a server sends is the number k, and 0 is the NUL byte.    *)
(* Header fields and socket_errno are left out: nothing decides on them.   *)
(***************************************************************************)
EXTENDS HttpPolicy

CONSTANTS Statuses,         \* HTTP status codes to consider
          BodySize,         \* sizeof(response->body)
          MaxSent           \* bound of the model: bytes in one answer

ASSUME StatusAssumption == Statuses \subseteq Int
ASSUME SizeAssumption == BodySize \in Nat \ {0} /\ MaxSent \in Nat

Types == {"HTTP_GET", "HTTP_POST_JSON", "HTTPS_POST_JSON", "unknown"}

VARIABLES
    type,                   \* request.type
    phase,                  \* where the worker is in the call
    result,                 \* err, transport_error and status_code
    body, bodyLength, bodyTruncated,    \* response
    handle,                 \* external: the error kept for DISCONNECTED
    sent,                   \* history: bytes the server has sent
    cause                   \* history: what this exchange broke with
response == <<body, bodyLength, bodyTruncated>>
exchangeVars == <<type, phase, result, response, handle, sent, cause>>

Diagnosis == [verifyFailed : BOOLEAN, tls : TlsErrors]
NoError == [verifyFailed |-> FALSE, tls |-> "none"]

Positions == 0 .. BodySize - 1

\* What the variables may hold; the length of a body leaves room for its NUL.
ExchangeTypeOK ==
    /\ type \in Types
    /\ phase \in {"called", "opened", "performing", "cleanup", "done"}
    /\ result \in ResultOf(Statuses \cup {0})
    /\ body \in [Positions -> 0 .. MaxSent]
    /\ bodyLength \in Positions
    /\ bodyTruncated \in BOOLEAN
    /\ handle \in Diagnosis /\ cause \in Diagnosis
    /\ sent \in 0 .. MaxSent

\* The worker zeroes its result, and the client function the response, before
\* every exchange.
FreshResult == [err |-> "ESP_OK", verifyFailed |-> FALSE, tls |-> "none", status |-> 0]
FreshBody == [p \in Positions |-> 0]

ExchangeInit ==
    /\ type \in Types
    /\ phase = "called"
    /\ result = FreshResult
    /\ body = FreshBody /\ bodyLength = 0 /\ bodyTruncated = FALSE
    /\ handle = NoError /\ cause = NoError
    /\ sent = 0

\* The worker takes the same request again.
ExchangeAgain ==
    /\ phase' = "called"
    /\ result' = FreshResult
    /\ body' = FreshBody /\ bodyLength' = 0 /\ bodyTruncated' = FALSE
    /\ handle' = NoError /\ cause' = NoError
    /\ sent' = 0
    /\ UNCHANGED type

-----------------------------------------------------------------------------
Fail(error) == result' = [result EXCEPT !.err = error]

\* ESP_ERR_INVALID_ARG for a type the worker does not know, ESP_ERR_NO_MEM
\* when esp_http_client_init returns no client.
NoClient ==
    /\ phase = "called"
    /\ Fail("other")
    /\ phase' = "done"
    /\ UNCHANGED <<type, response, handle, sent, cause>>

Opens ==
    /\ phase = "called" /\ type # "unknown"
    /\ phase' = IF type = "HTTP_GET" THEN "performing" ELSE "opened"
    /\ UNCHANGED <<type, result, response, handle, sent, cause>>

\* esp_http_client_set_header, esp_http_client_set_post_field
SetsRequest ==
    /\ phase = "opened"
    /\ phase' = "performing"
    /\ UNCHANGED <<type, result, response, handle, sent, cause>>

SetRequestFails ==
    /\ phase = "opened"
    /\ Fail("other")
    /\ phase' = "cleanup"
    /\ UNCHANGED <<type, response, handle, sent, cause>>

\* Mutant: the place of the terminating NUL is taken for a free one.
FreeSpace_Whole == BodySize - bodyLength
FreeSpace == BodySize - 1 - bodyLength

Lesser(a, b) == IF a < b THEN a ELSE b

\* HTTP_EVENT_ON_DATA with the next n bytes of the answer.
OnData(n) ==
    /\ phase = "performing"
    /\ sent + n <= MaxSent
    /\ sent' = sent + n
    /\ bodyTruncated' = (bodyTruncated \/ n > FreeSpace)
    /\ LET copied == Lesser(n, FreeSpace)
       IN  /\ bodyLength' = bodyLength + copied
           /\ body' = [p \in Positions |->
                          IF copied = 0 THEN body[p]
                          ELSE IF p \in bodyLength .. bodyLength + copied - 1
                          THEN sent + (p - bodyLength) + 1
                          ELSE IF p = bodyLength + copied THEN 0 ELSE body[p]]
    /\ UNCHANGED <<type, phase, result, handle, cause>>

\* The status is asked for only when the call succeeded.
StatusOf(error, status) == IF error = "ESP_OK" THEN status ELSE 0

\* esp_http_client_perform returns.  External: only a TLS connection has a
\* certificate to reject, and one that it rejects never carries an answer.
PerformReturns ==
    /\ phase = "performing"
    /\ \E error \in Errors, status \in Statuses, why \in Diagnosis :
          /\ error = "ESP_OK" => why = NoError
          /\ why.verifyFailed => type = "HTTPS_POST_JSON" /\ sent = 0
          /\ result' = [result EXCEPT !.err = error, !.status = StatusOf(error, status)]
          /\ handle' = why /\ cause' = why
    /\ phase' = "cleanup"
    /\ UNCHANGED <<type, response, sent>>

\* Mutant: only an exchange that succeeded is cleaned up with its event.
Reported_NotOnError == result.err = "ESP_OK"
Reported == TRUE

\* esp_http_client_cleanup raises HTTP_EVENT_DISCONNECTED, whose handler takes
\* the error out of the library and clears it there.
Cleanup ==
    /\ phase = "cleanup"
    /\ result' = IF Reported THEN [result EXCEPT !.verifyFailed = handle.verifyFailed,
                                                 !.tls = handle.tls]
                             ELSE result
    /\ handle' = NoError
    /\ phase' = "done"
    /\ UNCHANGED <<type, response, sent, cause>>

ExchangeNext ==
    \/ NoClient \/ Opens \/ SetsRequest \/ SetRequestFails
    \/ \E n \in 0 .. MaxSent : OnData(n)
    \/ PerformReturns \/ Cleanup

-----------------------------------------------------------------------------
\* However the answer is cut into pieces, the body is the beginning of this
\* answer and nothing of an earlier one, as much of it as fits, terminated in
\* the buffer, and marked truncated exactly when something was left out.
BodyIsPrefix ==
    /\ bodyLength = Lesser(sent, BodySize - 1)
    /\ \A p \in Positions : body[p] = IF p < bodyLength THEN p + 1 ELSE 0
    /\ bodyTruncated <=> sent > BodySize - 1

\* What an exchange broke with is what the recovery decision is made on: a
\* rejected certificate is final whatever else went wrong, and an unreachable
\* or silent server is tried again; and a broken exchange never looks answered.
CauseDecides ==
    phase = "done" /\ result.err # "ESP_OK" =>
        /\ cause.verifyFailed => RecoveryAction(result) = "DO_NOT_RETRY"
        /\ ~cause.verifyFailed /\ cause.tls \in RetryableTls => RecoveryAction(result) = "RETRY"
        /\ result.status = 0
=============================================================================
