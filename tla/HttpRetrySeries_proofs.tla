----------------------- MODULE HttpRetrySeries_proofs -----------------------
(***************************************************************************)
(* What every exchange of a request leaves behind, for a buffer and an     *)
(* answer of any size, cut into pieces in any way, and any status code:    *)
(* the beginning of the answer in the body, and the cause of a failure in  *)
(* the result that the two judgements of HttpPolicy read; and the waits    *)
(* between the tries, for any limit of retries.                            *)
(***************************************************************************)
EXTENDS HttpRetrySeries, WellFoundedInduction, TLAPS

\* The diagnosis is the library's until DISCONNECTED hands it over, and an
\* error excludes a status from the moment esp_http_client_perform returns.
DiagnosisInv ==
    /\ phase \in {"called", "opened", "performing"} =>
           result = FreshResult /\ handle = NoError /\ cause = NoError
    /\ phase = "cleanup" => handle = cause
    /\ phase = "done" => result.verifyFailed = cause.verifyFailed /\ result.tls = cause.tls
    /\ result.err # "ESP_OK" => result.status = 0

\* The body is only written while the exchange is performed.
BodyInv ==
    /\ BodyIsPrefix
    /\ phase \in {"called", "opened"} => sent = 0

SeriesInv == ExchangeTypeOK /\ DiagnosisInv /\ BodyInv

-----------------------------------------------------------------------------
(* The judgements.                                                         *)

\* A rejected certificate is final.
LEMMA RejectedIsFinal ==
    ASSUME NEW r, r.err # "ESP_OK", r.verifyFailed
    PROVE  RecoveryAction(r) = "DO_NOT_RETRY"
BY DEF RecoveryAction, TransportRetryable

\* An unreachable server is tried again.
LEMMA UnreachableIsRetried ==
    ASSUME NEW r, r.err # "ESP_OK", ~r.verifyFailed, r.tls \in RetryableTls
    PROVE  RecoveryAction(r) = "RETRY"
BY DEF RecoveryAction, TransportRetryable

\* A result with statuses of a smaller set is one of the larger.
LEMMA ResultsGrow ==
    ASSUME NEW S \in SUBSET Int, NEW r \in ResultOf(S)
    PROVE  r \in ResultOf(Int)
BY DEF ResultOf

\* A result is a success for the statistics when there is nothing to recover.
LEMMA JudgementsAgree ==
    ASSUME NEW r \in ResultOf(Int)
    PROVE  Class(r) = "SUCCESS" <=> RecoveryAction(r) = "NONE"
<1> USE DEF ResultOf, Class, RecoveryAction
<1>1. CASE r.err # "ESP_OK"
  BY <1>1
<1>2. CASE r.err = "ESP_OK" /\ r.status \in 200 .. 299
  BY <1>2 DEF SuccessStatus, NothingToDoStatus
<1>3. CASE r.err = "ESP_OK" /\ r.status \notin 200 .. 299
  <2>1. RecoveryAction(r) # "NONE"
    BY <1>3 DEF NothingToDoStatus
  <2>2. Class(r) # "SUCCESS"
    BY <1>3 DEF SuccessStatus
  <2> QED BY <2>1, <2>2
<1> QED BY <1>1, <1>2, <1>3

-----------------------------------------------------------------------------
(* The exchange.                                                           *)

LEMMA FreshIsPrefix ==
    ASSUME sent = 0, bodyLength = 0, body = FreshBody, bodyTruncated = FALSE
    PROVE  BodyIsPrefix
BY SizeAssumption DEF BodyIsPrefix, FreshBody, Positions, Lesser

\* What an exchange starts from is typed.
LEMMA FreshTyped ==
    /\ FreshResult \in ResultOf(Statuses \cup {0})
    /\ FreshBody \in [Positions -> 0 .. MaxSent]
    /\ NoError \in Diagnosis
    /\ 0 \in Positions /\ 0 \in 0 .. MaxSent
<1>1. FreshResult \in ResultOf(Statuses \cup {0})
  BY DEF FreshResult, ResultOf, Errors, TlsErrors
<1>2. 0 \in Positions /\ 0 \in 0 .. MaxSent
  BY SizeAssumption DEF Positions
<1>3. FreshBody \in [Positions -> 0 .. MaxSent]
  BY <1>2 DEF FreshBody
<1>4. NoError \in Diagnosis
  BY DEF NoError, Diagnosis, TlsErrors
<1> QED BY <1>1, <1>2, <1>3, <1>4

LEMMA SeriesStarts == Init => SeriesInv
<1> SUFFICES ASSUME Init PROVE SeriesInv
  OBVIOUS
<1> USE DEF Init, ExchangeInit
<1>1. ExchangeTypeOK
  BY FreshTyped DEF ExchangeTypeOK
<1>2. DiagnosisInv
  BY DEF DiagnosisInv, FreshResult
<1>3. BodyInv
  BY FreshIsPrefix DEF BodyInv
<1> QED BY <1>1, <1>2, <1>3 DEF SeriesInv

\* A piece of the answer goes behind the pieces before it, as far as it fits.
LEMMA PieceExtendsBody ==
    ASSUME ExchangeTypeOK, BodyInv, NEW n \in 0 .. MaxSent, OnData(n)
    PROVE  BodyInv' /\ body' \in [Positions -> 0 .. MaxSent] /\ bodyLength' \in Positions
           /\ bodyTruncated' \in BOOLEAN
<1> DEFINE copied == Lesser(n, FreeSpace)
<1> USE SizeAssumption
<1>1. /\ n \in Nat /\ sent \in Nat /\ bodyLength \in Nat /\ BodySize \in Nat \ {0}
      /\ bodyLength <= BodySize - 1 /\ MaxSent \in Nat
      /\ sent + n <= MaxSent /\ sent' = sent + n
      /\ bodyLength = Lesser(sent, BodySize - 1)
  BY DEF OnData, ExchangeTypeOK, Positions, BodyInv, BodyIsPrefix
<1>2. bodyLength' = bodyLength + copied
  BY DEF OnData
<1>3. copied \in Nat /\ copied <= n /\ bodyLength + copied <= BodySize - 1
      /\ (copied # 0 => bodyLength = sent)
  BY <1>1 DEF Lesser, FreeSpace
<1>4. bodyLength' = Lesser(sent', BodySize - 1)
  BY <1>1, <1>2 DEF Lesser, FreeSpace
<1>5. bodyTruncated' <=> sent' > BodySize - 1
  <2>1. bodyTruncated' <=> (bodyTruncated \/ n > FreeSpace)
    BY DEF OnData
  <2>2. bodyTruncated <=> sent > BodySize - 1
    BY DEF BodyInv, BodyIsPrefix
  <2> QED BY <1>1, <2>1, <2>2 DEF Lesser, FreeSpace
<1>6. bodyTruncated' \in BOOLEAN
  BY DEF OnData
<1>7. body' = [p \in Positions |->
                  IF copied = 0 THEN body[p]
                  ELSE IF p \in bodyLength .. bodyLength + copied - 1
                  THEN sent + (p - bodyLength) + 1
                  ELSE IF p = bodyLength + copied THEN 0 ELSE body[p]]
  BY DEF OnData
<1>8. ASSUME NEW p \in Positions
      PROVE  body'[p] = IF p < bodyLength' THEN p + 1 ELSE 0
  <2>1. p \in Nat /\ p < BodySize
    BY DEF Positions
  <2>2. body[p] = IF p < bodyLength THEN p + 1 ELSE 0
    BY DEF BodyInv, BodyIsPrefix
  <2>3. CASE copied = 0
    BY <1>1, <1>2, <1>7, <2>1, <2>2, <2>3
  <2>4. CASE copied # 0
    <3>1. body'[p] = IF p \in bodyLength .. bodyLength + copied - 1
                     THEN sent + (p - bodyLength) + 1
                     ELSE IF p = bodyLength + copied THEN 0 ELSE body[p]
      BY <1>7, <2>4
    <3> HIDE DEF copied
    <3> QED BY <1>1, <1>2, <1>3, <2>1, <2>2, <2>4, <3>1
  <2> QED BY <2>3, <2>4
<1>9. bodyLength' \in Positions
  BY <1>1, <1>2, <1>3 DEF Positions
<1>10. body' \in [Positions -> 0 .. MaxSent]
  <2>1. ASSUME NEW p \in Positions PROVE body'[p] \in 0 .. MaxSent
    <3>1. p \in Nat
      BY DEF Positions
    <3>2. p < bodyLength' => p + 1 <= MaxSent
      BY <1>1, <1>4, <3>1 DEF Lesser
    <3> QED BY <1>1, <1>8, <3>1, <3>2
  <2> QED BY <1>7, <2>1
<1>11. phase' = "performing"
  BY DEF OnData
<1> QED BY <1>4, <1>5, <1>6, <1>8, <1>9, <1>10, <1>11 DEF BodyInv, BodyIsPrefix

LEMMA ResponseUntouched ==
    ASSUME BodyIsPrefix, UNCHANGED <<response, sent>>
    PROVE  BodyIsPrefix'
BY DEF BodyIsPrefix, response, Lesser, Positions

LEMMA SeriesStep == SeriesInv /\ [Next]_vars => SeriesInv'
<1> SUFFICES ASSUME SeriesInv, [Next]_vars PROVE SeriesInv'
  OBVIOUS
<1> USE DEF SeriesInv
<1>1. ASSUME NEW n \in 0 .. MaxSent, OnData(n) PROVE SeriesInv'
  <2>1. ExchangeTypeOK'
    <3>1. sent' \in 0 .. MaxSent
      BY <1>1, SizeAssumption DEF OnData, ExchangeTypeOK
    <3> QED BY <1>1, <3>1, PieceExtendsBody DEF OnData, ExchangeTypeOK
  <2>2. DiagnosisInv'
    BY <1>1 DEF OnData, DiagnosisInv
  <2> QED BY <1>1, <2>1, <2>2, PieceExtendsBody
<1>2. ASSUME UNCHANGED <<response, sent>>, phase' \in {"called", "opened"} => sent = 0
      PROVE  BodyInv'
  BY <1>2, ResponseUntouched DEF BodyInv
<1>3. CASE NoClient \/ Opens \/ SetsRequest \/ SetRequestFails
  <2> USE DEF NoClient, Opens, SetsRequest, SetRequestFails, Fail
  <2>1. ExchangeTypeOK'
    BY <1>3 DEF ExchangeTypeOK, response, ResultOf, Errors
  <2>2. DiagnosisInv'
    <3>1. CASE NoClient
      <4>1. result = FreshResult /\ cause = NoError /\ cause' = cause /\ phase' = "done"
        BY <3>1 DEF DiagnosisInv
      <4>2. result' = [FreshResult EXCEPT !.err = "other"]
        BY <3>1, <4>1
      <4>3. result'.verifyFailed = FALSE /\ result'.tls = "none" /\ result'.status = 0
        BY <4>2 DEF FreshResult
      <4> QED BY <4>1, <4>3 DEF DiagnosisInv, NoError
    <3>2. CASE Opens \/ SetsRequest
      BY <3>2 DEF DiagnosisInv
    <3>3. CASE SetRequestFails
      BY <3>3 DEF DiagnosisInv, FreshResult
    <3> QED BY <1>3, <3>1, <3>2, <3>3
  <2>3. BodyInv'
    BY <1>2, <1>3 DEF BodyInv
  <2> QED BY <2>1, <2>2, <2>3
<1>4. CASE PerformReturns
  <2>1. PICK error \in Errors, status \in Statuses, why \in Diagnosis :
           /\ result' = [result EXCEPT !.err = error, !.status = StatusOf(error, status)]
           /\ handle' = why /\ cause' = why
    BY <1>4 DEF PerformReturns
  <2>2. StatusOf(error, status) \in Statuses \cup {0} /\ (error # "ESP_OK" => StatusOf(error, status) = 0)
    BY DEF StatusOf
  <2>3. ExchangeTypeOK'
    BY <1>4, <2>1, <2>2 DEF PerformReturns, ExchangeTypeOK, response, ResultOf
  <2>4. DiagnosisInv'
    BY <1>4, <2>1, <2>2 DEF PerformReturns, DiagnosisInv, FreshResult
  <2>5. BodyInv'
    BY <1>2, <1>4 DEF PerformReturns
  <2> QED BY <2>3, <2>4, <2>5
<1>5. CASE Cleanup
  <2>1. ExchangeTypeOK'
    BY <1>5 DEF Cleanup, Reported, ExchangeTypeOK, response, ResultOf, Diagnosis, NoError, TlsErrors
  <2>2. DiagnosisInv'
    BY <1>5 DEF Cleanup, Reported, DiagnosisInv, ExchangeTypeOK, ResultOf
  <2>3. BodyInv'
    BY <1>2, <1>5 DEF Cleanup
  <2> QED BY <2>1, <2>2, <2>3
<1>6. CASE Retry
  <2> USE <1>6 DEF Retry, ExchangeAgain
  <2>1. ExchangeTypeOK'
    BY FreshTyped DEF ExchangeTypeOK
  <2>2. DiagnosisInv'
    BY DEF DiagnosisInv, FreshResult
  <2>3. BodyInv'
    BY SizeAssumption DEF BodyInv, BodyIsPrefix, FreshBody, Positions, Lesser
  <2> QED BY <2>1, <2>2, <2>3
<1>7. CASE UNCHANGED vars
  <2> USE <1>7 DEF vars, exchangeVars
  <2>1. ExchangeTypeOK' /\ DiagnosisInv'
    BY DEF ExchangeTypeOK, DiagnosisInv, response
  <2>2. BodyInv'
    BY <1>2 DEF BodyInv
  <2> QED BY <2>1, <2>2
<1> QED BY <1>1, <1>3, <1>4, <1>5, <1>6, <1>7 DEF Next, Exchange, ExchangeNext

LEMMA SeriesThroughout == Spec => []SeriesInv
BY SeriesStarts, SeriesStep, PTL DEF Spec

\* Nothing is written outside the buffer: the length of a body leaves room for
\* its NUL whatever the server sends.
THEOREM ExchangeTypeCorrect == Spec => []ExchangeTypeOK
<1>1. SeriesInv => ExchangeTypeOK
  BY DEF SeriesInv
<1> QED BY <1>1, SeriesThroughout, PTL

\* The body is the beginning of this answer, terminated, and marked truncated
\* exactly when something was left out.
THEOREM BodyCorrect == Spec => []BodyIsPrefix
<1>1. SeriesInv => BodyIsPrefix
  BY DEF SeriesInv, BodyInv
<1> QED BY <1>1, SeriesThroughout, PTL

\* What an exchange broke with decides whether the request is tried again.
THEOREM CauseCorrect == Spec => []CauseDecides
<1>1. SeriesInv => CauseDecides
  BY RejectedIsFinal, UnreachableIsRetried DEF SeriesInv, DiagnosisInv, CauseDecides
<1> QED BY <1>1, SeriesThroughout, PTL

\* A request counts as a success exactly when there is nothing to recover.
THEOREM JudgementCorrect == Spec => []SuccessIffNothingToDo
<1>1. SeriesInv => SuccessIffNothingToDo
  <2> SUFFICES ASSUME SeriesInv PROVE SuccessIffNothingToDo
    OBVIOUS
  <2>1. result \in ResultOf(Int)
    <3>1. Statuses \cup {0} \in SUBSET Int
      BY StatusAssumption
    <3> QED BY <3>1, ResultsGrow DEF SeriesInv, ExchangeTypeOK
  <2> QED BY <2>1, JudgementsAgree DEF SuccessIffNothingToDo
<1> QED BY <1>1, SeriesThroughout, PTL

\* The recovery policy of the comment in http_recovery_manager.c, every row of
\* it, for every status code and every error: only what the table names is
\* retried.
THEOREM PolicyCorrect == Spec => []FollowsPolicyTable
<1>1. SeriesInv => FollowsPolicyTable
  <2> SUFFICES ASSUME SeriesInv PROVE FollowsPolicyTable
    OBVIOUS
  <2>1. result \in ResultOf(Int)
    <3>1. Statuses \cup {0} \in SUBSET Int
      BY StatusAssumption
    <3> QED BY <3>1, ResultsGrow DEF SeriesInv, ExchangeTypeOK
  <2>2. result.err = "ESP_OK" =>
          /\ result.status \in 200 .. 299 => RecoveryAction(result) = "NONE"
          /\ result.status \in {400, 401, 403, 404} => RecoveryAction(result) = "DO_NOT_RETRY"
          /\ result.status \in {408, 429, 500, 502, 503, 504} => RecoveryAction(result) = "RETRY"
          /\ result.status \notin (200 .. 299) \cup {408, 429, 500, 502, 503, 504}
              => RecoveryAction(result) = "DO_NOT_RETRY"
    BY <2>1 DEF RecoveryAction, NothingToDoStatus, RetryableStatus, ResultOf
  <2>3. TransportRetryable(result) <=> ~result.verifyFailed /\ ServerOff
    BY DEF TransportRetryable, RetryableTls, ServerOff, Unreachable
  <2>4. ASSUME result.err # "ESP_OK"
        PROVE  /\ TransportRetryable(result) => RecoveryAction(result) = "RETRY"
               /\ ~TransportRetryable(result) => RecoveryAction(result) = "DO_NOT_RETRY"
    BY <2>4 DEF RecoveryAction
  <2>5. result.err # "ESP_OK" =>
          /\ ~result.verifyFailed /\ ServerOff => RecoveryAction(result) = "RETRY"
          /\ result.verifyFailed => RecoveryAction(result) = "DO_NOT_RETRY"
          /\ ~result.verifyFailed /\ ~ServerOff => RecoveryAction(result) = "DO_NOT_RETRY"
    BY <2>3, <2>4, Zenon
  <2> QED BY <2>2, <2>5 DEF FollowsPolicyTable
<1> QED BY <1>1, SeriesThroughout, PTL

-----------------------------------------------------------------------------
(* The waits. *)

\* Rounds is the function its definition says.  A recursive function is one
\* only if some function satisfies its equation; here that is a table of the
\* four delays there are.
LEMMA RoundsStep ==
    /\ Rounds[0] = BackoffBase
    /\ \A n \in Nat \ {0} : Rounds[n] = Doubled(Rounds[n - 1])
<1> USE DEF BackoffBase, BackoffMax, Doubled
<1> DEFINE g == [n \in Nat |-> IF n = 0 THEN 1000 ELSE IF n = 1 THEN 2000
                               ELSE IF n = 2 THEN 4000 ELSE 8000]
<1>1. ASSUME NEW n \in Nat
      PROVE  g[n] = IF n = 0 THEN BackoffBase ELSE Doubled(g[n - 1])
  <2>1. CASE n = 0
    BY <2>1
  <2>2. CASE n # 0
    <3>1. n - 1 \in Nat
      BY <2>2
    <3> QED BY <2>2, <3>1
  <2> QED BY <2>1, <2>2
<1> HIDE DEF Doubled, BackoffBase
<1>2. g = [n \in Nat |-> IF n = 0 THEN BackoffBase ELSE Doubled(g[n - 1])]
  BY <1>1
<1> HIDE DEF g
<1>3. Rounds = [n \in Nat |-> IF n = 0 THEN BackoffBase ELSE Doubled(Rounds[n - 1])]
  BY <1>2 DEF Rounds
<1>4. \A n \in Nat : Rounds[n] = IF n = 0 THEN BackoffBase ELSE Doubled(Rounds[n - 1])
  BY <1>3
<1> QED BY <1>4

\* The delay doubles three times and then stays: the first round that left the
\* maximum again would follow one that is at it.
LEMMA RoundsSettle ==
    /\ Rounds[0] = 1000 /\ Rounds[1] = 2000 /\ Rounds[2] = 4000
    /\ \A n \in Nat : n >= 3 => Rounds[n] = BackoffMax
<1> USE DEF BackoffBase, BackoffMax, Doubled
<1>1. Rounds[0] = 1000
  BY RoundsStep
<1>2. Rounds[1] = 2000
  BY <1>1, RoundsStep
<1>3. Rounds[2] = 4000
  BY <1>2, RoundsStep
<1>4. Rounds[3] = BackoffMax
  BY <1>3, RoundsStep
<1> DEFINE Less == {p \in Nat \X Nat : p[1] < p[2]}
           U == {n \in Nat : n >= 3 /\ Rounds[n] # BackoffMax}
<1>5. U = {}
  <2> SUFFICES ASSUME U # {} PROVE FALSE
    OBVIOUS
  <2>1. IsWellFoundedOn(Less, Nat)
    BY NatLessThanWellFounded DEF OpToRel
  <2>2. U \subseteq Nat
    OBVIOUS
  <2>3. PICK x \in U : \A y \in U : <<y, x>> \notin Less
    <3> HIDE DEF U, Less
    <3> QED BY <2>1, <2>2, WFMin
  <2>4. x \in Nat /\ x # 3 /\ x - 1 \in Nat /\ x - 1 >= 3 /\ <<x - 1, x>> \in Less
    BY <1>4, <2>3
  <2>5. Rounds[x - 1] = BackoffMax
    BY <2>3, <2>4
  <2>6. Rounds[x] = BackoffMax
    BY <2>4, <2>5, RoundsStep
  <2> QED BY <2>6
<1> QED BY <1>1, <1>2, <1>3, <1>5

\* A wait is longer than the one before it, jitter included, or the longest.
LEMMA NextWaitGrows ==
    ASSUME NEW n \in Nat
    PROVE  /\ LeastWait(n + 1) > GreatestWait(n) \/ LeastWait(n + 1) = BackoffMax
           /\ n + 1 >= 4 => LeastWait(n + 1) = BackoffMax
<1>1. LeastWait(n + 1) = Rounds[n]
  BY DEF LeastWait
<1>2. CASE n = 0
  BY <1>1, <1>2, RoundsSettle DEF GreatestWait
<1>3. CASE n = 1
  BY <1>1, <1>3, RoundsSettle DEF GreatestWait, JitterMax
<1>4. CASE n = 2
  BY <1>1, <1>4, RoundsSettle DEF GreatestWait, JitterMax
<1>5. CASE n >= 3
  BY <1>1, <1>5, RoundsSettle
<1> QED BY <1>2, <1>3, <1>4, <1>5

\* Whatever its limit of retries, a request waits longer before every retry
\* than before the last, up to the maximum, which it has from the fourth on.
THEOREM WaitsGrowCorrect == Spec => WaitsGrow
<1> DEFINE Counted == retry \in Nat
           Grows == Retry => /\ \/ LeastWait(retry') > GreatestWait(retry)
                                \/ LeastWait(retry') = BackoffMax
                             /\ retry' >= 4 => LeastWait(retry') = BackoffMax
<1>1. Init => Counted
  BY DEF Init
<1>2. Counted /\ [Next]_vars => Counted'
  BY DEF Next, Exchange, Retry, vars
<1>3. Counted /\ [Next]_vars => [Grows]_vars
  <2> SUFFICES ASSUME Counted, Retry PROVE Grows
    OBVIOUS
  <2>1. retry' = retry + 1
    BY DEF Retry
  <2> QED BY <2>1, NextWaitGrows
<1> QED BY <1>1, <1>2, <1>3, PTL DEF Spec, WaitsGrow
=============================================================================
