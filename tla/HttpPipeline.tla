---------------------------- MODULE HttpPipeline ----------------------------
(***************************************************************************)
(* The telemetry path of the firmware: four tasks joined by three bounded  *)
(* FreeRTOS queues.                                                        *)
(*                                                                         *)
(*   telemetry --request queue--> HTTP worker --result queue--> result     *)
(*      task           ^                                         task      *)
(*                     |                                          |        *)
(*                recovery task <--------- retry queue -----------+        *)
(*                                                                         *)
(* A step is what a task does between two points where another task can    *)
(* interfere: one queue operation, or one critical section of the          *)
(* statistics mutex.  A send with a time-out fails only when the queue has *)
(* been full all that time; a send with portMAX_DELAY never fails.         *)
(*                                                                         *)
(* Delays are left out (a delayed task may run at any time), and so are    *)
(* url and body, which no task looks at, and the log.                      *)
(***************************************************************************)
EXTENDS HttpPolicy, Sequences, FiniteSets

CONSTANTS
    MaxId,                  \* bound of the model: requests ever made
    MaxRetries,             \* request.max_retries (3)
    RequestQueueLength,     \* HTTP_CLIENT_REQUEST_QUEUE_LENGTH (4)
    ResultQueueLength,      \* HTTP_CLIENT_RESULT_QUEUE_LENGTH (4)
    RetryQueueLength,       \* HTTP_RECOVERY_QUEUE_LENGTH (4)
    Replies                 \* results an exchange may have

ASSUME BoundAssumption == /\ MaxId \in Nat
                          /\ MaxRetries \in Nat
ASSUME QueueAssumption == /\ RequestQueueLength \in Nat \ {0}
                          /\ ResultQueueLength \in Nat \ {0}
                          /\ RetryQueueLength \in Nat \ {0}
ASSUME ReplyAssumption == Replies \subseteq ResultOf(Int)

Ids == 1 .. MaxId
Request == [id : Ids, retry : 0 .. MaxRetries]
Result == [request : Request, reply : Replies]
Submitters == {"telemetry", "recovery"}

VARIABLES
    nextId,                 \* telemetry's request_id
    skipped,                \* history: ids used up without a request
    subPc,                  \* per submitter: where it is in http_manager_submit
    subRequest,             \* per submitter: the request at hand, <<r>> or <<>>
    subQueued,              \* per submitter: xQueueSend returned pdTRUE
    requestQueue,
    worker,                 \* the worker's request, <<r>> or <<>>
    workerResult,           \* its result waiting for the result queue
    resultQueue,
    resPc,                  \* where the result task is in its loop
    resResult,              \* result at hand, <<r>> or <<>>
    resRetry,               \* retry request it has prepared, <<r>> or <<>>
    retryQueue,
    stats,                  \* manager_stats
    recoveryStats,          \* recovery_stats
    exchanges,              \* history: HTTP exchanges made per request
    resultsLost,            \* history: results a full result queue cost
    schedulesLost           \* history: retries a full retry queue cost

submit == <<subPc, subRequest, subQueued>>
work == <<worker, workerResult>>
res == <<resPc, resResult, resRetry>>
vars == <<nextId, skipped, submit, requestQueue, work, resultQueue, res, retryQueue,
          stats, recoveryStats, exchanges, resultsLost, schedulesLost>>

Option(S) == {<<>>} \cup {<<x>> : x \in S}

SubmitOK ==
    /\ nextId \in 1 .. MaxId + 1
    /\ subPc \in [Submitters -> {"idle", "backoff", "sending", "accounting"}]
    /\ subRequest \in [Submitters -> Option(Request)]
    /\ subQueued \in [Submitters -> BOOLEAN]

WorkOK == worker \in Option(Request) /\ workerResult \in Option(Result)

ResOK ==
    /\ resPc \in {"idle", "counting", "deciding", "scheduling", "notifying"}
    /\ resResult \in Option(Result)
    /\ resRetry \in Option(Request)

QueueOK(q, S, length) == q \in Seq(S) /\ Len(q) <= length
QueuesOK ==
    /\ QueueOK(requestQueue, Request, RequestQueueLength)
    /\ QueueOK(resultQueue, Result, ResultQueueLength)
    /\ QueueOK(retryQueue, Request, RetryQueueLength)

Statistics == [attempts : Nat, submitted : Nat, dropped : Nat, total : Nat,
               class : [Classes -> Nat]]
CountersOK ==
    /\ stats \in Statistics
    /\ recoveryStats \in [prepared : Nat, scheduled : Nat,
                          exhausted : Nat, recovered : Nat]
    /\ exchanges \in [Ids -> Nat]
    /\ skipped \in Nat
    /\ resultsLost \in Nat
    /\ schedulesLost \in Nat

\* What the variables may hold: a request never has more than MaxRetries
\* retries behind it, a queue never more than its length.
TypeOK == SubmitOK /\ WorkOK /\ ResOK /\ QueuesOK /\ CountersOK

\* All tasks started, all queues created, nothing sent.
Init ==
    /\ nextId = 1
    /\ skipped = 0
    /\ subPc = [t \in Submitters |-> "idle"]
    /\ subRequest = [t \in Submitters |-> <<>>]
    /\ subQueued = [t \in Submitters |-> FALSE]
    /\ requestQueue = <<>>
    /\ worker = <<>>
    /\ workerResult = <<>>
    /\ resultQueue = <<>>
    /\ resPc = "idle"
    /\ resResult = <<>>
    /\ resRetry = <<>>
    /\ retryQueue = <<>>
    /\ stats = [attempts |-> 0, submitted |-> 0, dropped |-> 0, total |-> 0,
                class |-> [c \in Classes |-> 0]]
    /\ recoveryStats = [prepared |-> 0, scheduled |-> 0,
                        exhausted |-> 0, recovered |-> 0]
    /\ exchanges = [i \in Ids |-> 0]
    /\ resultsLost = 0
    /\ schedulesLost = 0

-----------------------------------------------------------------------------
\* Mutant: every send waits with portMAX_DELAY.
TimesOut_Never(q, length) == FALSE
\* Three sends wait pdMS_TO_TICKS(100) for room, and then give up: telemetry's
\* submit, the worker's result and the result task's retry.
TimesOut(q, length) == Len(q) = length

(* http_manager_submit, called by the telemetry and the recovery task.     *)

\* The first critical section, entered with request r.
CountAttempt(t, r) ==
    /\ subPc' = [subPc EXCEPT ![t] = "sending"]
    /\ subRequest' = [subRequest EXCEPT ![t] = <<r>>]
    /\ stats' = [stats EXCEPT !.attempts = @ + 1]

\* telemetry_worker_task takes the next id and submits a request with it ...
TelemetryMakesRequest ==
    /\ subPc["telemetry"] = "idle"
    /\ nextId <= MaxId
    /\ nextId' = nextId + 1
    /\ CountAttempt("telemetry", [id |-> nextId, retry |-> 0])
    /\ UNCHANGED <<skipped, subQueued, requestQueue, work, resultQueue, res, retryQueue,
                   recoveryStats, exchanges, resultsLost, schedulesLost>>

\* ... or finds that the reading cannot be serialised, or that its JSON is too
\* long for a request, and leaves it at that; the id is used up.
TelemetrySkips ==
    /\ subPc["telemetry"] = "idle"
    /\ nextId <= MaxId
    /\ nextId' = nextId + 1
    /\ skipped' = skipped + 1
    /\ UNCHANGED <<submit, requestQueue, work, resultQueue, res, retryQueue, stats,
                   recoveryStats, exchanges, resultsLost, schedulesLost>>

\* Mutant: the retry is looked at but not taken out of its queue.
RecoveryTakesRetry_Peeks ==
    /\ subPc["recovery"] = "idle"
    /\ retryQueue # <<>>
    /\ subPc' = [subPc EXCEPT !["recovery"] = "backoff"]
    /\ subRequest' = [subRequest EXCEPT !["recovery"] = <<Head(retryQueue)>>]
    /\ UNCHANGED <<nextId, skipped, subQueued, requestQueue, work, resultQueue, res, retryQueue,
                   stats, recoveryStats, exchanges, resultsLost, schedulesLost>>

\* http_recovery_worker_task takes a retry and sleeps for its backoff ...
RecoveryTakesRetry ==
    /\ subPc["recovery"] = "idle"
    /\ retryQueue # <<>>
    /\ subPc' = [subPc EXCEPT !["recovery"] = "backoff"]
    /\ subRequest' = [subRequest EXCEPT !["recovery"] = <<Head(retryQueue)>>]
    /\ retryQueue' = Tail(retryQueue)
    /\ UNCHANGED <<nextId, skipped, subQueued, requestQueue, work, resultQueue, res, stats,
                   recoveryStats, exchanges, resultsLost, schedulesLost>>

\* ... and submits it when the delay is over.
RecoverySubmits ==
    /\ subPc["recovery"] = "backoff"
    /\ CountAttempt("recovery", subRequest["recovery"][1])
    /\ UNCHANGED <<nextId, skipped, subQueued, requestQueue, work, resultQueue, res, retryQueue,
                   recoveryStats, exchanges, resultsLost, schedulesLost>>

\* http_client_task_submit: the request enters the queue.
SubmitSends(t) ==
    /\ subPc[t] = "sending"
    /\ Len(requestQueue) < RequestQueueLength
    /\ requestQueue' = Append(requestQueue, subRequest[t][1])
    /\ subPc' = [subPc EXCEPT ![t] = "accounting"]
    /\ subRequest' = [subRequest EXCEPT ![t] = <<>>]
    /\ subQueued' = [subQueued EXCEPT ![t] = TRUE]
    /\ UNCHANGED <<nextId, skipped, work, resultQueue, res, retryQueue, stats,
                   recoveryStats, exchanges, resultsLost, schedulesLost>>

\* The telemetry task waits 100 ms for room; the recovery task for ever.
SubmitTimesOut ==
    /\ subPc["telemetry"] = "sending"
    /\ TimesOut(requestQueue, RequestQueueLength)
    /\ subPc' = [subPc EXCEPT !["telemetry"] = "accounting"]
    /\ subRequest' = [subRequest EXCEPT !["telemetry"] = <<>>]
    /\ subQueued' = [subQueued EXCEPT !["telemetry"] = FALSE]
    /\ UNCHANGED <<nextId, skipped, requestQueue, work, resultQueue, res, retryQueue, stats,
                   recoveryStats, exchanges, resultsLost, schedulesLost>>

\* Mutant: a submission that timed out is not counted.
Accounted_OnlySubmitted(queued) ==
    IF queued THEN [stats EXCEPT !.submitted = @ + 1] ELSE stats
Accounted(queued) == IF queued THEN [stats EXCEPT !.submitted = @ + 1]
                               ELSE [stats EXCEPT !.dropped = @ + 1]

\* The second critical section; the caller's loop begins again.
SubmitAccounts(t) ==
    /\ subPc[t] = "accounting"
    /\ stats' = Accounted(subQueued[t])
    /\ subPc' = [subPc EXCEPT ![t] = "idle"]
    /\ UNCHANGED <<nextId, skipped, subRequest, subQueued, requestQueue, work, resultQueue, res,
                   retryQueue, recoveryStats, exchanges, resultsLost, schedulesLost>>

-----------------------------------------------------------------------------
(* http_client_worker_task                                                 *)

WorkerReceives ==
    /\ worker = <<>> /\ workerResult = <<>>
    /\ requestQueue # <<>>
    /\ worker' = <<Head(requestQueue)>>
    /\ requestQueue' = Tail(requestQueue)
    /\ UNCHANGED <<nextId, skipped, submit, workerResult, resultQueue, res, retryQueue, stats,
                   recoveryStats, exchanges, resultsLost, schedulesLost>>

\* The blocking exchange with the server ends with some reply.
WorkerExchanges(reply) ==
    /\ worker # <<>>
    /\ workerResult' = <<[request |-> worker[1], reply |-> reply]>>
    /\ worker' = <<>>
    /\ exchanges' = [exchanges EXCEPT ![worker[1].id] = @ + 1]
    /\ UNCHANGED <<nextId, skipped, submit, requestQueue, resultQueue, res, retryQueue, stats,
                   recoveryStats, resultsLost, schedulesLost>>

\* The result goes to the result task, or is given up after 100 ms.
WorkerDelivers ==
    /\ workerResult # <<>>
    /\ workerResult' = <<>>
    /\ \/ /\ Len(resultQueue) < ResultQueueLength
          /\ resultQueue' = Append(resultQueue, workerResult[1])
          /\ UNCHANGED resultsLost
       \/ /\ TimesOut(resultQueue, ResultQueueLength)
          /\ resultsLost' = resultsLost + 1
          /\ UNCHANGED resultQueue
    /\ UNCHANGED <<nextId, skipped, submit, requestQueue, worker, res, retryQueue, stats,
                   recoveryStats, exchanges, schedulesLost>>

-----------------------------------------------------------------------------
(* http_result_worker_task                                                 *)

ResultReceived ==
    /\ resPc = "idle"
    /\ resultQueue # <<>>
    /\ resPc' = "counting"
    /\ resResult' = <<Head(resultQueue)>>
    /\ resultQueue' = Tail(resultQueue)
    /\ UNCHANGED <<nextId, skipped, submit, requestQueue, work, resRetry, retryQueue, stats,
                   recoveryStats, exchanges, resultsLost, schedulesLost>>

CountIn(counters, c) == [counters EXCEPT ![c] = @ + 1]

\* Mutant: a transport failure returns before the counting.
Counted_OnlyAnswers(reply) ==
    IF reply.err # "ESP_OK" THEN stats
    ELSE [stats EXCEPT !.total = @ + 1, !.class = CountIn(@, Class(reply))]
Counted(reply) == [stats EXCEPT !.total = @ + 1, !.class = CountIn(@, Class(reply))]

\* http_manager_process_result
ResultCounted ==
    /\ resPc = "counting"
    /\ resPc' = "deciding"
    /\ stats' = Counted(resResult[1].reply)
    /\ UNCHANGED <<nextId, skipped, submit, requestQueue, work, resultQueue, resResult, resRetry,
                   retryQueue, recoveryStats, exchanges, resultsLost, schedulesLost>>

\* Mutant: a success at the first try counts as recovered.
Recovered_AnySuccess(result) == RecoveryAction(result.reply) = "NONE"
Recovered(result) ==
    RecoveryAction(result.reply) = "NONE" /\ result.request.retry > 0

\* No retry wanted: a request that needed one counts as recovered when its
\* result is a success.
ResultFinal ==
    /\ resPc = "deciding"
    /\ RecoveryAction(resResult[1].reply) # "RETRY"
    /\ recoveryStats' = IF Recovered(resResult[1])
                        THEN [recoveryStats EXCEPT !.recovered = @ + 1]
                        ELSE recoveryStats
    /\ resPc' = "idle"
    /\ resResult' = <<>>
    /\ UNCHANGED <<nextId, skipped, submit, requestQueue, work, resultQueue, resRetry, retryQueue,
                   stats, exchanges, resultsLost, schedulesLost>>

\* Mutant: one retry too many.
RetryAllowed_OneMore(request) == request.retry <= MaxRetries
RetryAllowed(request) == request.retry < MaxRetries

\* Mutant: retry_count is not incremented.
NextTry_SameCount(request) == request
NextTry(request) == [request EXCEPT !.retry = @ + 1]

\* Mutant: an exhausted request is counted as prepared, too.
CountExhausted_AndPrepared ==
    [recoveryStats EXCEPT !.exhausted = @ + 1, !.prepared = @ + 1]
CountExhausted == [recoveryStats EXCEPT !.exhausted = @ + 1]

\* http_recovery_manager_prepare_retry finds every retry used.
RetriesExhausted ==
    /\ resPc = "deciding"
    /\ RecoveryAction(resResult[1].reply) = "RETRY"
    /\ ~RetryAllowed(resResult[1].request)
    /\ recoveryStats' = CountExhausted
    /\ resPc' = "idle"
    /\ resResult' = <<>>
    /\ UNCHANGED <<nextId, skipped, submit, requestQueue, work, resultQueue, resRetry, retryQueue,
                   stats, exchanges, resultsLost, schedulesLost>>

\* http_recovery_manager_prepare_retry makes the request of the next try.
RetryPrepared ==
    /\ resPc = "deciding"
    /\ RecoveryAction(resResult[1].reply) = "RETRY"
    /\ RetryAllowed(resResult[1].request)
    /\ resRetry' = <<NextTry(resResult[1].request)>>
    /\ recoveryStats' = [recoveryStats EXCEPT !.prepared = @ + 1]
    /\ resPc' = "scheduling"
    /\ resResult' = <<>>
    /\ UNCHANGED <<nextId, skipped, submit, requestQueue, work, resultQueue, retryQueue,
                   stats, exchanges, resultsLost, schedulesLost>>

\* http_recovery_task_chedule: into the retry queue, or lost after 100 ms.
RetryScheduled ==
    /\ resPc = "scheduling"
    /\ resRetry' = <<>>
    /\ \/ /\ Len(retryQueue) < RetryQueueLength
          /\ retryQueue' = Append(retryQueue, resRetry[1])
          /\ resPc' = "notifying"
          /\ UNCHANGED schedulesLost
       \/ /\ TimesOut(retryQueue, RetryQueueLength)
          /\ schedulesLost' = schedulesLost + 1
          /\ resPc' = "idle"
          /\ UNCHANGED retryQueue
    /\ UNCHANGED <<nextId, skipped, submit, requestQueue, work, resultQueue, resResult, stats,
                   recoveryStats, exchanges, resultsLost>>

\* http_recovery_manager_notify_retry_sceduled, after the queue has it.
RetryCounted ==
    /\ resPc = "notifying"
    /\ recoveryStats' = [recoveryStats EXCEPT !.scheduled = @ + 1]
    /\ resPc' = "idle"
    /\ UNCHANGED <<nextId, skipped, submit, requestQueue, work, resultQueue, resResult, resRetry,
                   retryQueue, stats, exchanges, resultsLost, schedulesLost>>

-----------------------------------------------------------------------------
Telemetry == TelemetryMakesRequest \/ TelemetrySkips \/ SubmitTimesOut
RecoveryTask == RecoveryTakesRetry \/ RecoverySubmits
Submit == \E t \in Submitters : SubmitSends(t) \/ SubmitAccounts(t)
Worker == \/ WorkerReceives
          \/ \E reply \in Replies : WorkerExchanges(reply)
          \/ WorkerDelivers
ResultTask == \/ ResultReceived
              \/ ResultCounted
              \/ ResultFinal
              \/ RetriesExhausted
              \/ RetryPrepared
              \/ RetryScheduled
              \/ RetryCounted

Next == Telemetry \/ RecoveryTask \/ Submit \/ Worker \/ ResultTask

Spec == Init /\ [][Next]_vars

\* No task is starved for ever: FreeRTOS runs every ready task of the top
\* priority in turn, and the tasks above it block.  An exchange ends because
\* the HTTP client has a time-out.  Nothing obliges telemetry to make requests.
FairSpec ==
    /\ Spec
    /\ WF_vars(Worker)
    /\ WF_vars(ResultTask)
    /\ WF_vars(RecoveryTask)
    /\ WF_vars(SubmitSends("recovery") \/ SubmitAccounts("recovery"))
    /\ WF_vars(SubmitTimesOut \/ SubmitSends("telemetry") \/ SubmitAccounts("telemetry"))

-----------------------------------------------------------------------------
(* Properties.                                                             *)

\* The places where a copy of a request can be.
Names == {"telemetry", "recovery", "request queue", "worker", "worker result",
          "result queue", "result task", "retry", "retry queue"}

\* The copies in each place, with the exchanges their request must have had: one
\* more than its retry_count once it has an answer and no retry is prepared.
Untried(q) == [i \in DOMAIN q |-> [id |-> q[i].id, tries |-> q[i].retry]]
Tried(q) == [i \in DOMAIN q |-> [id |-> q[i].request.id, tries |-> q[i].request.retry + 1]]
Held ==
    [ p \in Names |->
        CASE p = "telemetry"     -> Untried(subRequest["telemetry"])
          [] p = "recovery"      -> Untried(subRequest["recovery"])
          [] p = "request queue" -> Untried(requestQueue)
          [] p = "worker"        -> Untried(worker)
          [] p = "worker result" -> Tried(workerResult)
          [] p = "result queue"  -> Tried(resultQueue)
          [] p = "result task"   -> Tried(resResult)
          [] p = "retry"         -> Untried(resRetry)
          [] p = "retry queue"   -> Untried(retryQueue) ]

Places(id) ==
    UNION {{<<p, i>> : i \in {j \in DOMAIN Held[p] : Held[p][j].id = id}} : p \in Names}
InFlight(id) == Places(id) # {}

\* A request is copied by value through three queues and four tasks, yet there
\* is never a second copy of it: two tries of one request cannot overlap.
OneCopy == \A id \in Ids : Cardinality(Places(id)) <= 1

\* retry_count is the number of exchanges made with the request, wherever the
\* request is: the bound on retry_count is a bound on what the server sees.
RetryCountIsExact ==
    \A p \in Names : \A i \in DOMAIN Held[p] : exchanges[Held[p][i].id] = Held[p][i].tries

\* The submit counters, each updated in its own critical section, differ by
\* the submissions under way and by nothing else.
Submitting(t) == IF subPc[t] \in {"sending", "accounting"} THEN 1 ELSE 0
SubmitsAddUp ==
    stats.attempts = stats.submitted + stats.dropped
                     + Submitting("telemetry") + Submitting("recovery")

\* What entered the request queue is still on its way to the result task, was
\* lost to a full result queue, or is in stats.total: no exchange is counted
\* twice or forgotten, although request_submitted may lag behind total.
Queued(t) == IF subPc[t] = "accounting" /\ subQueued[t] THEN 1 ELSE 0
ResultsAddUp ==
    stats.submitted + Queued("telemetry") + Queued("recovery") =
        Len(requestQueue) + Len(worker) + Len(workerResult) + Len(resultQueue)
        + resultsLost + (IF resPc = "counting" THEN 1 ELSE 0) + stats.total

\* Every id telemetry has used up is that of a reading it could not send, of a
\* request in flight or lost to a full queue, or of one whose last result
\* prepared no retry; those that ended in success or exhausted their retries
\* are among the latter.
Deciding == IF resPc = "deciding" THEN 1 ELSE 0
EndedByResult == stats.total - recoveryStats.prepared - Deciding
NotQueued(t) == IF subPc[t] = "accounting" /\ ~subQueued[t] THEN 1 ELSE 0
RequestsAddUp ==
    /\ nextId - 1 = Cardinality({id \in Ids : InFlight(id)}) + EndedByResult
                    + stats.dropped + NotQueued("telemetry") + NotQueued("recovery")
                    + resultsLost + schedulesLost + skipped
    /\ stats.class["SUCCESS"] - Deciding + recoveryStats.exhausted <= EndedByResult

\* The retries scheduled, counted by another task's call after the queue has
\* them, are the retries prepared but for those lost and the one at hand.
RetriesAddUp ==
    recoveryStats.prepared = recoveryStats.scheduled + schedulesLost
        + (IF resPc \in {"scheduling", "notifying"} THEN 1 ELSE 0)

\* A request counted as recovered had a retry, counted as scheduled before,
\* although the recovery task may work on a retry not yet counted.
RecoveredWereRetried == recoveryStats.recovered <= recoveryStats.scheduled

\* The ring of tasks never blocks itself, even with every queue full and every
\* task holding one request more: each request leaves it.
EveryRequestEnds == \A id \in Ids : InFlight(id) ~> ~InFlight(id)

\* What all of this means for one request is module RetryContract: it is
\* tried at most 1 + MaxRetries times, never again once it has ended.
Phase(id) == IF id >= nextId THEN "unborn" ELSE IF InFlight(id) THEN "open" ELSE "closed"
phases == [id \in Ids |-> Phase(id)]
Contract == INSTANCE RetryContract WITH phase <- phases, tries <- exchanges
ImplementsContract == Contract!Spec

=============================================================================
