------------------------ MODULE HttpPipeline_proofs ------------------------
(***************************************************************************)
(* Theorems about HttpPipeline for every number of requests and retries,   *)
(* every length of the three queues and every set of replies.              *)
(***************************************************************************)
EXTENDS HttpPipeline, TLAPS

(* Where a task is tells what it has at hand.  TypeOK alone is not         *)
(* inductive: <<>>[1] has no type, so a task must be known to have its     *)
(* request or result wherever its next step takes it.                      *)
AtHand ==
    /\ \A t \in Submitters : subPc[t] = "sending" => subRequest[t] # <<>>
    /\ subPc["recovery"] = "backoff" => subRequest["recovery"] # <<>>
    /\ subPc["telemetry"] # "backoff"
    /\ worker = <<>> \/ workerResult = <<>>
    /\ resPc \in {"counting", "deciding"} => resResult # <<>>
    /\ resPc = "scheduling" => resRetry # <<>>
Typed == TypeOK /\ AtHand

\* A task that has something at hand has one thing of its kind at hand.
LEMMA OptionHolds ==
    ASSUME NEW S, NEW o \in Option(S), o # <<>>
    PROVE  o[1] \in S /\ o = <<o[1]>> /\ Len(o) = 1
BY DEF Option

\* Taking something up, or nothing.
LEMMA OptionTakes ==
    ASSUME NEW S
    PROVE  <<>> \in Option(S) /\ \A x \in S : <<x>> \in Option(S)
BY DEF Option

\* A send to a queue with room leaves a legal queue, one longer.
LEMMA QueueSend ==
    ASSUME NEW S, NEW length \in Nat, NEW q, QueueOK(q, S, length), Len(q) < length,
           NEW x \in S
    PROVE  QueueOK(Append(q, x), S, length) /\ Len(Append(q, x)) = Len(q) + 1
BY DEF QueueOK

\* A receive leaves a legal queue, one shorter, and yields an element.
LEMMA QueueReceive ==
    ASSUME NEW S, NEW length \in Nat, NEW q, QueueOK(q, S, length), q # <<>>
    PROVE  /\ QueueOK(Tail(q), S, length) /\ Head(q) \in S
           /\ Len(Tail(q)) = Len(q) - 1 /\ Len(q) \in Nat
BY DEF QueueOK

\* Every reply has a class that is counted.
LEMMA ReplyClass == \A reply \in Replies : Class(reply) \in Classes
BY ReplyAssumption DEF Class, Classes, ResultOf

\* A retry that is allowed makes a request within the bound.
LEMMA NextTryType ==
    ASSUME NEW r \in Request, RetryAllowed(r)
    PROVE  NextTry(r) \in Request
BY BoundAssumption DEF Request, RetryAllowed, NextTry

\* http_manager_submit counts an attempt and how it ended.
LEMMA SubmitStats ==
    ASSUME stats \in Statistics
    PROVE  /\ [stats EXCEPT !.attempts = @ + 1] \in Statistics
           /\ \A queued \in BOOLEAN : Accounted(queued) \in Statistics
<1>1. [stats EXCEPT !.attempts = @ + 1] \in Statistics
  BY DEF Statistics
<1>2. ASSUME NEW queued \in BOOLEAN PROVE Accounted(queued) \in Statistics
  BY DEF Statistics, Accounted
<1> QED BY <1>1, <1>2

\* http_manager_process_result counts one more result and none of the others.
LEMMA ResultStats ==
    ASSUME stats \in Statistics, NEW reply \in Replies
    PROVE  /\ Counted(reply) \in Statistics
           /\ Counted(reply).total = stats.total + 1
           /\ Counted(reply).attempts = stats.attempts
           /\ Counted(reply).submitted = stats.submitted
           /\ Counted(reply).dropped = stats.dropped
<1> DEFINE more == [stats EXCEPT !.total = @ + 1]
           classes == CountIn(more.class, Class(reply))
<1>1. /\ more \in Statistics /\ more.total = stats.total + 1
      /\ more.attempts = stats.attempts /\ more.submitted = stats.submitted
      /\ more.dropped = stats.dropped
  BY DEF Statistics
<1>2. Counted(reply) = [more EXCEPT !.class = classes]
  BY Zenon DEF Counted
<1> HIDE DEF more
<1>3. classes \in [Classes -> Nat]
  BY <1>1, ReplyClass DEF Statistics, CountIn
<1> HIDE DEF classes
<1>4. /\ [more EXCEPT !.class = classes] \in Statistics
      /\ [more EXCEPT !.class = classes].total = more.total
      /\ [more EXCEPT !.class = classes].attempts = more.attempts
      /\ [more EXCEPT !.class = classes].submitted = more.submitted
      /\ [more EXCEPT !.class = classes].dropped = more.dropped
  BY <1>1, <1>3 DEF Statistics
<1> QED BY <1>1, <1>2, <1>4, Zenon

\* What the result task does to the recovery statistics.
LEMMA RecoveryStatsStep ==
    ASSUME CountersOK,
           \/ UNCHANGED recoveryStats
           \/ recoveryStats' = [recoveryStats EXCEPT !.prepared = @ + 1]
           \/ recoveryStats' = [recoveryStats EXCEPT !.scheduled = @ + 1]
           \/ recoveryStats' = [recoveryStats EXCEPT !.exhausted = @ + 1]
           \/ recoveryStats' = [recoveryStats EXCEPT !.recovered = @ + 1],
           UNCHANGED <<stats, exchanges, skipped, resultsLost, schedulesLost>>
    PROVE  CountersOK'
BY DEF CountersOK

\* Every variable keeps its type: in particular no request is ever given more
\* than MaxRetries retries, whatever the replies and the losses.
THEOREM TypedThroughout == Spec => []Typed
<1>1. Init => Typed
  <2> SUFFICES ASSUME Init PROVE Typed
    OBVIOUS
  <2>1. SubmitOK
    BY BoundAssumption, OptionTakes DEF Init, SubmitOK
  <2>2. WorkOK /\ ResOK
    BY OptionTakes DEF Init, WorkOK, ResOK
  <2>3. QueuesOK
    BY QueueAssumption DEF Init, QueuesOK, QueueOK
  <2>4. CountersOK
    BY DEF Init, CountersOK, Statistics
  <2>5. AtHand
    BY DEF Init, AtHand, Submitters
  <2> QED BY <2>1, <2>2, <2>3, <2>4, <2>5 DEF Typed, TypeOK
<1>2. Typed /\ [Next]_vars => Typed'
  <2> SUFFICES ASSUME Typed, [Next]_vars PROVE Typed'
    OBVIOUS
  <2> USE BoundAssumption, QueueAssumption DEF Typed, TypeOK
  <2>1. CASE TelemetryMakesRequest
    <3>1. nextId' \in 1 .. MaxId + 1 /\ [id |-> nextId, retry |-> 0] \in Request
      BY <2>1 DEF TelemetryMakesRequest, SubmitOK, Request, Ids
    <3>2. SubmitOK' /\ AtHand'
      BY <2>1, <3>1, OptionTakes
         DEF TelemetryMakesRequest, CountAttempt, SubmitOK, Submitters, AtHand, work, res
    <3>3. CountersOK'
      BY <2>1, SubmitStats DEF TelemetryMakesRequest, CountAttempt, CountersOK
    <3> QED BY <2>1, <3>2, <3>3 DEF TelemetryMakesRequest, WorkOK, work, ResOK, res, QueuesOK
  <2>18. CASE TelemetrySkips
    BY <2>18 DEF TelemetrySkips, SubmitOK, submit, AtHand, WorkOK, work, ResOK, res, QueuesOK,
       CountersOK
  <2>2. CASE SubmitTimesOut
    <3>1. SubmitOK' /\ AtHand'
      BY <2>2, OptionTakes DEF SubmitTimesOut, SubmitOK, Submitters, AtHand, work, res
    <3> QED BY <2>2, <3>1 DEF SubmitTimesOut, WorkOK, work, ResOK, res, QueuesOK, CountersOK
  <2>3. CASE RecoveryTakesRetry
    <3>1. Head(retryQueue) \in Request /\ QueuesOK'
      BY <2>3, QueueReceive DEF RecoveryTakesRetry, QueuesOK
    <3>2. SubmitOK' /\ AtHand'
      BY <2>3, <3>1, OptionTakes
         DEF RecoveryTakesRetry, SubmitOK, Submitters, AtHand, work, res
    <3> QED BY <2>3, <3>1, <3>2 DEF RecoveryTakesRetry, WorkOK, work, ResOK, res, CountersOK
  <2>4. CASE RecoverySubmits
    <3>1. subRequest["recovery"][1] \in Request
      BY <2>4, OptionHolds DEF RecoverySubmits, SubmitOK, Submitters, AtHand
    <3>2. SubmitOK' /\ AtHand'
      BY <2>4, <3>1, OptionTakes
         DEF RecoverySubmits, CountAttempt, SubmitOK, Submitters, AtHand, work, res
    <3>3. CountersOK'
      BY <2>4, SubmitStats DEF RecoverySubmits, CountAttempt, CountersOK
    <3> QED BY <2>4, <3>2, <3>3 DEF RecoverySubmits, WorkOK, work, ResOK, res, QueuesOK
  <2>5. ASSUME NEW t \in Submitters, SubmitSends(t) PROVE Typed'
    <3>1. subRequest[t][1] \in Request
      BY <2>5, OptionHolds DEF SubmitSends, SubmitOK, AtHand
    <3>2. QueuesOK'
      BY <2>5, <3>1, QueueSend DEF SubmitSends, QueuesOK
    <3>3. SubmitOK' /\ AtHand'
      BY <2>5, OptionTakes DEF SubmitSends, SubmitOK, Submitters, AtHand, work, res
    <3> QED BY <2>5, <3>2, <3>3 DEF SubmitSends, WorkOK, work, ResOK, res, CountersOK
  <2>6. ASSUME NEW t \in Submitters, SubmitAccounts(t) PROVE Typed'
    <3>1. CountersOK'
      BY <2>6, SubmitStats DEF SubmitAccounts, SubmitOK, CountersOK
    <3>2. SubmitOK' /\ AtHand'
      BY <2>6 DEF SubmitAccounts, SubmitOK, Submitters, AtHand, work, res
    <3> QED BY <2>6, <3>1, <3>2 DEF SubmitAccounts, WorkOK, work, ResOK, res, QueuesOK
  <2>7. CASE WorkerReceives
    <3>1. Head(requestQueue) \in Request /\ QueuesOK'
      BY <2>7, QueueReceive DEF WorkerReceives, QueuesOK
    <3>2. WorkOK' /\ AtHand'
      BY <2>7, <3>1, OptionTakes DEF WorkerReceives, WorkOK, AtHand, submit, res
    <3> QED BY <2>7, <3>1, <3>2 DEF WorkerReceives, SubmitOK, submit, ResOK, res, CountersOK
  <2>8. ASSUME NEW reply \in Replies, WorkerExchanges(reply) PROVE Typed'
    <3>0. worker[1] \in Request
      BY <2>8, OptionHolds DEF WorkerExchanges, WorkOK
    <3>1. worker[1].id \in Ids
      BY <3>0 DEF Request
    <3>2. [request |-> worker[1], reply |-> reply] \in Result
      BY <3>0 DEF Result
    <3>3. WorkOK' /\ AtHand'
      BY <2>8, <3>2, OptionTakes DEF WorkerExchanges, WorkOK, AtHand, submit, res
    <3>4. CountersOK'
      BY <2>8, <3>1 DEF WorkerExchanges, CountersOK
    <3> QED BY <2>8, <3>3, <3>4 DEF WorkerExchanges, SubmitOK, submit, ResOK, res, QueuesOK
  <2>9. CASE WorkerDelivers
    <3>1. workerResult[1] \in Result
      BY <2>9, OptionHolds DEF WorkerDelivers, WorkOK
    <3>2. QueuesOK'
      BY <2>9, <3>1, QueueSend DEF WorkerDelivers, QueuesOK
    <3>4. CountersOK'
      BY <2>9 DEF WorkerDelivers, CountersOK
    <3>3. WorkOK' /\ AtHand'
      BY <2>9, OptionTakes DEF WorkerDelivers, WorkOK, AtHand, submit, res
    <3> QED BY <2>9, <3>2, <3>3, <3>4 DEF WorkerDelivers, SubmitOK, submit, ResOK, res
  <2>10. CASE ResultReceived
    <3>1. Head(resultQueue) \in Result /\ QueuesOK'
      BY <2>10, QueueReceive DEF ResultReceived, QueuesOK
    <3>2. ResOK' /\ AtHand'
      BY <2>10, <3>1, OptionTakes DEF ResultReceived, ResOK, AtHand, submit, work
    <3> QED BY <2>10, <3>1, <3>2 DEF ResultReceived, SubmitOK, submit, WorkOK, work, CountersOK
  <2>11. CASE ResultCounted
    <3>0. resResult[1] \in Result
      BY <2>11, OptionHolds DEF ResultCounted, ResOK, AtHand
    <3>1. resResult[1].reply \in Replies
      BY <3>0 DEF Result
    <3>2. CountersOK'
      BY <2>11, <3>1, ResultStats DEF ResultCounted, CountersOK
    <3>3. ResOK' /\ AtHand'
      BY <2>11 DEF ResultCounted, ResOK, AtHand, submit, work
    <3> QED BY <2>11, <3>2, <3>3 DEF ResultCounted, SubmitOK, submit, WorkOK, work, QueuesOK
  <2>12. CASE ResultFinal
    <3>1. CountersOK'
      BY <2>12, RecoveryStatsStep DEF ResultFinal
    <3>2. ResOK' /\ AtHand'
      BY <2>12, OptionTakes DEF ResultFinal, ResOK, AtHand, submit, work
    <3> QED BY <2>12, <3>1, <3>2 DEF ResultFinal, SubmitOK, submit, WorkOK, work, QueuesOK
  <2>13. CASE RetriesExhausted
    <3>1. CountersOK'
      BY <2>13, RecoveryStatsStep DEF RetriesExhausted, CountExhausted
    <3>2. ResOK' /\ AtHand'
      BY <2>13, OptionTakes DEF RetriesExhausted, ResOK, AtHand, submit, work
    <3> QED BY <2>13, <3>1, <3>2 DEF RetriesExhausted, SubmitOK, submit, WorkOK, work, QueuesOK
  <2>14. CASE RetryPrepared
    <3>0. resResult[1] \in Result
      BY <2>14, OptionHolds DEF RetryPrepared, ResOK, AtHand
    <3>1. resResult[1].request \in Request
      BY <3>0 DEF Result
    <3>2. NextTry(resResult[1].request) \in Request
      BY <2>14, <3>1, NextTryType DEF RetryPrepared
    <3>3. CountersOK'
      BY <2>14, RecoveryStatsStep DEF RetryPrepared
    <3>4. ResOK' /\ AtHand'
      BY <2>14, <3>2, OptionTakes DEF RetryPrepared, ResOK, AtHand, submit, work
    <3> QED BY <2>14, <3>3, <3>4 DEF RetryPrepared, SubmitOK, submit, WorkOK, work, QueuesOK
  <2>15. CASE RetryScheduled
    <3>1. resRetry[1] \in Request
      BY <2>15, OptionHolds DEF RetryScheduled, ResOK, AtHand
    <3>2. QueuesOK'
      BY <2>15, <3>1, QueueSend DEF RetryScheduled, QueuesOK
    <3>4. CountersOK'
      BY <2>15 DEF RetryScheduled, CountersOK
    <3>3. ResOK' /\ AtHand'
      BY <2>15, OptionTakes DEF RetryScheduled, ResOK, AtHand, submit, work
    <3> QED BY <2>15, <3>2, <3>3, <3>4 DEF RetryScheduled, SubmitOK, submit, WorkOK, work
  <2>16. CASE RetryCounted
    <3>1. CountersOK'
      BY <2>16, RecoveryStatsStep DEF RetryCounted
    <3>2. ResOK' /\ AtHand'
      BY <2>16 DEF RetryCounted, ResOK, AtHand, submit, work
    <3> QED BY <2>16, <3>1, <3>2 DEF RetryCounted, SubmitOK, submit, WorkOK, work, QueuesOK
  <2>17. CASE UNCHANGED vars
    BY <2>17 DEF vars, submit, work, res, SubmitOK, WorkOK, ResOK, QueuesOK, CountersOK, AtHand
  <2> QED
    BY <2>1, <2>2, <2>3, <2>4, <2>5, <2>6, <2>7, <2>8, <2>9, <2>10, <2>11, <2>12, <2>13,
       <2>14, <2>15, <2>16, <2>17, <2>18
       DEF Next, Telemetry, RecoveryTask, Submit, Worker, ResultTask
<1> QED BY <1>1, <1>2, PTL DEF Spec

\* The type invariant on its own, as the runs check it.
THEOREM TypeCorrect == Spec => []TypeOK
<1>1. Typed => TypeOK
  BY DEF Typed
<1> QED BY <1>1, TypedThroughout, PTL

-----------------------------------------------------------------------------
(* The counters.  Each is written in a critical section of its own, by one *)
(* of three tasks; what they add up to holds between any two of them.      *)

\* A submission under way is counted by no counter and known by its pc.
LEMMA SubmitterCounts ==
    ASSUME SubmitOK, NEW t \in Submitters
    PROVE  Submitting(t) \in {0, 1} /\ Queued(t) \in {0, 1}
BY DEF Submitting, Queued

\* What the first critical section of http_manager_submit does to the sums.
LEMMA AttemptCounts ==
    ASSUME TypeOK, NEW t \in Submitters, NEW r, CountAttempt(t, r), UNCHANGED subQueued,
           subPc[t] \in {"idle", "backoff"}
    PROVE  /\ Submitting(t) = 0 /\ Submitting(t)' = 1
           /\ Queued(t) = 0 /\ Queued(t)' = 0
           /\ \A o \in Submitters \ {t} : /\ Submitting(o)' = Submitting(o)
                                          /\ Queued(o)' = Queued(o)
           /\ stats'.attempts = stats.attempts + 1 /\ stats'.submitted = stats.submitted
           /\ stats'.dropped = stats.dropped /\ stats'.total = stats.total
BY DEF TypeOK, SubmitOK, CountersOK, Statistics, CountAttempt, Submitting, Queued

\* What the second one does.
LEMMA AccountCounts ==
    ASSUME TypeOK, NEW t \in Submitters, SubmitAccounts(t)
    PROVE  /\ Submitting(t) = 1 /\ Submitting(t)' = 0
           /\ Queued(t)' = 0
           /\ \A o \in Submitters \ {t} : /\ Submitting(o)' = Submitting(o)
                                          /\ Queued(o)' = Queued(o)
           /\ stats'.submitted = stats.submitted + Queued(t)
           /\ stats'.dropped = stats.dropped + 1 - Queued(t)
           /\ stats'.attempts = stats.attempts /\ stats'.total = stats.total
BY DEF TypeOK, SubmitOK, CountersOK, Statistics, SubmitAccounts, Accounted, Submitting, Queued

\* Every attempt to submit is counted as submitted or dropped, or under way.
THEOREM SubmitsCorrect == Spec => []SubmitsAddUp
<1>1. Init => SubmitsAddUp
  BY DEF Init, SubmitsAddUp, Submitting, Submitters
<1>2. Typed /\ SubmitsAddUp /\ [Next]_vars => SubmitsAddUp'
  <2> SUFFICES ASSUME Typed, SubmitsAddUp, [Next]_vars PROVE SubmitsAddUp'
    OBVIOUS
  <2> USE DEF Typed, SubmitsAddUp
  <2>0. /\ Submitting("telemetry") \in {0, 1} /\ Submitting("recovery") \in {0, 1}
        /\ stats.attempts \in Nat /\ stats.submitted \in Nat /\ stats.dropped \in Nat
    BY SubmitterCounts DEF TypeOK, Submitters, CountersOK, Statistics
  <2>1. CASE TelemetryMakesRequest
    BY <2>0, <2>1, AttemptCounts DEF TelemetryMakesRequest, Submitters
  <2>10. CASE TelemetrySkips
    BY <2>10 DEF TelemetrySkips, submit, Submitting
  <2>2. CASE RecoverySubmits
    BY <2>0, <2>2, AttemptCounts DEF RecoverySubmits, Submitters
  <2>3. CASE RecoveryTakesRetry \/ SubmitTimesOut
    BY <2>3 DEF RecoveryTakesRetry, SubmitTimesOut, TypeOK, SubmitOK, Submitters, Submitting
  <2>4. ASSUME NEW t \in Submitters, SubmitSends(t) PROVE SubmitsAddUp'
    BY <2>4 DEF SubmitSends, TypeOK, SubmitOK, Submitters, Submitting
  <2>5. ASSUME NEW t \in Submitters, SubmitAccounts(t) PROVE SubmitsAddUp'
    <3>1. Queued(t) \in {0, 1}
      BY <2>5, SubmitterCounts DEF TypeOK
    <3> QED BY <2>0, <2>5, <3>1, AccountCounts DEF Submitters
  <2>6. CASE Worker
    BY <2>6 DEF Worker, WorkerReceives, WorkerExchanges, WorkerDelivers, submit, Submitting
  <2>7. CASE ResultCounted
    <3>1. resResult[1] \in Result
      BY <2>7, OptionHolds DEF ResultCounted, TypeOK, ResOK, AtHand
    <3>2. resResult[1].reply \in Replies
      BY <3>1 DEF Result
    <3> QED BY <2>7, <3>2, ResultStats DEF ResultCounted, submit, Submitting, TypeOK, CountersOK
  <2>8. CASE \/ ResultReceived \/ ResultFinal \/ RetriesExhausted \/ RetryPrepared
             \/ RetryScheduled \/ RetryCounted
    BY <2>8 DEF ResultReceived, ResultFinal, RetriesExhausted, RetryPrepared,
       RetryScheduled, RetryCounted, submit, Submitting
  <2>9. CASE UNCHANGED vars
    BY <2>9 DEF vars, submit, Submitting
  <2> QED
    BY <2>1, <2>2, <2>3, <2>4, <2>5, <2>6, <2>7, <2>8, <2>9, <2>10
       DEF Next, Telemetry, RecoveryTask, Submit, ResultTask
<1> QED BY <1>1, <1>2, TypedThroughout, PTL DEF Spec

\* No result of an exchange is counted twice or forgotten.
THEOREM ResultsCorrect == Spec => []ResultsAddUp
<1>1. Init => ResultsAddUp
  BY DEF Init, ResultsAddUp, Queued, Submitters
<1>2. Typed /\ ResultsAddUp /\ [Next]_vars => ResultsAddUp'
  <2> SUFFICES ASSUME Typed, ResultsAddUp, [Next]_vars PROVE ResultsAddUp'
    OBVIOUS
  <2> USE DEF Typed, ResultsAddUp
  <2>0. /\ Queued("telemetry") \in {0, 1} /\ Queued("recovery") \in {0, 1}
        /\ stats.submitted \in Nat /\ stats.total \in Nat /\ resultsLost \in Nat
        /\ Len(requestQueue) \in Nat /\ Len(resultQueue) \in Nat
        /\ Len(worker) \in Nat /\ Len(workerResult) \in Nat
    BY SubmitterCounts, QueueAssumption
       DEF TypeOK, Submitters, CountersOK, Statistics, QueuesOK, QueueOK, WorkOK, Option
  <2>1. CASE TelemetryMakesRequest
    BY <2>0, <2>1, AttemptCounts DEF TelemetryMakesRequest, Submitters, work, res
  <2>13. CASE TelemetrySkips
    BY <2>13 DEF TelemetrySkips, submit, work, res, Queued
  <2>2. CASE RecoverySubmits
    BY <2>0, <2>2, AttemptCounts DEF RecoverySubmits, Submitters, work, res
  <2>3. CASE RecoveryTakesRetry \/ SubmitTimesOut
    BY <2>3 DEF RecoveryTakesRetry, SubmitTimesOut, TypeOK, SubmitOK, Submitters, Queued,
       work, res
  <2>4. ASSUME NEW t \in Submitters, SubmitSends(t) PROVE ResultsAddUp'
    <3>1. subRequest[t][1] \in Request
      BY <2>4, OptionHolds DEF SubmitSends, TypeOK, SubmitOK, AtHand
    <3>2. Len(requestQueue') = Len(requestQueue) + 1
      BY <2>4, <3>1, QueueSend, QueueAssumption DEF SubmitSends, TypeOK, QueuesOK
    <3>3. /\ Queued(t) = 0 /\ Queued(t)' = 1
          /\ \A o \in Submitters \ {t} : Queued(o)' = Queued(o)
      BY <2>4 DEF SubmitSends, TypeOK, SubmitOK, Queued
    <3> QED BY <2>0, <2>4, <3>2, <3>3 DEF SubmitSends, Submitters, work, res
  <2>5. ASSUME NEW t \in Submitters, SubmitAccounts(t) PROVE ResultsAddUp'
    <3>1. stats'.submitted = stats.submitted + Queued(t) /\ stats'.total = stats.total
      BY <2>5, AccountCounts
    <3>2. Queued(t)' = 0 /\ \A o \in Submitters \ {t} : Queued(o)' = Queued(o)
      BY <2>5, AccountCounts
    <3>3. UNCHANGED <<requestQueue, worker, workerResult, resultQueue, resultsLost, resPc>>
      BY <2>5 DEF SubmitAccounts, work, res
    <3>4. Queued(t) \in {0, 1}
      BY SubmitterCounts DEF TypeOK
    <3>5. CASE t = "telemetry"
      BY <2>0, <3>1, <3>2, <3>3, <3>5 DEF Submitters
    <3>6. CASE t = "recovery"
      BY <2>0, <3>1, <3>2, <3>3, <3>6 DEF Submitters
    <3> QED BY <3>5, <3>6 DEF Submitters
  <2>6. CASE WorkerReceives
    BY <2>0, <2>6, QueueReceive, QueueAssumption
       DEF WorkerReceives, TypeOK, QueuesOK, submit, res, Queued
  <2>7. ASSUME NEW reply \in Replies, WorkerExchanges(reply) PROVE ResultsAddUp'
    <3>1. Len(worker) = 1 /\ Len(workerResult) = 0
      BY <2>7, OptionHolds DEF WorkerExchanges, TypeOK, WorkOK, AtHand
    <3>2. Len(worker') = 0 /\ Len(workerResult') = 1
      BY <2>7 DEF WorkerExchanges
    <3>3. UNCHANGED <<stats, requestQueue, resultQueue, resultsLost, resPc>>
      BY <2>7 DEF WorkerExchanges, res
    <3>4. UNCHANGED <<Queued("telemetry"), Queued("recovery")>>
      BY <2>7 DEF WorkerExchanges, submit, Queued
    <3> QED BY <2>0, <3>1, <3>2, <3>3, <3>4
  <2>8. CASE WorkerDelivers
    <3>1. workerResult[1] \in Result /\ Len(workerResult) = 1
      BY <2>8, OptionHolds DEF WorkerDelivers, TypeOK, WorkOK
    <3>2. \/ Len(resultQueue') = Len(resultQueue) + 1 /\ resultsLost' = resultsLost
          \/ Len(resultQueue') = Len(resultQueue) /\ resultsLost' = resultsLost + 1
      BY <2>8, <3>1, QueueSend, QueueAssumption DEF WorkerDelivers, TypeOK, QueuesOK
    <3>3. Len(workerResult') = 0 /\ UNCHANGED <<stats, submit, requestQueue, worker, res>>
      BY <2>8 DEF WorkerDelivers
    <3>4. UNCHANGED <<Queued("telemetry"), Queued("recovery"), resPc, stats,
                      Len(requestQueue), Len(worker)>>
      BY <3>3 DEF submit, res, Queued
    <3>5. CASE Len(resultQueue') = Len(resultQueue) + 1 /\ resultsLost' = resultsLost
      BY <2>0, <3>1, <3>3, <3>4, <3>5
    <3>6. CASE Len(resultQueue') = Len(resultQueue) /\ resultsLost' = resultsLost + 1
      BY <2>0, <3>1, <3>3, <3>4, <3>6
    <3> QED BY <3>2, <3>5, <3>6
  <2>9. CASE ResultReceived
    BY <2>0, <2>9, QueueReceive, QueueAssumption
       DEF ResultReceived, TypeOK, QueuesOK, submit, work, Queued
  <2>10. CASE ResultCounted
    <3>1. resResult[1] \in Result
      BY <2>10, OptionHolds DEF ResultCounted, TypeOK, ResOK, AtHand
    <3>2. resResult[1].reply \in Replies
      BY <3>1 DEF Result
    <3>3. stats'.total = stats.total + 1 /\ stats'.submitted = stats.submitted
      BY <2>10, <3>2, ResultStats DEF ResultCounted, TypeOK, CountersOK
    <3> QED BY <2>0, <2>10, <3>3 DEF ResultCounted, submit, work, Queued
  <2>11. CASE \/ ResultFinal \/ RetriesExhausted \/ RetryPrepared
              \/ RetryScheduled \/ RetryCounted
    BY <2>11 DEF ResultFinal, RetriesExhausted, RetryPrepared, RetryScheduled, RetryCounted,
       submit, work, Queued
  <2>12. CASE UNCHANGED vars
    BY <2>12 DEF vars, submit, work, res, Queued
  <2> QED
    BY <2>1, <2>2, <2>3, <2>4, <2>5, <2>6, <2>7, <2>8, <2>9, <2>10, <2>11, <2>12, <2>13
       DEF Next, Telemetry, RecoveryTask, Submit, Worker, ResultTask
<1> QED BY <1>1, <1>2, TypedThroughout, PTL DEF Spec

\* The retries prepared are those scheduled, lost, or at hand.
THEOREM RetriesCorrect == Spec => []RetriesAddUp
<1>1. Init => RetriesAddUp
  BY DEF Init, RetriesAddUp
<1>2. Typed /\ RetriesAddUp /\ [Next]_vars => RetriesAddUp'
  <2> SUFFICES ASSUME Typed, RetriesAddUp, [Next]_vars PROVE RetriesAddUp'
    OBVIOUS
  <2> USE DEF Typed, RetriesAddUp
  <2>0. /\ recoveryStats.prepared \in Nat /\ recoveryStats.scheduled \in Nat
        /\ schedulesLost \in Nat
    BY DEF TypeOK, CountersOK
  <2>1. CASE Telemetry \/ RecoveryTask
    BY <2>1 DEF Telemetry, TelemetryMakesRequest, TelemetrySkips, SubmitTimesOut, RecoveryTask,
       RecoveryTakesRetry, RecoverySubmits, res
  <2>2. CASE Submit \/ Worker
    BY <2>2 DEF Submit, SubmitSends, SubmitAccounts, Worker, WorkerReceives,
       WorkerExchanges, WorkerDelivers, res
  <2>3. CASE ResultReceived \/ ResultCounted
    BY <2>3 DEF ResultReceived, ResultCounted
  <2>4. CASE ResultFinal
    BY <2>4 DEF ResultFinal, TypeOK, CountersOK
  <2>5. CASE RetriesExhausted
    BY <2>5 DEF RetriesExhausted, CountExhausted, TypeOK, CountersOK
  <2>6. CASE RetryPrepared
    BY <2>0, <2>6 DEF RetryPrepared, TypeOK, CountersOK
  <2>7. CASE RetryScheduled
    BY <2>0, <2>7 DEF RetryScheduled
  <2>8. CASE RetryCounted
    BY <2>0, <2>8 DEF RetryCounted, TypeOK, CountersOK
  <2>9. CASE UNCHANGED vars
    BY <2>9 DEF vars, res
  <2> QED
    BY <2>1, <2>2, <2>3, <2>4, <2>5, <2>6, <2>7, <2>8, <2>9 DEF Next, ResultTask
<1> QED BY <1>1, <1>2, TypedThroughout, PTL DEF Spec
=============================================================================
