------------------------ MODULE HttpContract_proofs ------------------------
(***************************************************************************)
(* What happens to one request on its way through HttpPipeline: there is   *)
(* one copy of it, its retry count is the number of its exchanges, and the *)
(* pipeline implements RetryContract.  The argument is about Held, the     *)
(* copies in every place: whatever queue or task is involved, a step makes *)
(* a copy of a new request, moves one copy, removes one, or leaves all.    *)
(***************************************************************************)
EXTENDS HttpPipeline_proofs, FiniteSetTheorems

Copies == [id : Ids, tries : Nat]
Holdings == [Names -> Seq(Copies)]

Without(H, p) == [H EXCEPT ![p] = Tail(@)]
With(H, p, e) == [H EXCEPT ![p] = Append(@, e)]

Flight(H) == {id \in Ids : \E p \in Names : \E i \in DOMAIN H[p] : H[p][i].id = id}

Distinct(H) ==
    \A p, q \in Names : \A i \in DOMAIN H[p], j \in DOMAIN H[q] :
        H[p][i].id = H[q][j].id => p = q /\ i = j

\* The copies of G are copies of H, where they were.
Among(G, H) ==
    \A p \in Names : \A i \in DOMAIN G[p] : \E j \in DOMAIN H[p] : G[p][i] = H[p][j]

-----------------------------------------------------------------------------
(* Sequences and holdings.                                                 *)

LEMMA TailPositions ==
    ASSUME NEW S, NEW q \in Seq(S), q # <<>>
    PROVE  /\ Tail(q) \in Seq(S) /\ Head(q) \in S /\ Head(q) = q[1] /\ 1 \in DOMAIN q
           /\ \A i \in DOMAIN Tail(q) : i + 1 \in DOMAIN q /\ i + 1 # 1 /\ Tail(q)[i] = q[i + 1]
           /\ \A i \in DOMAIN q : i # 1 => /\ i - 1 \in DOMAIN Tail(q)
                                           /\ Tail(q)[i - 1] = q[i]
           /\ \A i, j \in DOMAIN Tail(q) : i + 1 = j + 1 => i = j
OBVIOUS

LEMMA AppendPositions ==
    ASSUME NEW S, NEW q \in Seq(S), NEW x \in S
    PROVE  /\ Append(q, x) \in Seq(S)
           /\ \A i \in DOMAIN q : i \in DOMAIN Append(q, x) /\ Append(q, x)[i] = q[i]
           /\ Len(q) + 1 \in DOMAIN Append(q, x) /\ Append(q, x)[Len(q) + 1] = x
           /\ \A i \in DOMAIN Append(q, x) :
                  i \in DOMAIN q \/ (i = Len(q) + 1 /\ Append(q, x)[i] = x)
OBVIOUS

\* Removing the first copy of a place leaves no copy of its request.
LEMMA CopyTaken ==
    ASSUME NEW H \in Holdings, NEW p \in Names, H[p] # <<>>, Distinct(H)
    PROVE  LET e == Head(H[p])
           IN  /\ e \in Copies /\ e.id \in Flight(H)
               /\ \E i \in DOMAIN H[p] : e = H[p][i]
               /\ Without(H, p) \in Holdings /\ Distinct(Without(H, p))
               /\ Among(Without(H, p), H)
               /\ Flight(Without(H, p)) = Flight(H) \ {e.id}
<1> DEFINE G == Without(H, p)
           e == Head(H[p])
<1>1. H[p] \in Seq(Copies)
  BY DEF Holdings
<1>2. /\ Tail(H[p]) \in Seq(Copies) /\ e \in Copies /\ e = H[p][1] /\ 1 \in DOMAIN H[p]
      /\ \A i \in DOMAIN Tail(H[p]) : /\ i + 1 \in DOMAIN H[p] /\ i + 1 # 1
                                      /\ Tail(H[p])[i] = H[p][i + 1]
      /\ \A i \in DOMAIN H[p] : i # 1 => /\ i - 1 \in DOMAIN Tail(H[p])
                                         /\ Tail(H[p])[i - 1] = H[p][i]
      /\ \A i, j \in DOMAIN Tail(H[p]) : i + 1 = j + 1 => i = j
  BY <1>1, TailPositions
<1>3. G[p] = Tail(H[p]) /\ \A q \in Names \ {p} : G[q] = H[q]
  BY DEF Without, Holdings
<1>4. G \in Holdings
  BY <1>2 DEF Without, Holdings
<1> HIDE DEF e, G
<1>5. ASSUME NEW q \in Names, NEW i \in DOMAIN G[q]
      PROVE  \E j \in DOMAIN H[q] : /\ G[q][i] = H[q][j]
                                    /\ j = IF q = p THEN i + 1 ELSE i
                                    /\ q = p => j # 1
  <2>1. CASE q = p
    <3>1. i \in DOMAIN Tail(H[p])
      BY <1>3, <2>1
    <3>2. i + 1 \in DOMAIN H[p] /\ i + 1 # 1 /\ G[p][i] = H[p][i + 1]
      BY <1>2, <1>3, <3>1
    <3> QED BY <2>1, <3>2
  <2>2. CASE q # p
    BY <1>3, <2>2
  <2> QED BY <2>1, <2>2
<1>6. Among(G, H)
  BY <1>5 DEF Among
<1>7. Distinct(G)
  <2> SUFFICES ASSUME NEW q \in Names, NEW r \in Names, NEW i \in DOMAIN G[q],
                      NEW j \in DOMAIN G[r], G[q][i].id = G[r][j].id
               PROVE  q = r /\ i = j
    BY DEF Distinct
  <2>1. PICK k \in DOMAIN H[q] : G[q][i] = H[q][k] /\ k = IF q = p THEN i + 1 ELSE i
    BY <1>5
  <2>2. PICK l \in DOMAIN H[r] : G[r][j] = H[r][l] /\ l = IF r = p THEN j + 1 ELSE j
    BY <1>5
  <2>3. q = r /\ k = l
    BY <2>1, <2>2 DEF Distinct
  <2> QED BY <1>2, <1>3, <2>1, <2>2, <2>3
<1>8. e.id \in Flight(H)
  BY <1>2 DEF Flight, Copies
<1>9. Flight(G) = Flight(H) \ {e.id}
  <2>1. ASSUME NEW id \in Flight(G) PROVE id \in Flight(H) /\ id # e.id
    <3>0. PICK q \in Names : \E i \in DOMAIN G[q] : G[q][i].id = id
      BY DEF Flight
    <3>1. PICK i \in DOMAIN G[q] : G[q][i].id = id
      BY <3>0
    <3>2. PICK j \in DOMAIN H[q] : G[q][i] = H[q][j] /\ (q = p => j # 1)
      BY <1>5
    <3>3. id \in Ids
      BY DEF Flight
    <3>4. id # e.id
      BY <1>2, <3>1, <3>2 DEF Distinct
    <3> QED BY <3>1, <3>2, <3>3, <3>4 DEF Flight
  <2>2. ASSUME NEW id \in Flight(H), id # e.id PROVE id \in Flight(G)
    <3>0. PICK q \in Names : \E i \in DOMAIN H[q] : H[q][i].id = id
      BY DEF Flight
    <3>1. PICK i \in DOMAIN H[q] : H[q][i].id = id
      BY <3>0
    <3>2. id \in Ids
      BY DEF Flight
    <3>3. \E j \in DOMAIN G[q] : G[q][j].id = id
      <4>1. CASE q = p
        <5>1. i \in DOMAIN H[p] /\ i # 1
          BY <1>2, <2>2, <3>1, <4>1
        <5>2. i - 1 \in DOMAIN G[p] /\ G[p][i - 1] = H[p][i]
          BY <1>2, <1>3, <5>1
        <5> QED BY <3>1, <4>1, <5>2
      <4>2. CASE q # p
        BY <1>3, <3>1, <4>2
      <4> QED BY <4>1, <4>2
    <3> QED BY <3>2, <3>3 DEF Flight
  <2> QED BY <2>1, <2>2
<1>10. \E i \in DOMAIN H[p] : e = H[p][i]
  BY <1>2
<1> QED BY <1>2, <1>4, <1>6, <1>7, <1>8, <1>9, <1>10 DEF e, G

\* Adding a copy of a request of which there is none leaves one of it.
LEMMA CopyGiven ==
    ASSUME NEW H \in Holdings, NEW p \in Names, NEW e \in Copies,
           Distinct(H), e.id \notin Flight(H)
    PROVE  /\ With(H, p, e) \in Holdings /\ Distinct(With(H, p, e))
           /\ \A q \in Names : \A i \in DOMAIN With(H, p, e)[q] :
                  \/ With(H, p, e)[q][i] = e
                  \/ \E j \in DOMAIN H[q] : With(H, p, e)[q][i] = H[q][j]
           /\ Flight(With(H, p, e)) = Flight(H) \cup {e.id}
<1> DEFINE G == With(H, p, e)
<1>1. H[p] \in Seq(Copies)
  BY DEF Holdings
<1>2. G[p] = Append(H[p], e) /\ \A q \in Names \ {p} : G[q] = H[q]
  BY DEF With, Holdings
<1>3. /\ Append(H[p], e) \in Seq(Copies)
      /\ \A i \in DOMAIN H[p] : i \in DOMAIN G[p] /\ G[p][i] = H[p][i]
      /\ Len(H[p]) + 1 \in DOMAIN G[p] /\ G[p][Len(H[p]) + 1] = e
      /\ \A i \in DOMAIN G[p] : i \in DOMAIN H[p] \/ (i = Len(H[p]) + 1 /\ G[p][i] = e)
  BY <1>1, <1>2, AppendPositions
<1>4. G \in Holdings
  BY <1>3 DEF With, Holdings
<1> HIDE DEF G
<1>5. ASSUME NEW q \in Names, NEW i \in DOMAIN G[q]
      PROVE  \/ i \in DOMAIN H[q] /\ G[q][i] = H[q][i]
             \/ q = p /\ i = Len(H[p]) + 1 /\ G[q][i] = e
  BY <1>2, <1>3
<1>6. \A q \in Names : \A i \in DOMAIN H[q] : H[q][i].id # e.id
  BY DEF Flight, Copies
<1>7. Distinct(G)
  BY <1>5, <1>6 DEF Distinct
<1>8. Flight(G) = Flight(H) \cup {e.id}
  <2>1. Flight(H) \subseteq Flight(G)
    BY <1>2, <1>3 DEF Flight
  <2>2. e.id \in Flight(G)
    BY <1>3 DEF Flight, Copies
  <2>3. Flight(G) \subseteq Flight(H) \cup {e.id}
    BY <1>5 DEF Flight
  <2> QED BY <2>1, <2>2, <2>3
<1> QED BY <1>4, <1>5, <1>7, <1>8 DEF G

-----------------------------------------------------------------------------
(* The holdings of a state.                                                *)

UntriedCopy(r) == [id |-> r.id, tries |-> r.retry]
TriedCopy(r) == [id |-> r.request.id, tries |-> r.request.retry + 1]

LEMMA UntriedCopies ==
    ASSUME NEW q \in Seq(Request)
    PROVE  /\ Untried(q) \in Seq(Copies)
           /\ q = <<>> => Untried(q) = <<>>
           /\ q # <<>> => /\ Untried(q) # <<>>
                          /\ Head(Untried(q)) = UntriedCopy(Head(q))
                          /\ Untried(Tail(q)) = Tail(Untried(q))
           /\ \A r \in Request : Untried(Append(q, r)) = Append(Untried(q), UntriedCopy(r))
<1>1. \A r \in Request : UntriedCopy(r) \in Copies
  BY BoundAssumption DEF Request, Copies, UntriedCopy
<1>2. Untried(q) \in Seq(Copies) /\ Len(Untried(q)) = Len(q)
  BY <1>1 DEF Untried, UntriedCopy
<1>3. ASSUME q # <<>>
      PROVE  /\ Untried(q) # <<>> /\ Head(Untried(q)) = UntriedCopy(Head(q))
             /\ Untried(Tail(q)) = Tail(Untried(q))
  BY <1>2, <1>3 DEF Untried, UntriedCopy
<1>4. ASSUME NEW r \in Request
      PROVE  Untried(Append(q, r)) = Append(Untried(q), UntriedCopy(r))
  BY <1>2 DEF Untried, UntriedCopy
<1>5. q = <<>> => Untried(q) = <<>>
  BY <1>2
<1> QED BY <1>2, <1>3, <1>4, <1>5

LEMMA TriedCopies ==
    ASSUME NEW q \in Seq(Result)
    PROVE  /\ Tried(q) \in Seq(Copies)
           /\ q = <<>> => Tried(q) = <<>>
           /\ q # <<>> => /\ Tried(q) # <<>>
                          /\ Head(Tried(q)) = TriedCopy(Head(q))
                          /\ Tried(Tail(q)) = Tail(Tried(q))
           /\ \A r \in Result : Tried(Append(q, r)) = Append(Tried(q), TriedCopy(r))
<1>1. \A r \in Result : TriedCopy(r) \in Copies
  BY BoundAssumption DEF Request, Result, Copies, TriedCopy
<1>2. Tried(q) \in Seq(Copies) /\ Len(Tried(q)) = Len(q)
  BY <1>1 DEF Tried, TriedCopy
<1>3. ASSUME q # <<>>
      PROVE  /\ Tried(q) # <<>> /\ Head(Tried(q)) = TriedCopy(Head(q))
             /\ Tried(Tail(q)) = Tail(Tried(q))
  BY <1>2, <1>3 DEF Tried, TriedCopy
<1>4. ASSUME NEW r \in Result
      PROVE  Tried(Append(q, r)) = Append(Tried(q), TriedCopy(r))
  <2>1. Append(q, r) \in Seq(Result) /\ Len(Append(q, r)) = Len(q) + 1
    OBVIOUS
  <2>2. Append(Tried(q), TriedCopy(r)) \in Seq(Copies)
        /\ Len(Append(Tried(q), TriedCopy(r))) = Len(q) + 1
    BY <1>1, <1>2
  <2>3. Tried(Append(q, r)) \in Seq(Copies) /\ Len(Tried(Append(q, r))) = Len(q) + 1
    BY <1>1, <2>1 DEF Tried, TriedCopy
  <2>4. ASSUME NEW i \in 1 .. Len(q) + 1
        PROVE  Tried(Append(q, r))[i] = Append(Tried(q), TriedCopy(r))[i]
    <3>1. Tried(Append(q, r))[i] = TriedCopy(Append(q, r)[i])
      BY <2>1 DEF Tried, TriedCopy
    <3>2. CASE i = Len(q) + 1
      BY <1>1, <1>2, <3>1, <3>2
    <3>3. CASE i # Len(q) + 1
      <4>1. i \in 1 .. Len(q) /\ Append(q, r)[i] = q[i]
        BY <3>3
      <4>2. Append(Tried(q), TriedCopy(r))[i] = Tried(q)[i]
        BY <1>1, <1>2, <4>1
      <4>3. Tried(q)[i] = TriedCopy(q[i])
        BY <4>1 DEF Tried, TriedCopy
      <4> QED BY <3>1, <4>1, <4>2, <4>3
    <3> QED BY <3>2, <3>3
  <2> QED BY <2>2, <2>3, <2>4
<1>5. q = <<>> => Tried(q) = <<>>
  BY <1>2
<1> QED BY <1>2, <1>3, <1>4, <1>5

\* Something taken up or laid down by a task, as a sequence of at most one.
LEMMA OptionSequence ==
    ASSUME NEW S, NEW o \in Option(S)
    PROVE  /\ o \in Seq(S)
           /\ o # <<>> => Tail(o) = <<>> /\ Head(o) = o[1] /\ o[1] \in S
           /\ \A x \in S : <<x>> = Append(<<>>, x)
<1>1. CASE o = <<>>
  BY <1>1
<1>2. CASE o # <<>>
  <2>1. PICK x \in S : o = <<x>>
    BY <1>2 DEF Option
  <2> QED BY <2>1
<1> QED BY <1>1, <1>2

LEMMA HeldPlaces ==
    /\ Held = [p \in Names |-> Held[p]]
    /\ Held["telemetry"] = Untried(subRequest["telemetry"])
    /\ Held["recovery"] = Untried(subRequest["recovery"])
    /\ Held["request queue"] = Untried(requestQueue)
    /\ Held["worker"] = Untried(worker)
    /\ Held["worker result"] = Tried(workerResult)
    /\ Held["result queue"] = Tried(resultQueue)
    /\ Held["result task"] = Tried(resResult)
    /\ Held["retry"] = Untried(resRetry)
    /\ Held["retry queue"] = Untried(retryQueue)
BY DEF Held, Names

LEMMA HeldPlacesNext ==
    /\ Held' = [p \in Names |-> Held'[p]]
    /\ Held'["telemetry"] = Untried(subRequest'["telemetry"])
    /\ Held'["recovery"] = Untried(subRequest'["recovery"])
    /\ Held'["request queue"] = Untried(requestQueue')
    /\ Held'["worker"] = Untried(worker')
    /\ Held'["worker result"] = Tried(workerResult')
    /\ Held'["result queue"] = Tried(resultQueue')
    /\ Held'["result task"] = Tried(resResult')
    /\ Held'["retry"] = Untried(resRetry')
    /\ Held'["retry queue"] = Untried(retryQueue')
BY DEF Held, Names

\* What is in each place is a sequence.
LEMMA PlacesAreSequences ==
    ASSUME TypeOK
    PROVE  /\ \A t \in Submitters : subRequest[t] \in Option(Request)
           /\ \A t \in Submitters : subRequest[t] \in Seq(Request)
           /\ requestQueue \in Seq(Request) /\ retryQueue \in Seq(Request)
           /\ worker \in Seq(Request) /\ resRetry \in Seq(Request)
           /\ workerResult \in Seq(Result) /\ resultQueue \in Seq(Result)
           /\ resResult \in Seq(Result)
BY OptionSequence DEF TypeOK, SubmitOK, WorkOK, ResOK, QueuesOK, QueueOK

LEMMA HeldType == TypeOK => Held \in Holdings
<1> SUFFICES ASSUME TypeOK PROVE Held \in Holdings
  OBVIOUS
<1>1. \A p \in Names : Held[p] \in Seq(Copies)
  <2>1. /\ subRequest["telemetry"] \in Seq(Request) /\ subRequest["recovery"] \in Seq(Request)
        /\ requestQueue \in Seq(Request) /\ retryQueue \in Seq(Request)
        /\ worker \in Seq(Request) /\ resRetry \in Seq(Request)
    BY PlacesAreSequences DEF Submitters
  <2>2. /\ workerResult \in Seq(Result) /\ resultQueue \in Seq(Result)
        /\ resResult \in Seq(Result)
    BY PlacesAreSequences
  <2>3. /\ Held["telemetry"] \in Seq(Copies) /\ Held["recovery"] \in Seq(Copies)
        /\ Held["request queue"] \in Seq(Copies) /\ Held["retry queue"] \in Seq(Copies)
        /\ Held["worker"] \in Seq(Copies) /\ Held["retry"] \in Seq(Copies)
    BY <2>1, HeldPlaces, UntriedCopies
  <2>4. /\ Held["worker result"] \in Seq(Copies) /\ Held["result queue"] \in Seq(Copies)
        /\ Held["result task"] \in Seq(Copies)
    BY <2>2, HeldPlaces, TriedCopies
  <2> QED BY <2>3, <2>4 DEF Names
<1> QED BY <1>1, HeldPlaces DEF Holdings

-----------------------------------------------------------------------------
(* A task takes something up only with its hands free.                     *)

FreeHands ==
    /\ \A t \in Submitters : subPc[t] \in {"idle", "accounting"} => subRequest[t] = <<>>
    /\ resPc \in {"idle", "scheduling", "notifying"} => resResult = <<>>
    /\ resPc # "scheduling" => resRetry = <<>>
Handled == Typed /\ FreeHands

\* No task takes up a request or result while it still has another.
THEOREM HandledThroughout == Spec => []Handled
<1>1. Init => FreeHands
  BY DEF Init, FreeHands, Submitters
<1>2. Typed /\ FreeHands /\ [Next]_vars => FreeHands'
  <2> SUFFICES ASSUME Typed, FreeHands, [Next]_vars PROVE FreeHands'
    OBVIOUS
  <2> USE DEF FreeHands
  <2>0. /\ subPc \in [Submitters -> {"idle", "backoff", "sending", "accounting"}]
        /\ subRequest \in [Submitters -> Option(Request)]
    BY DEF Typed, TypeOK, SubmitOK
  <2>6. CASE TelemetrySkips
    BY <2>6 DEF TelemetrySkips, submit, work, res
  <2>1. CASE TelemetryMakesRequest \/ RecoveryTakesRetry \/ RecoverySubmits \/ SubmitTimesOut
    BY <2>0, <2>1 DEF TelemetryMakesRequest, RecoveryTakesRetry, RecoverySubmits, SubmitTimesOut,
       CountAttempt, Submitters, res
  <2>2. ASSUME NEW t \in Submitters, SubmitSends(t) \/ SubmitAccounts(t) PROVE FreeHands'
    BY <2>0, <2>2 DEF SubmitSends, SubmitAccounts, Submitters, res
  <2>3. CASE Worker
    BY <2>3 DEF Worker, WorkerReceives, WorkerExchanges, WorkerDelivers, submit, res
  <2>4. CASE ResultTask
    BY <2>4 DEF ResultTask, ResultReceived, ResultCounted, ResultFinal, RetriesExhausted,
       RetryPrepared, RetryScheduled, RetryCounted, submit
  <2>5. CASE UNCHANGED vars
    BY <2>5 DEF vars, submit, res
  <2> QED BY <2>1, <2>2, <2>3, <2>4, <2>5, <2>6 DEF Next, Telemetry, RecoveryTask, Submit
<1>3. Typed /\ FreeHands => Handled
  BY DEF Handled
<1> QED BY <1>1, <1>2, <1>3, TypedThroughout, PTL DEF Spec

-----------------------------------------------------------------------------
(* The steps, as what they do to the holdings.                             *)

Born ==
    /\ nextId \in Ids /\ nextId' = nextId + 1 /\ UNCHANGED <<skipped, exchanges>>
    /\ Held' = With(Held, "telemetry", [id |-> nextId, tries |-> 0])
Moved(p, q) ==
    /\ Held[p] # <<>> /\ UNCHANGED <<nextId, skipped, exchanges>>
    /\ Held' = With(Without(Held, p), q, Head(Held[p]))
Dropped(p) ==
    /\ Held[p] # <<>> /\ UNCHANGED <<nextId, skipped, exchanges>>
    /\ Held' = Without(Held, p)
Exchanged ==
    /\ Held["worker"] # <<>> /\ UNCHANGED <<nextId, skipped>>
    /\ LET e == Head(Held["worker"])
       IN  /\ e.tries <= MaxRetries
           /\ Held' = With(Without(Held, "worker"), "worker result",
                           [e EXCEPT !.tries = @ + 1])
           /\ exchanges' = [exchanges EXCEPT ![e.id] = @ + 1]
Skipped ==
    /\ nextId \in Ids /\ nextId' = nextId + 1 /\ skipped' = skipped + 1
    /\ UNCHANGED <<exchanges, Held>>
Stayed == UNCHANGED <<nextId, skipped, exchanges, Held>>

LEMMA BornStep == Handled /\ TelemetryMakesRequest => Born
<1> SUFFICES ASSUME Handled, TelemetryMakesRequest PROVE Born
  OBVIOUS
<1> DEFINE r == [id |-> nextId, retry |-> 0]
<1>1. nextId \in Ids /\ r \in Request
  BY BoundAssumption DEF Handled, Typed, TypeOK, SubmitOK, TelemetryMakesRequest, Ids, Request
<1>2. subRequest["telemetry"] = <<>> /\ subRequest'["telemetry"] = <<r>>
      /\ subRequest'["recovery"] = subRequest["recovery"]
  BY DEF Handled, FreeHands, Typed, TypeOK, SubmitOK, Submitters, TelemetryMakesRequest,
     CountAttempt
<1>3. Untried(<<r>>) = Append(Untried(<<>>), UntriedCopy(r))
  <2>1. <<>> \in Seq(Request) /\ <<r>> = Append(<<>>, r)
    OBVIOUS
  <2> QED BY <1>1, <2>1, UntriedCopies
<1> HIDE DEF r
<1>4. Held'["telemetry"] = Append(Held["telemetry"], UntriedCopy(r))
  BY <1>2, <1>3, HeldPlaces, HeldPlacesNext
<1>5. \A p \in Names \ {"telemetry"} : Held'[p] = Held[p]
  BY <1>2, HeldPlaces, HeldPlacesNext DEF Names, TelemetryMakesRequest, work, res
<1>6. Held' = With(Held, "telemetry", UntriedCopy(r))
  <2>1. Held \in Holdings
    BY HeldType DEF Handled, Typed
  <2>2. Held' = [p \in Names |-> Held'[p]] /\ "telemetry" \in Names
    BY HeldPlacesNext DEF Names
  <2> QED BY <1>4, <1>5, <2>1, <2>2 DEF With, Holdings
<1>7. UntriedCopy(r) = [id |-> nextId, tries |-> 0]
  BY DEF UntriedCopy, r
<1> QED BY <1>1, <1>6, <1>7 DEF Born, TelemetryMakesRequest

LEMMA SkippedStep == Handled /\ TelemetrySkips => Skipped
<1> SUFFICES ASSUME Handled, TelemetrySkips PROVE Skipped
  OBVIOUS
<1>1. nextId \in Ids
  BY BoundAssumption DEF Handled, Typed, TypeOK, SubmitOK, TelemetrySkips, Ids
<1>2. Held' = Held
  BY DEF TelemetrySkips, submit, work, res, Held
<1> QED BY <1>1, <1>2 DEF Skipped, TelemetrySkips

\* A task receives from a queue, and a task sends what it has: requests.
LEMMA UntriedReceived ==
    ASSUME NEW q \in Seq(Request), q # <<>>
    PROVE  /\ Untried(q) # <<>>
           /\ Untried(Tail(q)) = Tail(Untried(q))
           /\ Untried(<<Head(q)>>) = Append(Untried(<<>>), Head(Untried(q)))
<1>1. <<>> \in Seq(Request) /\ Head(q) \in Request /\ <<Head(q)>> = Append(<<>>, Head(q))
  OBVIOUS
<1> QED BY <1>1, UntriedCopies

LEMMA UntriedSent ==
    ASSUME NEW o \in Option(Request), o # <<>>, NEW q \in Seq(Request)
    PROVE  /\ Untried(o) # <<>>
           /\ Untried(<<>>) = Tail(Untried(o))
           /\ Untried(Append(q, o[1])) = Append(Untried(q), Head(Untried(o)))
<1>1. /\ o \in Seq(Request) /\ Tail(o) = <<>> /\ Head(o) = o[1] /\ o[1] \in Request
  BY OptionSequence
<1>2. Untried(o) # <<>> /\ Head(Untried(o)) = UntriedCopy(o[1]) /\ Untried(<<>>) = Tail(Untried(o))
  BY <1>1, UntriedCopies
<1>3. Untried(Append(q, o[1])) = Append(Untried(q), UntriedCopy(o[1]))
  BY <1>1, UntriedCopies
<1> QED BY <1>2, <1>3

\* A task receives from a queue, and a task sends what it has: results.
LEMMA TriedReceived ==
    ASSUME NEW q \in Seq(Result), q # <<>>
    PROVE  /\ Tried(q) # <<>>
           /\ Tried(Tail(q)) = Tail(Tried(q))
           /\ Tried(<<Head(q)>>) = Append(Tried(<<>>), Head(Tried(q)))
<1>1. <<>> \in Seq(Result) /\ Head(q) \in Result /\ <<Head(q)>> = Append(<<>>, Head(q))
  OBVIOUS
<1> QED BY <1>1, TriedCopies

LEMMA TriedSent ==
    ASSUME NEW o \in Option(Result), o # <<>>, NEW q \in Seq(Result)
    PROVE  /\ Tried(o) # <<>>
           /\ Tried(<<>>) = Tail(Tried(o))
           /\ Tried(Append(q, o[1])) = Append(Tried(q), Head(Tried(o)))
<1>1. /\ o \in Seq(Result) /\ Tail(o) = <<>> /\ Head(o) = o[1] /\ o[1] \in Result
  BY OptionSequence
<1>2. Tried(o) # <<>> /\ Head(Tried(o)) = TriedCopy(o[1]) /\ Tried(<<>>) = Tail(Tried(o))
  BY <1>1, TriedCopies
<1>3. Tried(Append(q, o[1])) = Append(Tried(q), TriedCopy(o[1]))
  BY <1>1, TriedCopies
<1> QED BY <1>2, <1>3

LEMMA MoveStep ==
    ASSUME Handled, NEW p \in Names, NEW q \in Names, p # q, Held[p] # <<>>,
           Held'[p] = Tail(Held[p]), Held'[q] = Append(Held[q], Head(Held[p])),
           \A r \in Names \ {p, q} : Held'[r] = Held[r],
           UNCHANGED <<nextId, skipped, exchanges>>
    PROVE  Moved(p, q)
<1> DEFINE F == With(Without(Held, p), q, Head(Held[p]))
<1>1. Held \in Holdings
  BY HeldType DEF Handled, Typed
<1>2. Held' = [r \in Names |-> Held'[r]]
  BY HeldPlacesNext
<1>3. F = [r \in Names |-> F[r]]
  BY <1>1 DEF Holdings, With, Without
<1>4. \A r \in Names : F[r] = IF r = p THEN Tail(Held[p])
                              ELSE IF r = q THEN Append(Held[q], Head(Held[p])) ELSE Held[r]
  BY <1>1 DEF Holdings, With, Without
<1> HIDE DEF F
<1>5. \A r \in Names : F[r] = Held'[r]
  BY <1>4
<1>6. [r \in Names |-> F[r]] = [r \in Names |-> Held'[r]]
  BY <1>5
<1>7. Held' = F
  BY <1>2, <1>3, <1>6, Zenon
<1> QED BY <1>7 DEF Moved, F

LEMMA DropStep ==
    ASSUME Handled, NEW p \in Names, Held[p] # <<>>,
           Held'[p] = Tail(Held[p]), \A r \in Names \ {p} : Held'[r] = Held[r],
           UNCHANGED <<nextId, skipped, exchanges>>
    PROVE  Dropped(p)
<1> DEFINE F == Without(Held, p)
<1>1. Held \in Holdings
  BY HeldType DEF Handled, Typed
<1>2. Held' = [r \in Names |-> Held'[r]]
  BY HeldPlacesNext
<1>3. F = [r \in Names |-> F[r]]
  BY <1>1 DEF Holdings, Without
<1>4. \A r \in Names : F[r] = IF r = p THEN Tail(Held[p]) ELSE Held[r]
  BY <1>1 DEF Holdings, Without
<1> HIDE DEF F
<1>5. \A r \in Names : F[r] = Held'[r]
  BY <1>4
<1>6. [r \in Names |-> F[r]] = [r \in Names |-> Held'[r]]
  BY <1>5
<1>7. Held' = F
  BY <1>2, <1>3, <1>6, Zenon
<1> QED BY <1>7 DEF Dropped, F

LEMMA RecoveryTakesRetryMoves ==
    Handled /\ RecoveryTakesRetry => Moved("retry queue", "recovery")
<1> SUFFICES ASSUME Handled, RecoveryTakesRetry PROVE Moved("retry queue", "recovery")
  OBVIOUS
<1>1. /\ subRequest["recovery"] = <<>> /\ subRequest'["recovery"] = <<Head(retryQueue)>>
      /\ subRequest'["telemetry"] = subRequest["telemetry"]
      /\ retryQueue' = Tail(retryQueue) /\ retryQueue # <<>>
  BY DEF Handled, FreeHands, Typed, TypeOK, SubmitOK, Submitters, RecoveryTakesRetry
<1>2. retryQueue \in Seq(Request)
  BY PlacesAreSequences DEF Handled, Typed
<1>3. /\ Held["retry queue"] # <<>>
      /\ Held'["retry queue"] = Tail(Held["retry queue"])
      /\ Held'["recovery"] = Append(Held["recovery"], Head(Held["retry queue"]))
  <2>1. /\ Untried(retryQueue) # <<>>
        /\ Untried(Tail(retryQueue)) = Tail(Untried(retryQueue))
        /\ Untried(<<Head(retryQueue)>>) = Append(Untried(<<>>), Head(Untried(retryQueue)))
    BY <1>1, <1>2, UntriedReceived
  <2> QED BY <1>1, <2>1, HeldPlaces, HeldPlacesNext
<1>4. \A r \in Names \ {"retry queue", "recovery"} : Held'[r] = Held[r]
  BY <1>1, HeldPlaces, HeldPlacesNext DEF Names, RecoveryTakesRetry, work, res
<1>5. "retry queue" \in Names /\ "recovery" \in Names /\ UNCHANGED <<nextId, skipped, exchanges>>
  BY DEF Names, RecoveryTakesRetry
<1> QED BY <1>3, <1>4, <1>5, MoveStep

LEMMA SubmitSendsMoves ==
    ASSUME Handled, NEW t \in Submitters, SubmitSends(t)
    PROVE  Moved(t, "request queue")
<1>1. /\ subRequest[t] # <<>> /\ subRequest'[t] = <<>>
      /\ \A o \in Submitters \ {t} : subRequest'[o] = subRequest[o]
      /\ requestQueue' = Append(requestQueue, subRequest[t][1])
  BY DEF Handled, Typed, AtHand, TypeOK, SubmitOK, SubmitSends
<1>2. subRequest[t] \in Option(Request) /\ requestQueue \in Seq(Request)
  BY PlacesAreSequences DEF Handled, Typed
<1>3. /\ Untried(subRequest[t]) # <<>>
      /\ Untried(subRequest'[t]) = Tail(Untried(subRequest[t]))
      /\ Untried(requestQueue') = Append(Untried(requestQueue), Head(Untried(subRequest[t])))
  BY <1>1, <1>2, UntriedSent
<1>4. /\ Held[t] # <<>> /\ Held'[t] = Tail(Held[t])
      /\ Held'["request queue"] = Append(Held["request queue"], Head(Held[t]))
  BY <1>3, HeldPlaces, HeldPlacesNext DEF Submitters
<1>5. \A r \in Names \ {t, "request queue"} : Held'[r] = Held[r]
  <2>1. CASE t = "telemetry"
    BY <1>1, <2>1, HeldPlaces, HeldPlacesNext DEF Names, Submitters, SubmitSends, work, res
  <2>2. CASE t = "recovery"
    BY <1>1, <2>2, HeldPlaces, HeldPlacesNext DEF Names, Submitters, SubmitSends, work, res
  <2> QED BY <2>1, <2>2 DEF Submitters
<1>6. t \in Names /\ "request queue" \in Names /\ t # "request queue"
      /\ UNCHANGED <<nextId, skipped, exchanges>>
  BY DEF Names, Submitters, SubmitSends
<1> QED BY <1>4, <1>5, <1>6, MoveStep

LEMMA SubmitTimesOutDrops == Handled /\ SubmitTimesOut => Dropped("telemetry")
<1> SUFFICES ASSUME Handled, SubmitTimesOut PROVE Dropped("telemetry")
  OBVIOUS
<1>1. /\ subRequest["telemetry"] # <<>> /\ subRequest'["telemetry"] = <<>>
      /\ subRequest'["recovery"] = subRequest["recovery"]
  BY DEF Handled, Typed, AtHand, TypeOK, SubmitOK, Submitters, SubmitTimesOut
<1>2. subRequest["telemetry"] \in Option(Request)
  BY PlacesAreSequences DEF Handled, Typed, Submitters
<1>3. Held["telemetry"] # <<>> /\ Held'["telemetry"] = Tail(Held["telemetry"])
  <2>1. <<>> \in Seq(Request)
    OBVIOUS
  <2> QED BY <1>1, <1>2, <2>1, UntriedSent, HeldPlaces, HeldPlacesNext
<1>4. \A r \in Names \ {"telemetry"} : Held'[r] = Held[r]
  BY <1>1, HeldPlaces, HeldPlacesNext DEF Names, SubmitTimesOut, work, res
<1>5. "telemetry" \in Names /\ UNCHANGED <<nextId, skipped, exchanges>>
  BY DEF Names, SubmitTimesOut
<1> QED BY <1>3, <1>4, <1>5, DropStep

LEMMA WorkerReceivesMoves == Handled /\ WorkerReceives => Moved("request queue", "worker")
<1> SUFFICES ASSUME Handled, WorkerReceives PROVE Moved("request queue", "worker")
  OBVIOUS
<1>1. /\ worker = <<>> /\ worker' = <<Head(requestQueue)>>
      /\ requestQueue' = Tail(requestQueue) /\ requestQueue # <<>>
  BY DEF Handled, WorkerReceives
<1>2. requestQueue \in Seq(Request)
  BY PlacesAreSequences DEF Handled, Typed
<1>3. /\ Held["request queue"] # <<>>
      /\ Held'["request queue"] = Tail(Held["request queue"])
      /\ Held'["worker"] = Append(Held["worker"], Head(Held["request queue"]))
  <2>1. /\ Untried(requestQueue) # <<>>
        /\ Untried(Tail(requestQueue)) = Tail(Untried(requestQueue))
        /\ Untried(<<Head(requestQueue)>>) = Append(Untried(<<>>), Head(Untried(requestQueue)))
    BY <1>1, <1>2, UntriedReceived
  <2> QED BY <1>1, <2>1, HeldPlaces, HeldPlacesNext
<1>4. \A r \in Names \ {"request queue", "worker"} : Held'[r] = Held[r]
  BY HeldPlaces, HeldPlacesNext DEF Names, WorkerReceives, submit, res
<1>5. "request queue" \in Names /\ "worker" \in Names /\ UNCHANGED <<nextId, skipped, exchanges>>
  BY DEF Names, WorkerReceives
<1> QED BY <1>3, <1>4, <1>5, MoveStep

LEMMA ResultReceivedMoves == Handled /\ ResultReceived => Moved("result queue", "result task")
<1> SUFFICES ASSUME Handled, ResultReceived PROVE Moved("result queue", "result task")
  OBVIOUS
<1>1. /\ resResult = <<>> /\ resResult' = <<Head(resultQueue)>>
      /\ resultQueue' = Tail(resultQueue) /\ resultQueue # <<>>
  BY DEF Handled, FreeHands, ResultReceived
<1>2. resultQueue \in Seq(Result)
  BY PlacesAreSequences DEF Handled, Typed
<1>3. /\ Held["result queue"] # <<>>
      /\ Held'["result queue"] = Tail(Held["result queue"])
      /\ Held'["result task"] = Append(Held["result task"], Head(Held["result queue"]))
  <2>1. /\ Tried(resultQueue) # <<>>
        /\ Tried(Tail(resultQueue)) = Tail(Tried(resultQueue))
        /\ Tried(<<Head(resultQueue)>>) = Append(Tried(<<>>), Head(Tried(resultQueue)))
    BY <1>1, <1>2, TriedReceived
  <2> QED BY <1>1, <2>1, HeldPlaces, HeldPlacesNext
<1>4. \A r \in Names \ {"result queue", "result task"} : Held'[r] = Held[r]
  BY HeldPlaces, HeldPlacesNext DEF Names, ResultReceived, submit, work, res
<1>5. "result queue" \in Names /\ "result task" \in Names /\ UNCHANGED <<nextId, skipped, exchanges>>
  BY DEF Names, ResultReceived
<1> QED BY <1>3, <1>4, <1>5, MoveStep

LEMMA WorkerDeliversMoves ==
    ASSUME Handled, WorkerDelivers
    PROVE  \/ Moved("worker result", "result queue") /\ resultsLost' = resultsLost
           \/ Dropped("worker result") /\ resultsLost' = resultsLost + 1
<1>1. /\ workerResult # <<>> /\ workerResult' = <<>>
      /\ \/ resultQueue' = Append(resultQueue, workerResult[1]) /\ resultsLost' = resultsLost
         \/ resultQueue' = resultQueue /\ resultsLost' = resultsLost + 1
  BY DEF WorkerDelivers
<1>2. workerResult \in Option(Result) /\ resultQueue \in Seq(Result)
  BY PlacesAreSequences DEF Handled, Typed, TypeOK, WorkOK, ResOK
<1>3. /\ Tried(workerResult) # <<>> /\ Tried(<<>>) = Tail(Tried(workerResult))
      /\ Tried(Append(resultQueue, workerResult[1])) = Append(Tried(resultQueue), Head(Tried(workerResult)))
  BY <1>1, <1>2, TriedSent
<1>4. Held["worker result"] # <<>> /\ Held'["worker result"] = Tail(Held["worker result"])
  BY <1>1, <1>3, HeldPlaces, HeldPlacesNext
<1>5. \A r \in Names \ {"worker result", "result queue"} : Held'[r] = Held[r]
  BY HeldPlaces, HeldPlacesNext DEF Names, WorkerDelivers, submit, res
<1>6. "worker result" \in Names /\ "result queue" \in Names /\ UNCHANGED <<nextId, skipped, exchanges>>
  BY DEF Names, WorkerDelivers
<1>7. CASE resultQueue' = Append(resultQueue, workerResult[1]) /\ resultsLost' = resultsLost
  <2>1. Held'["result queue"] = Append(Held["result queue"], Head(Held["worker result"]))
    BY <1>3, <1>7, HeldPlaces, HeldPlacesNext
  <2> QED BY <1>4, <1>5, <1>6, <1>7, <2>1, MoveStep
<1>8. CASE resultQueue' = resultQueue /\ resultsLost' = resultsLost + 1
  <2>1. Held'["result queue"] = Held["result queue"]
    BY <1>8, HeldPlaces, HeldPlacesNext
  <2>2. \A r \in Names \ {"worker result"} : Held'[r] = Held[r]
    BY <1>5, <2>1
  <2> QED BY <1>4, <1>6, <1>8, <2>2, DropStep
<1> QED BY <1>1, <1>7, <1>8

LEMMA RetryScheduledMoves ==
    ASSUME Handled, RetryScheduled
    PROVE  \/ Moved("retry", "retry queue") /\ schedulesLost' = schedulesLost
           \/ Dropped("retry") /\ schedulesLost' = schedulesLost + 1
<1>1. /\ resRetry # <<>> /\ resRetry' = <<>>
      /\ \/ retryQueue' = Append(retryQueue, resRetry[1]) /\ schedulesLost' = schedulesLost
         \/ retryQueue' = retryQueue /\ schedulesLost' = schedulesLost + 1
  BY DEF Handled, Typed, AtHand, RetryScheduled
<1>2. resRetry \in Option(Request) /\ retryQueue \in Seq(Request)
  BY PlacesAreSequences DEF Handled, Typed, TypeOK, WorkOK, ResOK
<1>3. /\ Untried(resRetry) # <<>> /\ Untried(<<>>) = Tail(Untried(resRetry))
      /\ Untried(Append(retryQueue, resRetry[1])) = Append(Untried(retryQueue), Head(Untried(resRetry)))
  BY <1>1, <1>2, UntriedSent
<1>4. Held["retry"] # <<>> /\ Held'["retry"] = Tail(Held["retry"])
  BY <1>1, <1>3, HeldPlaces, HeldPlacesNext
<1>5. \A r \in Names \ {"retry", "retry queue"} : Held'[r] = Held[r]
  BY HeldPlaces, HeldPlacesNext DEF Names, RetryScheduled, submit, work, res
<1>6. "retry" \in Names /\ "retry queue" \in Names /\ UNCHANGED <<nextId, skipped, exchanges>>
  BY DEF Names, RetryScheduled
<1>7. CASE retryQueue' = Append(retryQueue, resRetry[1]) /\ schedulesLost' = schedulesLost
  <2>1. Held'["retry queue"] = Append(Held["retry queue"], Head(Held["retry"]))
    BY <1>3, <1>7, HeldPlaces, HeldPlacesNext
  <2> QED BY <1>4, <1>5, <1>6, <1>7, <2>1, MoveStep
<1>8. CASE retryQueue' = retryQueue /\ schedulesLost' = schedulesLost + 1
  <2>1. Held'["retry queue"] = Held["retry queue"]
    BY <1>8, HeldPlaces, HeldPlacesNext
  <2>2. \A r \in Names \ {"retry"} : Held'[r] = Held[r]
    BY <1>5, <2>1
  <2> QED BY <1>4, <1>6, <1>8, <2>2, DropStep
<1> QED BY <1>1, <1>7, <1>8

LEMMA ResultEnds ==
    Handled /\ (ResultFinal \/ RetriesExhausted) => Dropped("result task")
<1> SUFFICES ASSUME Handled, ResultFinal \/ RetriesExhausted PROVE Dropped("result task")
  OBVIOUS
<1>1. resResult # <<>> /\ resResult' = <<>>
  BY DEF Handled, Typed, AtHand, ResultFinal, RetriesExhausted
<1>2. resResult \in Option(Result)
  BY DEF Handled, Typed, TypeOK, ResOK
<1>3. Held["result task"] # <<>> /\ Held'["result task"] = Tail(Held["result task"])
  <2>1. <<>> \in Seq(Result)
    OBVIOUS
  <2> QED BY <1>1, <1>2, <2>1, TriedSent, HeldPlaces, HeldPlacesNext
<1>4. \A r \in Names \ {"result task"} : Held'[r] = Held[r]
  BY HeldPlaces, HeldPlacesNext DEF Names, ResultFinal, RetriesExhausted, submit, work
<1>5. "result task" \in Names /\ UNCHANGED <<nextId, skipped, exchanges>>
  BY DEF Names, ResultFinal, RetriesExhausted
<1> QED BY <1>3, <1>4, <1>5, DropStep

\* The retry of a result is a copy of the same request after the same exchanges.
LEMMA RetryPreparedMoves == Handled /\ RetryPrepared => Moved("result task", "retry")
<1> SUFFICES ASSUME Handled, RetryPrepared PROVE Moved("result task", "retry")
  OBVIOUS
<1> DEFINE x == resResult[1]
           n == NextTry(x.request)
<1>1. /\ resResult # <<>> /\ resResult' = <<>> /\ resRetry = <<>> /\ resRetry' = <<n>>
      /\ RetryAllowed(x.request)
  BY DEF Handled, FreeHands, Typed, AtHand, RetryPrepared
<1>2. resResult \in Option(Result)
  BY DEF Handled, Typed, TypeOK, ResOK
<1>3. x \in Result
  BY <1>1, <1>2, OptionHolds
<1>4. x.request \in Request
  BY <1>3 DEF Result
<1>5. n \in Request /\ UntriedCopy(n) = TriedCopy(x)
  BY <1>1, <1>4, NextTryType DEF NextTry, Request, UntriedCopy, TriedCopy
<1>6. /\ Tried(resResult) # <<>> /\ Tried(<<>>) = Tail(Tried(resResult))
      /\ Head(Tried(resResult)) = TriedCopy(x)
  <2>1. resResult \in Seq(Result) /\ Head(resResult) = x /\ Tail(resResult) = <<>>
    BY <1>1, <1>2, OptionSequence
  <2> QED BY <1>1, <2>1, TriedCopies
<1>7. Untried(<<n>>) = Append(Untried(<<>>), UntriedCopy(n))
  <2>1. <<>> \in Seq(Request) /\ <<n>> = Append(<<>>, n)
    OBVIOUS
  <2> QED BY <1>5, <2>1, UntriedCopies
<1> HIDE DEF x, n
<1>8. /\ Held["result task"] # <<>> /\ Held'["result task"] = Tail(Held["result task"])
      /\ Held'["retry"] = Append(Held["retry"], Head(Held["result task"]))
  BY <1>1, <1>5, <1>6, <1>7, HeldPlaces, HeldPlacesNext
<1>9. \A r \in Names \ {"result task", "retry"} : Held'[r] = Held[r]
  BY HeldPlaces, HeldPlacesNext DEF Names, RetryPrepared, submit, work
<1>10. "result task" \in Names /\ "retry" \in Names /\ UNCHANGED <<nextId, skipped, exchanges>>
  BY DEF Names, RetryPrepared
<1> QED BY <1>8, <1>9, <1>10, MoveStep

\* An exchange moves the copy and counts itself in the request and in history.
LEMMA WorkerExchangesStep ==
    ASSUME Handled, NEW reply \in Replies, WorkerExchanges(reply)
    PROVE  Exchanged
<1> DEFINE r == worker[1]
           x == [request |-> r, reply |-> reply]
           F == With(Without(Held, "worker"), "worker result", TriedCopy(x))
<1>1. /\ worker # <<>> /\ worker' = <<>> /\ workerResult = <<>> /\ workerResult' = <<x>>
      /\ exchanges' = [exchanges EXCEPT ![r.id] = @ + 1] /\ UNCHANGED <<nextId, skipped>>
  BY DEF Handled, Typed, AtHand, WorkerExchanges
<1>2. worker \in Option(Request)
  BY DEF Handled, Typed, TypeOK, WorkOK
<1>3. r \in Request
  BY <1>1, <1>2, OptionHolds
<1>4. x \in Result
  BY <1>3 DEF Result
<1>5. /\ Untried(worker) # <<>> /\ Untried(<<>>) = Tail(Untried(worker))
      /\ Head(Untried(worker)) = UntriedCopy(r)
  <2>1. worker \in Seq(Request) /\ Head(worker) = r /\ Tail(worker) = <<>>
    BY <1>1, <1>2, OptionSequence
  <2> QED BY <1>1, <2>1, UntriedCopies
<1>6. Tried(<<x>>) = Append(Tried(<<>>), TriedCopy(x))
  <2>1. <<>> \in Seq(Result) /\ <<x>> = Append(<<>>, x)
    OBVIOUS
  <2> QED BY <1>4, <2>1, TriedCopies
<1>7. /\ TriedCopy(x) = [UntriedCopy(r) EXCEPT !.tries = @ + 1]
      /\ UntriedCopy(r).tries <= MaxRetries /\ UntriedCopy(r).id = r.id
  BY <1>3, BoundAssumption DEF Request, UntriedCopy, TriedCopy
<1> HIDE DEF r, x
<1>8. /\ Held["worker"] # <<>> /\ Held'["worker"] = Tail(Held["worker"])
      /\ Head(Held["worker"]) = UntriedCopy(r)
      /\ Held'["worker result"] = Append(Held["worker result"], TriedCopy(x))
  BY <1>1, <1>5, <1>6, HeldPlaces, HeldPlacesNext
<1>9. \A p \in Names \ {"worker", "worker result"} : Held'[p] = Held[p]
  BY HeldPlaces, HeldPlacesNext DEF Names, WorkerExchanges, submit, res
<1>10. Held' = F
  <2>1. Held \in Holdings /\ "worker" \in Names /\ "worker result" \in Names
    BY HeldType DEF Handled, Typed, Names
  <2>2. F = [p \in Names |-> F[p]]
    BY <2>1 DEF Holdings, With, Without
  <2>3. \A p \in Names : F[p] = IF p = "worker" THEN Tail(Held["worker"])
                                ELSE IF p = "worker result"
                                THEN Append(Held["worker result"], TriedCopy(x)) ELSE Held[p]
    BY <2>1 DEF Holdings, With, Without
  <2> HIDE DEF F
  <2>4. \A p \in Names : F[p] = Held'[p]
    BY <1>8, <1>9, <2>3
  <2>5. [p \in Names |-> F[p]] = [p \in Names |-> Held'[p]]
    BY <2>4
  <2> QED BY <2>2, <2>5, HeldPlacesNext, Zenon
<1> QED BY <1>1, <1>7, <1>8, <1>10 DEF Exchanged

LEMMA OtherStepsStay ==
    ASSUME Handled,
           \/ RecoverySubmits \/ ResultCounted \/ RetryCounted \/ UNCHANGED vars
           \/ \E t \in Submitters : SubmitAccounts(t)
    PROVE  Stayed
<1>1. /\ UNCHANGED <<nextId, skipped, exchanges, requestQueue, worker, workerResult, resultQueue,
                     resResult, resRetry, retryQueue>>
      /\ subRequest'["telemetry"] = subRequest["telemetry"]
  BY DEF Handled, Typed, TypeOK, SubmitOK, Submitters, RecoverySubmits, CountAttempt, ResultCounted,
     RetryCounted, SubmitAccounts, vars, submit, work, res
<1>2. subRequest'["recovery"] = subRequest["recovery"]
  <2>1. CASE RecoverySubmits
    <3>1. subRequest'["recovery"] = <<subRequest["recovery"][1]>>
      BY <2>1 DEF RecoverySubmits, CountAttempt, Handled, Typed, TypeOK, SubmitOK, Submitters
    <3>2. subRequest["recovery"] \in Option(Request) /\ subRequest["recovery"] # <<>>
      BY <2>1 DEF RecoverySubmits, Handled, Typed, AtHand, TypeOK, SubmitOK, Submitters
    <3> QED BY <3>1, <3>2, OptionHolds
  <2>2. CASE ~RecoverySubmits
    BY <2>2 DEF ResultCounted, RetryCounted, SubmitAccounts, vars, submit
  <2> QED BY <2>1, <2>2
<1>3. Held' = Held
  BY <1>1, <1>2 DEF Held
<1> QED BY <1>1, <1>3 DEF Stayed

LEMMA StepKinds ==
    ASSUME Handled, [Next]_vars
    PROVE  \/ Born \/ Skipped \/ Exchanged \/ Stayed
           \/ \E p, q \in Names : Moved(p, q)
           \/ \E p \in Names : Dropped(p)
<1> USE DEF Names, Submitters
<1>1. CASE Telemetry
  BY <1>1, BornStep, SkippedStep, SubmitTimesOutDrops DEF Telemetry
<1>2. CASE RecoveryTask
  BY <1>2, RecoveryTakesRetryMoves, OtherStepsStay DEF RecoveryTask
<1>3. CASE Submit
  BY <1>3, SubmitSendsMoves, OtherStepsStay DEF Submit
<1>4. CASE Worker
  BY <1>4, WorkerReceivesMoves, WorkerExchangesStep, WorkerDeliversMoves DEF Worker
<1>5. CASE ResultTask
  BY <1>5, ResultReceivedMoves, OtherStepsStay, ResultEnds, RetryPreparedMoves,
     RetryScheduledMoves DEF ResultTask
<1>6. CASE UNCHANGED vars
  BY <1>6, OtherStepsStay
<1> QED BY <1>1, <1>2, <1>3, <1>4, <1>5, <1>6 DEF Next

-----------------------------------------------------------------------------
(* The invariant: one copy of each request, of requests already made, with *)
(* the exchanges made, and no exchange before a request is made.           *)

Exact(H, x) == \A p \in Names : \A i \in DOMAIN H[p] : x[H[p][i].id] = H[p][i].tries
Made(H, n) == \A id \in Flight(H) : id < n
Fresh(x, n) == \A id \in Ids : id >= n => x[id] = 0

HeldInv == /\ Distinct(Held) /\ Exact(Held, exchanges)
           /\ Made(Held, nextId) /\ Fresh(exchanges, nextId)

\* What each kind of step leaves of it, and does to the requests in flight.
LEMMA BornKeeps ==
    ASSUME Handled, HeldInv, Born
    PROVE  HeldInv' /\ Flight(Held') = Flight(Held) \cup {nextId}
<1> DEFINE e == [id |-> nextId, tries |-> 0]
<1>1. Held \in Holdings /\ nextId \in Nat /\ "telemetry" \in Names
  BY HeldType DEF Handled, Typed, TypeOK, SubmitOK, Names
<1>2. e \in Copies /\ e.id = nextId /\ e.tries = 0 /\ nextId \in Ids
  BY DEF Copies, Born
<1>3. Held' = With(Held, "telemetry", e)
  BY DEF Born
<1> HIDE DEF e
<1>4. nextId \notin Flight(Held)
  BY <1>1 DEF HeldInv, Made
<1>5. /\ Distinct(Held') /\ Flight(Held') = Flight(Held) \cup {nextId}
      /\ \A q \in Names : \A i \in DOMAIN Held'[q] :
             Held'[q][i] = e \/ \E j \in DOMAIN Held[q] : Held'[q][i] = Held[q][j]
  BY <1>1, <1>2, <1>3, <1>4, CopyGiven DEF HeldInv
<1>6. exchanges' = exchanges /\ nextId' = nextId + 1
  BY DEF Born
<1>7. exchanges[nextId] = 0
  BY <1>1, <1>2 DEF HeldInv, Fresh
<1>8. Exact(Held', exchanges)
  BY <1>2, <1>5, <1>7 DEF HeldInv, Exact
<1>9. Made(Held', nextId + 1)
  BY <1>1, <1>5 DEF HeldInv, Made, Flight, Ids
<1>10. Fresh(exchanges, nextId + 1)
  BY <1>1 DEF HeldInv, Fresh, Ids
<1> QED BY <1>5, <1>6, <1>8, <1>9, <1>10 DEF HeldInv

LEMMA DropKeeps ==
    ASSUME Handled, HeldInv, NEW p \in Names, Dropped(p)
    PROVE  /\ HeldInv' /\ Head(Held[p]).id \in Flight(Held)
           /\ Flight(Held') = Flight(Held) \ {Head(Held[p]).id}
<1>1. Held \in Holdings
  BY HeldType DEF Handled, Typed
<1>2. /\ Head(Held[p]).id \in Flight(Held)
      /\ Distinct(Held') /\ Among(Held', Held)
      /\ Flight(Held') = Flight(Held) \ {Head(Held[p]).id}
  BY <1>1, CopyTaken DEF Dropped, HeldInv
<1>3. exchanges' = exchanges /\ nextId' = nextId
  BY DEF Dropped
<1>4. Exact(Held', exchanges)
  BY <1>2 DEF HeldInv, Exact, Among
<1>5. Made(Held', nextId)
  BY <1>2 DEF HeldInv, Made
<1> QED BY <1>2, <1>3, <1>4, <1>5 DEF HeldInv

LEMMA MoveKeeps ==
    ASSUME Handled, HeldInv, NEW p \in Names, NEW q \in Names, Moved(p, q)
    PROVE  HeldInv' /\ Flight(Held') = Flight(Held)
<1> DEFINE G == Without(Held, p)
           e == Head(Held[p])
<1>1. Held \in Holdings
  BY HeldType DEF Handled, Typed
<1>2. /\ e \in Copies /\ e.id \in Flight(Held) /\ \E i \in DOMAIN Held[p] : e = Held[p][i]
      /\ G \in Holdings /\ Distinct(G) /\ Among(G, Held) /\ Flight(G) = Flight(Held) \ {e.id}
  BY <1>1, CopyTaken DEF Moved, HeldInv
<1>3. Held' = With(G, q, e) /\ exchanges' = exchanges /\ nextId' = nextId
  BY DEF Moved
<1> HIDE DEF G, e
<1>4. /\ Distinct(Held') /\ Flight(Held') = Flight(G) \cup {e.id}
      /\ \A r \in Names : \A i \in DOMAIN Held'[r] :
             Held'[r][i] = e \/ \E j \in DOMAIN G[r] : Held'[r][i] = G[r][j]
  BY <1>2, <1>3, CopyGiven
<1>5. Flight(Held') = Flight(Held)
  BY <1>2, <1>4
<1>6. exchanges[e.id] = e.tries
  BY <1>2 DEF HeldInv, Exact
<1>7. Exact(Held', exchanges)
  <2> SUFFICES ASSUME NEW r \in Names, NEW i \in DOMAIN Held'[r]
               PROVE  exchanges[Held'[r][i].id] = Held'[r][i].tries
    BY DEF Exact
  <2>1. CASE Held'[r][i] = e
    BY <1>6, <2>1
  <2>2. CASE \E j \in DOMAIN G[r] : Held'[r][i] = G[r][j]
    BY <1>2, <2>2 DEF Among, HeldInv, Exact
  <2> QED BY <1>4, <2>1, <2>2
<1>8. Made(Held', nextId)
  BY <1>5 DEF HeldInv, Made
<1> QED BY <1>3, <1>4, <1>5, <1>7, <1>8 DEF HeldInv

LEMMA ExchangeKeeps ==
    ASSUME Handled, HeldInv, Exchanged
    PROVE  /\ HeldInv' /\ Flight(Held') = Flight(Held)
           /\ \E id \in Flight(Held) : /\ exchanges[id] \in Nat /\ exchanges[id] <= MaxRetries
                                       /\ exchanges' = [exchanges EXCEPT ![id] = @ + 1]
<1> DEFINE G == Without(Held, "worker")
           e == Head(Held["worker"])
           f == [e EXCEPT !.tries = @ + 1]
<1>0. "worker" \in Names /\ "worker result" \in Names
  BY DEF Names
<1>1. Held \in Holdings /\ exchanges \in [Ids -> Nat]
  BY HeldType DEF Handled, Typed, TypeOK, CountersOK
<1>2. /\ e \in Copies /\ e.id \in Flight(Held)
      /\ \E i \in DOMAIN Held["worker"] : e = Held["worker"][i]
      /\ G \in Holdings /\ Distinct(G) /\ Among(G, Held) /\ Flight(G) = Flight(Held) \ {e.id}
  BY <1>0, <1>1, CopyTaken DEF Exchanged, HeldInv
<1>3. f \in Copies /\ f.id = e.id /\ f.tries = e.tries + 1
  BY <1>2 DEF Copies
<1>4. /\ Held' = With(G, "worker result", f) /\ nextId' = nextId
      /\ exchanges' = [exchanges EXCEPT ![e.id] = @ + 1] /\ e.tries <= MaxRetries
  BY DEF Exchanged
<1> HIDE DEF G, e, f
<1>5. /\ Distinct(Held') /\ Flight(Held') = Flight(G) \cup {e.id}
      /\ \A r \in Names : \A i \in DOMAIN Held'[r] :
             Held'[r][i] = f \/ \E j \in DOMAIN G[r] : Held'[r][i] = G[r][j]
  <2> DEFINE w == "worker result"
  <2>1. f.id \notin Flight(G) /\ w \in Names /\ Held' = With(G, w, f)
    BY <1>0, <1>2, <1>3, <1>4
  <2> HIDE DEF w
  <2>2. /\ Distinct(With(G, w, f)) /\ Flight(With(G, w, f)) = Flight(G) \cup {f.id}
        /\ \A r \in Names : \A i \in DOMAIN With(G, w, f)[r] :
               With(G, w, f)[r][i] = f \/ \E j \in DOMAIN G[r] : With(G, w, f)[r][i] = G[r][j]
    BY <1>2, <1>3, <2>1, CopyGiven
  <2> QED BY <1>3, <2>1, <2>2
<1>6. Flight(Held') = Flight(Held)
  BY <1>2, <1>5
<1>7. e.id \in Ids /\ exchanges[e.id] = e.tries /\ e.tries \in Nat
  BY <1>0, <1>2 DEF HeldInv, Exact, Copies
<1>8. Exact(Held', exchanges')
  <2> SUFFICES ASSUME NEW r \in Names, NEW i \in DOMAIN Held'[r]
               PROVE  exchanges'[Held'[r][i].id] = Held'[r][i].tries
    BY DEF Exact
  <2>1. CASE Held'[r][i] = f
    BY <1>1, <1>3, <1>4, <1>7, <2>1
  <2>2. CASE \E j \in DOMAIN G[r] : Held'[r][i] = G[r][j]
    <3>1. PICK j \in DOMAIN G[r] : Held'[r][i] = G[r][j]
      BY <2>2
    <3>2. PICK k \in DOMAIN Held[r] : G[r][j] = Held[r][k]
      BY <1>2 DEF Among
    <3>3. G[r][j] \in Copies
      BY <1>2 DEF Holdings
    <3>4. G[r][j].id \in Flight(G)
      BY <3>3 DEF Flight, Copies
    <3>5. G[r][j].id # e.id /\ G[r][j].id \in Ids
      BY <1>2, <3>3, <3>4 DEF Copies
    <3>6. exchanges'[G[r][j].id] = exchanges[G[r][j].id]
      BY <1>1, <1>4, <3>5
    <3>7. exchanges[G[r][j].id] = G[r][j].tries
      BY <3>2 DEF HeldInv, Exact
    <3> QED BY <3>1, <3>6, <3>7
  <2> QED BY <1>5, <2>1, <2>2
<1>9. Made(Held', nextId)
  BY <1>6 DEF HeldInv, Made
<1>10. Fresh(exchanges', nextId)
  <2>1. e.id < nextId /\ nextId \in Nat /\ e.id \in Nat
    BY <1>2, <1>7 DEF HeldInv, Made, Handled, Typed, TypeOK, SubmitOK, Ids
  <2>2. ASSUME NEW id \in Ids, id >= nextId PROVE exchanges'[id] = 0
    <3>1. id # e.id
      BY <2>1, <2>2 DEF Ids
    <3> QED BY <1>1, <1>4, <2>2, <3>1 DEF HeldInv, Fresh
  <2> QED BY <2>2 DEF Fresh
<1> QED BY <1>2, <1>4, <1>5, <1>6, <1>7, <1>8, <1>9, <1>10 DEF HeldInv

LEMMA SkippedKeeps ==
    ASSUME Handled, HeldInv, Skipped
    PROVE  HeldInv' /\ Held' = Held
<1>1. nextId \in Nat /\ nextId' = nextId + 1 /\ Held' = Held /\ exchanges' = exchanges
  BY DEF Handled, Typed, TypeOK, SubmitOK, Skipped
<1>2. Made(Held, nextId + 1)
  BY <1>1 DEF HeldInv, Made, Flight, Ids
<1>3. Fresh(exchanges, nextId + 1)
  BY <1>1 DEF HeldInv, Fresh, Ids
<1> QED BY <1>1, <1>2, <1>3 DEF HeldInv

LEMMA HeldStep ==
    ASSUME Handled, HeldInv, [Next]_vars
    PROVE  HeldInv'
<1>1. CASE Stayed
  BY <1>1 DEF Stayed, HeldInv
<1> QED BY <1>1, StepKinds, BornKeeps, SkippedKeeps, DropKeeps, MoveKeeps, ExchangeKeeps

\* One copy of each request made, with the exchanges made, at all times.
THEOREM HeldThroughout == Spec => [](Handled /\ HeldInv)
<1>1. Init => HeldInv
  <2> SUFFICES ASSUME Init PROVE HeldInv
    OBVIOUS
  <2>1. \A p \in Names : Held[p] = <<>>
    <3>1. \A q : q = <<>> => Untried(q) = <<>> /\ Tried(q) = <<>>
      BY DEF Untried, Tried
    <3> QED BY <3>1, HeldPlaces DEF Init, Names, Submitters
  <2>2. Flight(Held) = {}
    BY <2>1 DEF Flight
  <2>3. Distinct(Held) /\ Exact(Held, exchanges) /\ Made(Held, nextId)
    BY <2>1, <2>2 DEF Distinct, Exact, Made
  <2>4. Fresh(exchanges, nextId)
    BY DEF Init, Fresh
  <2> QED BY <2>3, <2>4 DEF HeldInv
<1>2. Handled /\ HeldInv /\ [Next]_vars => HeldInv'
  BY HeldStep
<1> QED BY <1>1, <1>2, HandledThroughout, PTL DEF Spec

-----------------------------------------------------------------------------
(* What the runs check.                                                    *)

PlacesIn(H, id) ==
    UNION {{<<p, i>> : i \in {j \in DOMAIN H[p] : H[p][j].id = id}} : p \in Names}

LEMMA PlacesOf ==
    ASSUME NEW H, NEW id
    PROVE  /\ \A x \in PlacesIn(H, id) : \E p \in Names : \E i \in DOMAIN H[p] :
                  H[p][i].id = id /\ x = <<p, i>>
           /\ \A p \in Names : \A i \in DOMAIN H[p] :
                  H[p][i].id = id => <<p, i>> \in PlacesIn(H, id)
BY DEF PlacesIn

LEMMA FlightHasPlace ==
    ASSUME NEW H, NEW id \in Ids
    PROVE  PlacesIn(H, id) # {} <=> id \in Flight(H)
<1>1. ASSUME PlacesIn(H, id) # {} PROVE id \in Flight(H)
  <2>1. PICK x : x \in PlacesIn(H, id)
    BY <1>1
  <2>2. \E p \in Names : \E i \in DOMAIN H[p] : H[p][i].id = id
    BY <2>1, PlacesOf
  <2> QED BY <2>2 DEF Flight
<1>2. ASSUME id \in Flight(H) PROVE PlacesIn(H, id) # {}
  <2>1. PICK p \in Names : \E i \in DOMAIN H[p] : H[p][i].id = id
    BY <1>2 DEF Flight
  <2>2. PICK i \in DOMAIN H[p] : H[p][i].id = id
    BY <2>1
  <2>3. <<p, i>> \in PlacesIn(H, id)
    BY <2>2, PlacesOf
  <2> QED BY <2>3
<1> QED BY <1>1, <1>2

LEMMA InFlightMeans ==
    ASSUME NEW id \in Ids
    PROVE  /\ InFlight(id) <=> id \in Flight(Held)
           /\ InFlight(id)' <=> id \in Flight(Held')
<1>1. InFlight(id) <=> PlacesIn(Held, id) # {}
  BY DEF InFlight, Places, PlacesIn
<1>2. InFlight(id)' <=> PlacesIn(Held', id) # {}
  BY DEF InFlight, Places, PlacesIn
<1> QED BY <1>1, <1>2, FlightHasPlace

\* There is never a second copy of a request, for any number of requests and
\* any length of the queues.
THEOREM OneCopyCorrect == Spec => []OneCopy
<1>1. HeldInv => OneCopy
  <2> SUFFICES ASSUME Distinct(Held), NEW id \in Ids PROVE Cardinality(Places(id)) <= 1
    BY DEF HeldInv, OneCopy
  <2>1. ASSUME NEW x \in Places(id), NEW y \in Places(id) PROVE x = y
    <3>1. x \in PlacesIn(Held, id) /\ y \in PlacesIn(Held, id)
      BY DEF Places, PlacesIn
    <3>2. PICK p \in Names : \E i \in DOMAIN Held[p] : Held[p][i].id = id /\ x = <<p, i>>
      BY <3>1, PlacesOf
    <3>3. PICK q \in Names : \E j \in DOMAIN Held[q] : Held[q][j].id = id /\ y = <<q, j>>
      BY <3>1, PlacesOf
    <3> QED BY <3>2, <3>3 DEF Distinct
  <2>2. CASE Places(id) = {}
    BY <2>2, FS_EmptySet
  <2>3. CASE Places(id) # {}
    <3>1. PICK x : x \in Places(id)
      BY <2>3
    <3>2. Places(id) = {x}
      BY <2>1, <3>1
    <3>3. Cardinality({x}) = 1
      BY FS_Singleton
    <3> QED BY <3>2, <3>3
  <2> QED BY <2>2, <2>3
<1> QED BY <1>1, HeldThroughout, PTL

\* A request's retry count is at every place the number of its exchanges.
THEOREM RetryCountCorrect == Spec => []RetryCountIsExact
<1>1. HeldInv => RetryCountIsExact
  BY DEF HeldInv, Exact, RetryCountIsExact
<1> QED BY <1>1, HeldThroughout, PTL

\* The four tasks and three queues implement RetryContract: each request is
\* tried at most 1 + MaxRetries times while it is open, and closed once.
THEOREM ContractImplemented == Spec => ImplementsContract
<1>1. Init => Contract!Init
  <2> SUFFICES ASSUME Init PROVE Contract!Init
    OBVIOUS
  <2>1. \A id \in Ids : Phase(id) = "unborn"
    BY DEF Init, Phase, Ids
  <2> QED BY <2>1 DEF Contract!Init, phases, Init
<1>2. Handled /\ HeldInv /\ [Next]_vars => [Contract!Next]_<<phases, exchanges>>
  <2> SUFFICES ASSUME Handled, HeldInv, [Next]_vars
               PROVE  [Contract!Next]_<<phases, exchanges>>
    OBVIOUS
  <2>0. /\ nextId \in 1 .. MaxId + 1 /\ exchanges \in [Ids -> Nat] /\ MaxId \in Nat
        /\ \A id \in Flight(Held) : id < nextId /\ id \in Ids
    BY BoundAssumption DEF Handled, Typed, TypeOK, SubmitOK, CountersOK, HeldInv, Made, Flight
  <2>1. \A id \in Ids : /\ phases[id] = IF id >= nextId THEN "unborn"
                                        ELSE IF id \in Flight(Held) THEN "open" ELSE "closed"
                        /\ phases'[id] = IF id >= nextId' THEN "unborn"
                                         ELSE IF id \in Flight(Held') THEN "open" ELSE "closed"
    BY InFlightMeans DEF phases, Phase
  <2>2. phases = [id \in Ids |-> phases[id]] /\ phases' = [id \in Ids |-> phases'[id]]
    BY DEF phases
  <2>3. CASE Born
    <3>1. /\ nextId \in Ids /\ nextId' = nextId + 1 /\ exchanges' = exchanges
          /\ Flight(Held') = Flight(Held) \cup {nextId}
      BY <2>3, BornKeeps DEF Born
    <3>2. phases[nextId] = "unborn" /\ \A id \in Ids : id < nextId => phases[id] # "unborn"
      BY <2>0, <2>1, <3>1 DEF Ids
    <3>3. \A id \in Ids : phases'[id] = IF id = nextId THEN "open" ELSE phases[id]
      BY <2>0, <2>1, <3>1 DEF Ids
    <3>4. phases' = [phases EXCEPT ![nextId] = "open"]
      BY <2>2, <3>3
    <3>5. Contract!Make(nextId)
      BY <3>1, <3>2, <3>4 DEF Contract!Make, Contract!InOrder
    <3> QED BY <3>1, <3>5 DEF Contract!Next
  <2>4. ASSUME NEW p \in Names, Dropped(p) PROVE Contract!Next
    <3> DEFINE d == Head(Held[p]).id
    <3>1. /\ nextId' = nextId /\ exchanges' = exchanges
          /\ d \in Flight(Held) /\ Flight(Held') = Flight(Held) \ {d}
      BY <2>4, DropKeeps DEF Dropped
    <3> HIDE DEF d
    <3>2. d \in Ids /\ d < nextId
      BY <2>0, <3>1
    <3>3. phases[d] = "open"
      BY <2>0, <2>1, <3>1, <3>2 DEF Ids
    <3>4. \A id \in Ids : phases'[id] = IF id = d THEN "closed" ELSE phases[id]
      BY <2>0, <2>1, <3>1, <3>2 DEF Ids
    <3>5. phases' = [phases EXCEPT ![d] = "closed"]
      BY <2>2, <3>4
    <3>6. Contract!Close(d)
      BY <3>1, <3>3, <3>5 DEF Contract!Close
    <3> QED BY <3>2, <3>6 DEF Contract!Next
  <2>5. ASSUME nextId' = nextId, Flight(Held') = Flight(Held) PROVE phases' = phases
    BY <2>1, <2>2, <2>5
  <2>6. ASSUME NEW p \in Names, NEW q \in Names, Moved(p, q)
        PROVE  UNCHANGED <<phases, exchanges>>
    BY <2>5, <2>6, MoveKeeps DEF Moved
  <2>7. CASE Exchanged
    <3>1. PICK id \in Flight(Held) : /\ exchanges[id] \in Nat /\ exchanges[id] <= MaxRetries
                                     /\ exchanges' = [exchanges EXCEPT ![id] = @ + 1]
      BY <2>7, ExchangeKeeps
    <3>2. phases' = phases
      BY <2>5, <2>7, ExchangeKeeps DEF Exchanged
    <3>3. id \in Ids /\ phases[id] = "open"
      BY <2>0, <2>1, <3>1 DEF Ids
    <3>4. Contract!Try(id)
      BY <3>1, <3>2, <3>3 DEF Contract!Try
    <3> QED BY <3>3, <3>4 DEF Contract!Next
  <2>8. CASE Stayed
    <3>1. Held' = Held /\ nextId' = nextId /\ exchanges' = exchanges
      BY <2>8 DEF Stayed
    <3> QED BY <2>5, <3>1
  <2>9. CASE Skipped
    <3>1. /\ nextId \in Ids /\ nextId' = nextId + 1 /\ exchanges' = exchanges
          /\ Flight(Held') = Flight(Held) /\ nextId \notin Flight(Held)
      BY <2>0, <2>9 DEF Skipped, Ids
    <3>2. phases[nextId] = "unborn" /\ \A id \in Ids : id < nextId => phases[id] # "unborn"
      BY <2>0, <2>1, <3>1 DEF Ids
    <3>3. \A id \in Ids : phases'[id] = IF id = nextId THEN "closed" ELSE phases[id]
      BY <2>0, <2>1, <3>1 DEF Ids
    <3>4. phases' = [phases EXCEPT ![nextId] = "closed"]
      BY <2>2, <3>3
    <3>5. Contract!Skip(nextId)
      BY <3>1, <3>2, <3>4 DEF Contract!Skip, Contract!InOrder
    <3> QED BY <3>1, <3>5 DEF Contract!Next
  <2> QED BY <2>3, <2>4, <2>6, <2>7, <2>8, <2>9, StepKinds
<1> QED BY <1>1, <1>2, HeldThroughout, PTL DEF Spec, ImplementsContract, Contract!Spec

-----------------------------------------------------------------------------
(* Every request is accounted for.  A success is counted before its result *)
(* is decided on: what is pending then is the only success that has not    *)
(* yet ended its request.                                                  *)

LEMMA FlightCounts ==
    ASSUME NEW H
    PROVE  /\ Cardinality(Flight(H)) \in Nat
           /\ \A id \in Ids \ Flight(H) :
                  Cardinality(Flight(H) \cup {id}) = Cardinality(Flight(H)) + 1
           /\ \A id \in Flight(H) :
                  Cardinality(Flight(H) \ {id}) = Cardinality(Flight(H)) - 1
<1>1. Flight(H) \in SUBSET Ids /\ IsFiniteSet(Ids)
  BY FS_Interval, BoundAssumption DEF Flight, Ids
<1>2. IsFiniteSet(Flight(H))
  BY <1>1, FS_Subset
<1> QED BY <1>2, FS_CardinalityType, FS_AddElement, FS_RemoveElement

Pending == IF resPc = "deciding" /\ Class(resResult[1].reply) = "SUCCESS" THEN 1 ELSE 0
Unqueued == NotQueued("telemetry") + NotQueued("recovery")
Requests == nextId - 1 - skipped
SumInv ==
    Requests = Cardinality(Flight(Held)) + EndedByResult + stats.dropped + Unqueued
               + resultsLost + schedulesLost
SuccessInv ==
    stats.class["SUCCESS"] - Pending + recoveryStats.exhausted <= EndedByResult

LEMMA CountersAreNumbers ==
    ASSUME TypeOK
    PROVE  /\ nextId \in Nat /\ skipped \in Nat /\ Requests \in Int /\ stats.total \in Nat /\ stats.dropped \in Nat
           /\ stats.class["SUCCESS"] \in Nat
           /\ recoveryStats.prepared \in Nat /\ recoveryStats.exhausted \in Nat
           /\ resultsLost \in Nat /\ schedulesLost \in Nat
           /\ Cardinality(Flight(Held)) \in Nat
           /\ Deciding \in {0, 1} /\ Pending \in {0, 1} /\ Pending <= Deciding
           /\ NotQueued("telemetry") \in {0, 1} /\ NotQueued("recovery") \in {0, 1}
<1>1. Cardinality(Flight(Held)) \in Nat
  BY FlightCounts
<1>2. Deciding \in {0, 1} /\ Pending \in {0, 1} /\ Pending <= Deciding
  BY DEF Deciding, Pending
<1>3. NotQueued("telemetry") \in {0, 1} /\ NotQueued("recovery") \in {0, 1}
  BY DEF NotQueued
<1>4. nextId \in Nat /\ skipped \in Nat /\ Requests \in Int
  BY DEF TypeOK, SubmitOK, CountersOK, Requests
<1> QED BY <1>1, <1>2, <1>3, <1>4 DEF TypeOK, CountersOK, Statistics, Classes

\* A request that is tried again was not a success.
LEMMA RetriedIsNoSuccess ==
    \A reply \in Replies : RecoveryAction(reply) = "RETRY" => Class(reply) # "SUCCESS"
BY ReplyAssumption DEF ResultOf, RecoveryAction, Class, SuccessStatus, NothingToDoStatus

\* How the requests in flight and the counter of requests made change.
LEMMA FlightGrows ==
    ASSUME Handled, HeldInv
    PROVE  /\ Born => /\ Cardinality(Flight(Held')) = Cardinality(Flight(Held)) + 1
                      /\ Requests' = Requests + 1
           /\ \A p \in Names : Dropped(p) =>
                  /\ Cardinality(Flight(Held')) = Cardinality(Flight(Held)) - 1
                  /\ Requests' = Requests
           /\ \A p, q \in Names : Moved(p, q) =>
                  Cardinality(Flight(Held')) = Cardinality(Flight(Held)) /\ Requests' = Requests
           /\ Skipped => Flight(Held') = Flight(Held) /\ Requests' = Requests
           /\ Exchanged \/ Stayed =>
                  Cardinality(Flight(Held')) = Cardinality(Flight(Held)) /\ Requests' = Requests
<1>0. nextId \in Nat /\ skipped \in Nat
  BY CountersAreNumbers DEF Handled, Typed
<1>1. ASSUME Born PROVE /\ Cardinality(Flight(Held')) = Cardinality(Flight(Held)) + 1
                        /\ Requests' = Requests + 1
  <2>1. /\ nextId \in Ids \ Flight(Held) /\ nextId \in Nat /\ skipped \in Nat
        /\ nextId' = nextId + 1 /\ skipped' = skipped
    BY <1>1, <1>0 DEF Born, HeldInv, Made, Ids
  <2>2. Flight(Held') = Flight(Held) \cup {nextId}
    BY <1>1, BornKeeps
  <2>3. Requests' = Requests + 1
    BY <2>1 DEF Requests
  <2> QED BY <2>1, <2>2, <2>3, FlightCounts
<1>2. ASSUME NEW p \in Names, Dropped(p)
      PROVE  Cardinality(Flight(Held')) = Cardinality(Flight(Held)) - 1 /\ Requests' = Requests
  BY <1>2, DropKeeps, FlightCounts DEF Dropped, Requests
<1>3. ASSUME NEW p \in Names, NEW q \in Names, Moved(p, q)
      PROVE  Cardinality(Flight(Held')) = Cardinality(Flight(Held)) /\ Requests' = Requests
  BY <1>3, MoveKeeps DEF Moved, Requests
<1>4. ASSUME Exchanged \/ Stayed
      PROVE  Cardinality(Flight(Held')) = Cardinality(Flight(Held)) /\ Requests' = Requests
  BY <1>4, ExchangeKeeps DEF Exchanged, Stayed, Requests
<1>5. ASSUME Skipped PROVE Flight(Held') = Flight(Held) /\ Requests' = Requests
  BY <1>0, <1>5 DEF Skipped, Requests
<1> QED BY <1>1, <1>2, <1>3, <1>4, <1>5

\* Steps of the telemetry, recovery and worker tasks: no result is decided on.
LEMMA NotDeciding ==
    ASSUME TypeOK, UNCHANGED <<resPc, resResult, recoveryStats>>,
           stats'.total = stats.total, stats'.class = stats.class
    PROVE  /\ EndedByResult' = EndedByResult
           /\ SuccessInv => SuccessInv'
<1>1. Deciding' = Deciding /\ Pending' = Pending
  BY DEF Deciding, Pending
<1> QED BY <1>1 DEF EndedByResult, SuccessInv

LEMMA SumsKept ==
    ASSUME Handled, HeldInv, SumInv, SuccessInv, [Next]_vars
    PROVE  SumInv' /\ SuccessInv'
<1> DEFINE card == Cardinality(Flight(Held))
<1>0. TypeOK
  BY DEF Handled, Typed
<1>1. /\ Requests \in Int /\ stats.total \in Nat /\ stats.dropped \in Nat
      /\ stats.class["SUCCESS"] \in Nat
      /\ recoveryStats.prepared \in Nat /\ recoveryStats.exhausted \in Nat
      /\ resultsLost \in Nat /\ schedulesLost \in Nat /\ card \in Nat
      /\ Deciding \in {0, 1} /\ Pending \in {0, 1} /\ Pending <= Deciding
      /\ NotQueued("telemetry") \in {0, 1} /\ NotQueued("recovery") \in {0, 1}
  BY <1>0, CountersAreNumbers
<1>2. EndedByResult \in Int
  BY <1>1 DEF EndedByResult
<1>3. /\ subPc \in [Submitters -> {"idle", "backoff", "sending", "accounting"}]
      /\ subQueued \in [Submitters -> BOOLEAN]
  BY <1>0 DEF TypeOK, SubmitOK
<1>4. CASE TelemetryMakesRequest
  <2>1. card' = card + 1 /\ Requests' = Requests + 1
    BY <1>4, BornStep, FlightGrows
  <2>2. /\ stats'.total = stats.total /\ stats'.class = stats.class
        /\ stats'.dropped = stats.dropped
    BY <1>0, <1>4 DEF TelemetryMakesRequest, CountAttempt, TypeOK, CountersOK, Statistics
  <2>3. UNCHANGED <<resPc, resResult, recoveryStats, resultsLost, schedulesLost>>
    BY <1>4 DEF TelemetryMakesRequest, res
  <2>4. Unqueued' = Unqueued
    BY <1>3, <1>4 DEF TelemetryMakesRequest, CountAttempt, Unqueued, NotQueued, Submitters
  <2>5. EndedByResult' = EndedByResult /\ SuccessInv'
    BY <1>0, <2>2, <2>3, NotDeciding
  <2> QED BY <1>1, <1>2, <2>1, <2>2, <2>3, <2>4, <2>5 DEF SumInv, Unqueued
<1>5. CASE RecoveryTask
  <2>1. card' = card /\ Requests' = Requests
    BY <1>5, RecoveryTakesRetryMoves, OtherStepsStay, FlightGrows DEF RecoveryTask, Names
  <2>2. /\ stats'.total = stats.total /\ stats'.class = stats.class
        /\ stats'.dropped = stats.dropped
    BY <1>0, <1>5 DEF RecoveryTask, RecoveryTakesRetry, RecoverySubmits, CountAttempt, TypeOK,
       CountersOK, Statistics
  <2>3. UNCHANGED <<resPc, resResult, recoveryStats, resultsLost, schedulesLost>>
    BY <1>5 DEF RecoveryTask, RecoveryTakesRetry, RecoverySubmits, res
  <2>4. Unqueued' = Unqueued
    BY <1>3, <1>5 DEF RecoveryTask, RecoveryTakesRetry, RecoverySubmits, CountAttempt, Unqueued,
       NotQueued, Submitters
  <2>5. EndedByResult' = EndedByResult /\ SuccessInv'
    BY <1>0, <2>2, <2>3, NotDeciding
  <2> QED BY <2>1, <2>2, <2>3, <2>4, <2>5 DEF SumInv
<1>6. ASSUME NEW t \in Submitters, SubmitSends(t) PROVE SumInv' /\ SuccessInv'
  <2>1. card' = card /\ Requests' = Requests
    BY <1>6, SubmitSendsMoves, FlightGrows DEF Names, Submitters
  <2>3. UNCHANGED <<stats, resPc, resResult, recoveryStats, resultsLost, schedulesLost>>
    BY <1>6 DEF SubmitSends, res
  <2>4. Unqueued' = Unqueued
    BY <1>3, <1>6 DEF SubmitSends, Unqueued, NotQueued, Submitters
  <2>5. EndedByResult' = EndedByResult /\ SuccessInv'
    BY <1>0, <2>3, NotDeciding
  <2> QED BY <2>1, <2>3, <2>4, <2>5 DEF SumInv
<1>7. CASE SubmitTimesOut
  <2>1. card' = card - 1 /\ Requests' = Requests
    BY <1>7, SubmitTimesOutDrops, FlightGrows DEF Names
  <2>3. UNCHANGED <<stats, resPc, resResult, recoveryStats, resultsLost, schedulesLost>>
    BY <1>7 DEF SubmitTimesOut, res
  <2>4. /\ NotQueued("telemetry") = 0 /\ NotQueued("telemetry")' = 1
        /\ NotQueued("recovery")' = NotQueued("recovery")
    BY <1>3, <1>7 DEF SubmitTimesOut, NotQueued, Submitters
  <2>5. EndedByResult' = EndedByResult /\ SuccessInv'
    BY <1>0, <2>3, NotDeciding
  <2> QED BY <1>1, <1>2, <2>1, <2>3, <2>4, <2>5 DEF SumInv, Unqueued
<1>8. ASSUME NEW t \in Submitters, SubmitAccounts(t) PROVE SumInv' /\ SuccessInv'
  <2>1. card' = card /\ Requests' = Requests
    BY <1>8, OtherStepsStay, FlightGrows
  <2>2. /\ stats'.total = stats.total /\ stats'.class = stats.class
        /\ stats'.dropped = stats.dropped + NotQueued(t)
    BY <1>0, <1>3, <1>8 DEF SubmitAccounts, Accounted, NotQueued, TypeOK, CountersOK, Statistics
  <2>3. UNCHANGED <<resPc, resResult, recoveryStats, resultsLost, schedulesLost>>
    BY <1>8 DEF SubmitAccounts, res
  <2>4. NotQueued(t)' = 0 /\ \A o \in Submitters \ {t} : NotQueued(o)' = NotQueued(o)
    BY <1>3, <1>8 DEF SubmitAccounts, NotQueued
  <2>5. EndedByResult' = EndedByResult /\ SuccessInv'
    BY <1>0, <2>2, <2>3, NotDeciding
  <2>6. stats'.dropped + Unqueued' = stats.dropped + Unqueued
    <3>1. CASE t = "telemetry"
      BY <1>1, <2>2, <2>4, <3>1 DEF Unqueued, Submitters
    <3>2. CASE t = "recovery"
      BY <1>1, <2>2, <2>4, <3>2 DEF Unqueued, Submitters
    <3> QED BY <3>1, <3>2 DEF Submitters
  <2>7. stats'.dropped \in Nat /\ Unqueued' \in Nat /\ Unqueued \in Nat
    <3>1. Unqueued \in Nat /\ NotQueued(t) \in Nat
      BY <1>1 DEF Unqueued, Submitters
    <3>2. \A o \in Submitters : NotQueued(o)' \in Nat
      BY DEF NotQueued
    <3> QED BY <1>1, <2>2, <3>1, <3>2 DEF Unqueued, Submitters
  <2> QED BY <1>1, <1>2, <2>1, <2>3, <2>5, <2>6, <2>7 DEF SumInv
<1>9. CASE Worker
  <2>1. /\ UNCHANGED <<submit, stats, resPc, resResult, recoveryStats, schedulesLost>>
    BY <1>9 DEF Worker, WorkerReceives, WorkerExchanges, WorkerDelivers, submit, res
  <2>2. EndedByResult' = EndedByResult /\ SuccessInv'
    BY <1>0, <2>1, NotDeciding
  <2>3. Unqueued' = Unqueued
    BY <2>1 DEF submit, Unqueued, NotQueued
  <2>4. /\ Requests' = Requests
        /\ card' + resultsLost' = card + resultsLost
    <3>1. CASE WorkerReceives \/ \E reply \in Replies : WorkerExchanges(reply)
      <4>1. resultsLost' = resultsLost
        BY <3>1 DEF WorkerReceives, WorkerExchanges
      <4>2. Moved("request queue", "worker") \/ Exchanged
        BY <3>1, WorkerReceivesMoves, WorkerExchangesStep
      <4>3. card' = card /\ Requests' = Requests
        BY <4>2, FlightGrows DEF Names
      <4> QED BY <4>1, <4>3
    <3>2. CASE WorkerDelivers
      <4>1. "worker result" \in Names /\ "result queue" \in Names
        BY DEF Names
      <4>2. \/ card' = card /\ Requests' = Requests /\ resultsLost' = resultsLost
            \/ card' = card - 1 /\ Requests' = Requests /\ resultsLost' = resultsLost + 1
        BY <3>2, <4>1, WorkerDeliversMoves, FlightGrows
      <4> QED BY <1>1, <4>2
    <3> QED BY <1>9, <3>1, <3>2 DEF Worker
  <2>5. card' \in Nat /\ resultsLost' \in Nat
    <3>1. card' \in Nat
      BY FlightCounts
    <3>2. resultsLost' \in Nat
      BY <1>1, <1>9 DEF Worker, WorkerReceives, WorkerExchanges, WorkerDelivers
    <3> QED BY <3>1, <3>2
  <2>6. Unqueued \in Nat
    BY <1>1 DEF Unqueued
  <2> QED BY <1>1, <1>2, <2>1, <2>2, <2>3, <2>4, <2>5, <2>6 DEF SumInv
<1>10. ASSUME UNCHANGED <<submit, nextId, skipped>> PROVE UNCHANGED <<Unqueued, Requests>>
  BY <1>10 DEF submit, Unqueued, NotQueued, Requests
<1>11. Unqueued \in Nat
  BY <1>1 DEF Unqueued
<1>12. CASE ResultReceived
  <2>1. card' = card
    BY <1>12, ResultReceivedMoves, FlightGrows DEF Names
  <2>2. UNCHANGED <<submit, nextId, skipped, stats, recoveryStats, resultsLost, schedulesLost>>
    BY <1>12 DEF ResultReceived
  <2>3. Deciding = 0 /\ Deciding' = 0 /\ Pending = 0 /\ Pending' = 0
    BY <1>12 DEF ResultReceived, Deciding, Pending
  <2> QED BY <1>10, <2>1, <2>2, <2>3 DEF SumInv, SuccessInv, EndedByResult
<1>13. CASE ResultCounted
  <2> DEFINE c == Class(resResult[1].reply)
  <2>0. resResult[1] \in Result
    BY <1>13, OptionHolds DEF ResultCounted, Handled, Typed, AtHand, TypeOK, ResOK
  <2>1. resResult[1].reply \in Replies /\ c \in Classes
    BY <2>0, ReplyClass DEF Result
  <2>2. card' = card
    BY <1>13, OtherStepsStay, FlightGrows
  <2>3. UNCHANGED <<submit, nextId, skipped, resResult, recoveryStats, resultsLost, schedulesLost>>
    BY <1>13, <2>2 DEF ResultCounted
  <2>4. stats'.total = stats.total + 1 /\ stats'.dropped = stats.dropped
    BY <1>0, <1>13, <2>1, ResultStats DEF ResultCounted, TypeOK, CountersOK
  <2>5. Deciding = 0 /\ Deciding' = 1 /\ Pending = 0
    BY <1>13 DEF ResultCounted, Deciding, Pending
  <2>6. stats'.class["SUCCESS"] = stats.class["SUCCESS"] + Pending'
    <3>1. stats'.class = CountIn(stats.class, c)
      <4>1. stats' = Counted(resResult[1].reply) /\ stats \in Statistics
        BY <1>0, <1>13 DEF ResultCounted, TypeOK, CountersOK
      <4> QED BY <4>1 DEF Counted, Statistics
    <3>2. stats.class \in [Classes -> Nat]
      BY <1>0 DEF TypeOK, CountersOK, Statistics
    <3>3. Pending' = IF c = "SUCCESS" THEN 1 ELSE 0
      BY <1>13 DEF ResultCounted, Pending
    <3> HIDE DEF c
    <3> QED BY <2>1, <3>1, <3>2, <3>3 DEF CountIn, Classes
  <2>7. EndedByResult' = EndedByResult
    BY <1>1, <2>3, <2>4, <2>5 DEF EndedByResult
  <2>8. Pending' \in {0, 1}
    BY DEF Pending
  <2>9. SumInv'
    BY <1>10, <2>2, <2>3, <2>4, <2>7 DEF SumInv
  <2>10. SuccessInv'
    BY <1>1, <1>2, <2>3, <2>5, <2>6, <2>7, <2>8 DEF SuccessInv
  <2> QED BY <2>9, <2>10
<1>14. ASSUME resPc = "deciding", resPc' # "deciding"
       PROVE  Deciding = 1 /\ Deciding' = 0 /\ Pending' = 0
  BY <1>14 DEF Deciding, Pending
<1>15. ASSUME ResultFinal \/ RetriesExhausted
       PROVE  /\ card' = card - 1 /\ Deciding = 1 /\ Deciding' = 0 /\ Pending' = 0
              /\ UNCHANGED <<submit, nextId, skipped, stats, resultsLost, schedulesLost>>
  <2>1. card' = card - 1
    BY <1>15, ResultEnds, FlightGrows DEF Names
  <2> QED BY <1>14, <1>15, <2>1 DEF ResultFinal, RetriesExhausted
<1>16. CASE ResultFinal
  <2>1. /\ recoveryStats'.prepared = recoveryStats.prepared
        /\ recoveryStats'.exhausted = recoveryStats.exhausted
    BY <1>0, <1>16 DEF ResultFinal, TypeOK, CountersOK
  <2>2. EndedByResult' = EndedByResult + 1
    BY <1>1, <1>15, <1>16, <2>1 DEF EndedByResult
  <2>3. SumInv'
    BY <1>1, <1>2, <1>10, <1>11, <1>15, <1>16, <2>2 DEF SumInv
  <2>4. SuccessInv'
    BY <1>1, <1>2, <1>15, <1>16, <2>1, <2>2 DEF SuccessInv
  <2> QED BY <2>3, <2>4
<1>17. ASSUME RetriesExhausted \/ RetryPrepared PROVE Pending = 0
  <2>1. resResult[1] \in Result
    BY <1>17, OptionHolds
       DEF RetriesExhausted, RetryPrepared, Handled, Typed, AtHand, TypeOK, ResOK
  <2>2. resResult[1].reply \in Replies /\ RecoveryAction(resResult[1].reply) = "RETRY"
    BY <1>17, <2>1 DEF RetriesExhausted, RetryPrepared, Result
  <2> QED BY <2>2, RetriedIsNoSuccess DEF Pending
<1>18. CASE RetriesExhausted
  <2>1. /\ recoveryStats'.prepared = recoveryStats.prepared
        /\ recoveryStats'.exhausted = recoveryStats.exhausted + 1
    BY <1>0, <1>18 DEF RetriesExhausted, CountExhausted, TypeOK, CountersOK
  <2>2. EndedByResult' = EndedByResult + 1
    BY <1>1, <1>15, <1>18, <2>1 DEF EndedByResult
  <2>3. SumInv'
    BY <1>1, <1>2, <1>10, <1>11, <1>15, <1>18, <2>2 DEF SumInv
  <2>4. SuccessInv'
    BY <1>1, <1>2, <1>15, <1>17, <1>18, <2>1, <2>2 DEF SuccessInv
  <2> QED BY <2>3, <2>4
<1>19. CASE RetryPrepared
  <2>1. card' = card
    BY <1>19, RetryPreparedMoves, FlightGrows DEF Names
  <2>2. /\ recoveryStats'.prepared = recoveryStats.prepared + 1
        /\ recoveryStats'.exhausted = recoveryStats.exhausted
        /\ UNCHANGED <<submit, nextId, skipped, stats, resultsLost, schedulesLost>>
    BY <1>0, <1>19 DEF RetryPrepared, TypeOK, CountersOK
  <2>3. Deciding = 1 /\ Deciding' = 0 /\ Pending' = 0
    BY <1>14, <1>19 DEF RetryPrepared
  <2>4. EndedByResult' = EndedByResult
    BY <1>1, <2>2, <2>3 DEF EndedByResult
  <2>5. SumInv'
    BY <1>10, <2>1, <2>2, <2>4 DEF SumInv
  <2>6. SuccessInv'
    BY <1>1, <1>2, <1>17, <1>19, <2>2, <2>3, <2>4 DEF SuccessInv
  <2> QED BY <2>5, <2>6
<1>20. CASE RetryScheduled
  <2>1. "retry" \in Names /\ "retry queue" \in Names
    BY DEF Names
  <2>2. \/ card' = card /\ schedulesLost' = schedulesLost
        \/ card' = card - 1 /\ schedulesLost' = schedulesLost + 1
    BY <1>20, <2>1, RetryScheduledMoves, FlightGrows
  <2>3. UNCHANGED <<submit, nextId, skipped, stats, recoveryStats, resultsLost>>
    BY <1>20 DEF RetryScheduled
  <2>4. Deciding = 0 /\ Deciding' = 0 /\ Pending = 0 /\ Pending' = 0
    BY <1>20 DEF RetryScheduled, Deciding, Pending
  <2>5. EndedByResult' = EndedByResult /\ SuccessInv'
    BY <2>3, <2>4 DEF EndedByResult, SuccessInv
  <2> QED BY <1>1, <1>2, <1>10, <1>11, <2>2, <2>3, <2>5 DEF SumInv
<1>21. CASE RetryCounted
  <2>1. card' = card
    BY <1>21, OtherStepsStay, FlightGrows
  <2>2. /\ recoveryStats'.prepared = recoveryStats.prepared
        /\ recoveryStats'.exhausted = recoveryStats.exhausted
        /\ UNCHANGED <<submit, nextId, skipped, stats, resultsLost, schedulesLost>>
    BY <1>0, <1>21 DEF RetryCounted, TypeOK, CountersOK
  <2>3. Deciding = 0 /\ Deciding' = 0 /\ Pending = 0 /\ Pending' = 0
    BY <1>21 DEF RetryCounted, Deciding, Pending
  <2> QED BY <1>10, <2>1, <2>2, <2>3 DEF SumInv, SuccessInv, EndedByResult
<1>22. CASE UNCHANGED vars
  <2>1. card' = card
    BY <1>22, OtherStepsStay, FlightGrows
  <2>2. UNCHANGED <<submit, nextId, skipped, stats, recoveryStats, resPc, resResult,
                    resultsLost, schedulesLost>>
    BY <1>22 DEF vars, submit, res
  <2>3. EndedByResult' = EndedByResult /\ SuccessInv'
    BY <1>0, <2>2, NotDeciding
  <2> QED BY <1>10, <2>1, <2>2, <2>3 DEF SumInv
<1>23. CASE TelemetrySkips
  <2>1. card' = card /\ Requests' = Requests
    BY <1>23, SkippedStep, FlightGrows
  <2>2. UNCHANGED <<submit, stats, resPc, resResult, recoveryStats, resultsLost, schedulesLost>>
    BY <1>23 DEF TelemetrySkips, res
  <2>3. EndedByResult' = EndedByResult /\ SuccessInv'
    BY <1>0, <2>2, NotDeciding
  <2>4. Unqueued' = Unqueued
    BY <2>2 DEF submit, Unqueued, NotQueued
  <2> QED BY <2>1, <2>2, <2>3, <2>4 DEF SumInv
<1> QED
  BY <1>4, <1>5, <1>6, <1>7, <1>8, <1>9, <1>12, <1>13, <1>16, <1>18, <1>19, <1>20, <1>21, <1>22,
     <1>23 DEF Next, Telemetry, Submit, ResultTask

\* Every id used up is that of a reading not sent, of a request in flight or lost
\* to a full queue, or of one ended by a result: none is forgotten or counted
\* twice, for any number of requests and any length of the queues.
THEOREM RequestsCorrect == Spec => []RequestsAddUp
<1>1. Init => SumInv /\ SuccessInv
  <2> SUFFICES ASSUME Init PROVE SumInv /\ SuccessInv
    OBVIOUS
  <2>1. Flight(Held) = {}
    <3>1. \A q : q = <<>> => Untried(q) = <<>> /\ Tried(q) = <<>>
      BY DEF Untried, Tried
    <3>2. \A p \in Names : Held[p] = <<>>
      BY <3>1, HeldPlaces DEF Init, Names, Submitters
    <3> QED BY <3>2 DEF Flight
  <2>2. Cardinality(Flight(Held)) = 0
    BY <2>1, FS_EmptySet
  <2>3. /\ nextId = 1 /\ skipped = 0 /\ resultsLost = 0 /\ schedulesLost = 0 /\ resPc = "idle"
        /\ stats.total = 0 /\ stats.dropped = 0 /\ stats.class["SUCCESS"] = 0
        /\ recoveryStats.prepared = 0 /\ recoveryStats.exhausted = 0
        /\ subPc["telemetry"] = "idle" /\ subPc["recovery"] = "idle"
    BY DEF Init, Submitters, Classes
  <2> QED BY <2>2, <2>3
          DEF SumInv, SuccessInv, EndedByResult, Deciding, Pending, Unqueued, NotQueued, Requests
<1>2. (Handled /\ HeldInv) /\ (SumInv /\ SuccessInv) /\ [Next]_vars => (SumInv /\ SuccessInv)'
  BY SumsKept
<1>3. (Handled /\ HeldInv) /\ (SumInv /\ SuccessInv) => RequestsAddUp
  <2> SUFFICES ASSUME Handled, SumInv, SuccessInv PROVE RequestsAddUp
    OBVIOUS
  <2>1. {id \in Ids : InFlight(id)} = Flight(Held)
    BY InFlightMeans DEF Flight
  <2>2. /\ nextId \in Nat /\ skipped \in Nat /\ stats.class["SUCCESS"] \in Nat /\ recoveryStats.exhausted \in Nat
        /\ stats.total \in Nat /\ recoveryStats.prepared \in Nat
        /\ Deciding \in {0, 1} /\ Pending \in {0, 1} /\ Pending <= Deciding
        /\ stats.dropped \in Nat /\ resultsLost \in Nat /\ schedulesLost \in Nat
        /\ Cardinality(Flight(Held)) \in Nat
        /\ NotQueued("telemetry") \in {0, 1} /\ NotQueued("recovery") \in {0, 1}
    BY CountersAreNumbers DEF Handled, Typed
  <2>3. EndedByResult \in Int
    BY <2>2 DEF EndedByResult
  <2>4. nextId - 1 = Cardinality({id \in Ids : InFlight(id)}) + EndedByResult
                     + stats.dropped + NotQueued("telemetry") + NotQueued("recovery")
                     + resultsLost + schedulesLost + skipped
    <3>1. Requests = Cardinality({id \in Ids : InFlight(id)}) + EndedByResult
                     + stats.dropped + Unqueued + resultsLost + schedulesLost
      BY <2>1 DEF SumInv
    <3>2. Cardinality({id \in Ids : InFlight(id)}) \in Nat
      BY <2>1, <2>2
    <3> QED BY <2>2, <2>3, <3>1, <3>2 DEF Unqueued, Requests
  <2>5. stats.class["SUCCESS"] - Deciding + recoveryStats.exhausted <= EndedByResult
    BY <2>2, <2>3 DEF SuccessInv
  <2> QED BY <2>4, <2>5 DEF RequestsAddUp
<1> QED BY <1>1, <1>2, <1>3, HeldThroughout, PTL DEF Spec

-----------------------------------------------------------------------------
(* Recovered requests had a retry that was scheduled.  Retried(H) are the  *)
(* requests that may still become recovered ones: they have a copy with a  *)
(* retry behind it, out of the result task's hands before.  Each of them,  *)
(* and each recovered request, has a scheduled retry of its own; only the  *)
(* latest may not be counted yet, and its request cannot have recovered.   *)

Answered == {"worker result", "result queue", "result task"}
Again(p, e) == p # "retry" /\ e.tries > (IF p \in Answered THEN 1 ELSE 0)
Retried(H) ==
    {id \in Ids : \E p \in Names : \E i \in DOMAIN H[p] : H[p][i].id = id /\ Again(p, H[p][i])}

Uncounted == IF resPc = "notifying" THEN 1 ELSE 0
RetriedInv ==
    /\ recoveryStats.recovered + Cardinality(Retried(Held)) <= recoveryStats.scheduled + Uncounted
    /\ RecoveredWereRetried

LEMMA RetriedCounts ==
    ASSUME NEW G, NEW H
    PROVE  /\ Cardinality(Retried(H)) \in Nat
           /\ Retried(G) \subseteq Retried(H) => Cardinality(Retried(G)) <= Cardinality(Retried(H))
           /\ \A id : Retried(G) \subseteq Retried(H) \cup {id} =>
                  Cardinality(Retried(G)) <= Cardinality(Retried(H)) + 1
           /\ \A id \in Retried(H) : Retried(G) \subseteq Retried(H) \ {id} =>
                  Cardinality(Retried(G)) <= Cardinality(Retried(H)) - 1
<1>1. IsFiniteSet(Ids)
  BY FS_Interval, BoundAssumption DEF Ids
<1>2. Retried(H) \in SUBSET Ids /\ Retried(G) \in SUBSET Ids
  BY DEF Retried
<1>3. IsFiniteSet(Retried(H)) /\ IsFiniteSet(Retried(G))
  BY <1>1, <1>2, FS_Subset
<1>4. Cardinality(Retried(H)) \in Nat /\ Cardinality(Retried(G)) \in Nat
  BY <1>3, FS_CardinalityType
<1>5. ASSUME NEW S, IsFiniteSet(S), Retried(G) \subseteq S
      PROVE  Cardinality(Retried(G)) <= Cardinality(S)
  BY <1>5, FS_Subset
<1>6. ASSUME NEW id
      PROVE  /\ IsFiniteSet(Retried(H) \cup {id}) /\ IsFiniteSet(Retried(H) \ {id})
             /\ id \in Retried(H) =>
                    Cardinality(Retried(H) \ {id}) = Cardinality(Retried(H)) - 1
  BY <1>3, FS_AddElement, FS_RemoveElement
<1>7. ASSUME NEW id, Retried(G) \subseteq Retried(H) \cup {id}
      PROVE  Cardinality(Retried(G)) <= Cardinality(Retried(H)) + 1
  <2>1. Cardinality(Retried(G)) <= Cardinality(Retried(H) \cup {id})
    BY <1>5, <1>6, <1>7
  <2>2. /\ Cardinality(Retried(H) \cup {id}) \in Nat
        /\ Cardinality(Retried(H) \cup {id}) <= Cardinality(Retried(H)) + 1
    <3>1. CASE id \in Retried(H)
      <4>1. Cardinality(Retried(H) \cup {id}) = Cardinality(Retried(H))
        BY <1>3, <3>1, FS_AddElement
      <4> QED BY <1>4, <4>1
    <3>2. CASE id \notin Retried(H)
      <4>1. Cardinality(Retried(H) \cup {id}) = Cardinality(Retried(H)) + 1
        BY <1>3, <3>2, FS_AddElement
      <4> QED BY <1>4, <4>1
    <3> QED BY <3>1, <3>2
  <2> QED BY <1>4, <2>1, <2>2
<1>8. ASSUME NEW id \in Retried(H), Retried(G) \subseteq Retried(H) \ {id}
      PROVE  Cardinality(Retried(G)) <= Cardinality(Retried(H)) - 1
  <2>1. Cardinality(Retried(G)) <= Cardinality(Retried(H) \ {id})
    BY <1>5, <1>6, <1>8
  <2> QED BY <1>6, <2>1
<1> QED BY <1>3, <1>4, <1>5, <1>7, <1>8

\* Removing a copy makes no request a retried one, and adding one only its own.
LEMMA RetriedTaken ==
    ASSUME NEW H \in Holdings, NEW p \in Names, H[p] # <<>>, Distinct(H)
    PROVE  LET e == Head(H[p])
           IN  /\ Retried(Without(H, p)) \subseteq Retried(H) \ {e.id}
               /\ Again(p, e) => e.id \in Retried(H)
<1> DEFINE G == Without(H, p)
           e == Head(H[p])
<1>1. /\ e.id \in Flight(H) /\ Flight(G) = Flight(H) \ {e.id} /\ Among(G, H)
      /\ \E i \in DOMAIN H[p] : e = H[p][i]
  BY CopyTaken
<1> HIDE DEF G, e
<1>2. Retried(G) \subseteq Retried(H)
  BY <1>1 DEF Among, Retried
<1>3. Retried(G) \subseteq Flight(G)
  BY DEF Retried, Flight
<1>4. Again(p, e) => e.id \in Retried(H)
  BY <1>1 DEF Retried, Flight
<1> QED BY <1>1, <1>2, <1>3, <1>4 DEF G, e

LEMMA RetriedGiven ==
    ASSUME NEW H \in Holdings, NEW p \in Names, NEW e \in Copies
    PROVE  /\ Retried(With(H, p, e)) \subseteq Retried(H) \cup {e.id}
           /\ ~Again(p, e) => Retried(With(H, p, e)) \subseteq Retried(H)
<1> DEFINE G == With(H, p, e)
<1>1. /\ H[p] \in Seq(Copies) /\ G[p] = Append(H[p], e)
      /\ \A q \in Names \ {p} : G[q] = H[q]
  BY DEF With, Holdings
<1>2. \A i \in DOMAIN Append(H[p], e) :
          \/ i \in DOMAIN H[p] /\ Append(H[p], e)[i] = H[p][i]
          \/ Append(H[p], e)[i] = e
  BY <1>1, AppendPositions
<1> HIDE DEF G
<1>3. ASSUME NEW q \in Names, NEW i \in DOMAIN G[q]
      PROVE  \/ i \in DOMAIN H[q] /\ G[q][i] = H[q][i]
             \/ q = p /\ G[q][i] = e
  BY <1>1, <1>2
<1>4. ASSUME NEW id \in Retried(G)
      PROVE  id \in Retried(H) \/ (id = e.id /\ Again(p, e))
  <2>1. PICK q \in Names : \E i \in DOMAIN G[q] : G[q][i].id = id /\ Again(q, G[q][i])
    BY DEF Retried
  <2>2. PICK i \in DOMAIN G[q] : G[q][i].id = id /\ Again(q, G[q][i])
    BY <2>1
  <2>3. id \in Ids
    BY DEF Retried
  <2> QED BY <1>3, <2>2, <2>3 DEF Retried
<1> QED BY <1>4 DEF G

\* What the steps do to the retried requests: the only one that makes more of
\* them is the retry's entering the retry queue.
LEMMA RetriedMoves ==
    ASSUME Handled, HeldInv, NEW p \in Names, NEW q \in Names, Moved(p, q)
    PROVE  LET e == Head(Held[p])
           IN  /\ e.tries \in Nat
               /\ Retried(Held') \subseteq Retried(Held) \cup {e.id}
               /\ (Again(q, e) => Again(p, e)) => Retried(Held') \subseteq Retried(Held)
<1> DEFINE G == Without(Held, p)
           e == Head(Held[p])
<1>1. Held \in Holdings /\ Held[p] # <<>> /\ Distinct(Held) /\ Held' = With(G, q, e)
  BY HeldType DEF Handled, Typed, HeldInv, Moved
<1>2. G \in Holdings /\ e \in Copies
  BY <1>1, CopyTaken
<1>3. /\ Retried(G) \subseteq Retried(Held)
      /\ Again(p, e) => e.id \in Retried(Held)
  BY <1>1, RetriedTaken
<1> HIDE DEF G, e
<1>4. /\ Retried(Held') \subseteq Retried(G) \cup {e.id}
      /\ ~Again(q, e) => Retried(Held') \subseteq Retried(G)
  BY <1>1, <1>2, RetriedGiven
<1>5. e.tries \in Nat
  BY <1>2 DEF Copies
<1> QED BY <1>3, <1>4, <1>5 DEF e

LEMMA RetriedShrinks ==
    ASSUME Handled, HeldInv, [Next]_vars, ~RetryScheduled
    PROVE  Retried(Held') \subseteq Retried(Held)
<1>0. Held \in Holdings /\ Distinct(Held)
  BY HeldType DEF Handled, Typed, HeldInv
<1>1. ASSUME NEW p \in Names, NEW q \in Names, Moved(p, q),
             q # "retry" => /\ p # "retry"
                            /\ p \in Answered <=> q \in Answered
      PROVE  Retried(Held') \subseteq Retried(Held)
  BY <1>1, RetriedMoves DEF Again
<1>2. ASSUME NEW p \in Names, Dropped(p)
      PROVE  Retried(Held') \subseteq Retried(Held)
  BY <1>0, <1>2, RetriedTaken DEF Dropped
<1>3. ASSUME Stayed PROVE Retried(Held') \subseteq Retried(Held)
  BY <1>3 DEF Stayed
<1>4. CASE TelemetryMakesRequest
  <2> DEFINE e == [id |-> nextId, tries |-> 0]
  <2>1. Held' = With(Held, "telemetry", e) /\ e \in Copies /\ "telemetry" \in Names
    BY <1>4, BornStep DEF Born, Copies, Names
  <2>2. ~Again("telemetry", e)
    BY DEF Again, Answered
  <2> QED BY <1>0, <2>1, <2>2, RetriedGiven
<1>5. CASE SubmitTimesOut
  BY <1>2, <1>5, SubmitTimesOutDrops DEF Names
<1>6. CASE RecoveryTakesRetry
  <2>1. Moved("retry queue", "recovery")
    BY <1>6, RecoveryTakesRetryMoves
  <2> QED BY <1>1, <2>1 DEF Names, Answered
<1>7. ASSUME NEW t \in Submitters, SubmitSends(t) PROVE Retried(Held') \subseteq Retried(Held)
  <2>1. Moved(t, "request queue")
    BY <1>7, SubmitSendsMoves
  <2> QED BY <1>1, <2>1 DEF Names, Answered, Submitters
<1>8. CASE WorkerReceives
  <2>1. Moved("request queue", "worker")
    BY <1>8, WorkerReceivesMoves
  <2> QED BY <1>1, <2>1 DEF Names, Answered
<1>9. ASSUME NEW reply \in Replies, WorkerExchanges(reply)
      PROVE  Retried(Held') \subseteq Retried(Held)
  <2> DEFINE G == Without(Held, "worker")
             e == Head(Held["worker"])
             f == [e EXCEPT !.tries = @ + 1]
  <2>1. /\ Held["worker"] # <<>> /\ Held' = With(G, "worker result", f)
        /\ "worker" \in Names /\ "worker result" \in Names
    BY <1>9, WorkerExchangesStep DEF Exchanged, Names
  <2>2. G \in Holdings /\ e \in Copies
    BY <1>0, <2>1, CopyTaken
  <2>3. /\ Retried(G) \subseteq Retried(Held)
        /\ Again("worker", e) => e.id \in Retried(Held)
    BY <1>0, <2>1, RetriedTaken
  <2>4. f \in Copies /\ f.id = e.id /\ f.tries = e.tries + 1 /\ e.tries \in Nat
    BY <2>2 DEF Copies
  <2> HIDE DEF G, e, f
  <2>5. Again("worker result", f) => Again("worker", e)
    BY <2>4 DEF Again, Answered
  <2>6. /\ Retried(Held') \subseteq Retried(G) \cup {e.id}
        /\ ~Again("worker result", f) => Retried(Held') \subseteq Retried(G)
    BY <2>1, <2>2, <2>4, RetriedGiven
  <2> QED BY <2>3, <2>5, <2>6
<1>10. CASE WorkerDelivers
  <2>1. Moved("worker result", "result queue") \/ Dropped("worker result")
    BY <1>10, WorkerDeliversMoves
  <2> QED BY <1>1, <1>2, <2>1 DEF Names, Answered
<1>11. CASE ResultReceived
  <2>1. Moved("result queue", "result task")
    BY <1>11, ResultReceivedMoves
  <2> QED BY <1>1, <2>1 DEF Names, Answered
<1>12. CASE ResultFinal \/ RetriesExhausted
  BY <1>2, <1>12, ResultEnds DEF Names
<1>13. CASE RetryPrepared
  <2>1. Moved("result task", "retry")
    BY <1>13, RetryPreparedMoves
  <2> QED BY <1>1, <2>1 DEF Names
<1>14. ASSUME \/ RecoverySubmits \/ ResultCounted \/ RetryCounted \/ UNCHANGED vars
              \/ \E t \in Submitters : SubmitAccounts(t)
       PROVE  Retried(Held') \subseteq Retried(Held)
  BY <1>3, <1>14, OtherStepsStay
<1>15. CASE TelemetrySkips
  BY <1>15, SkippedStep DEF Skipped
<1> QED
  BY <1>4, <1>5, <1>6, <1>7, <1>8, <1>9, <1>10, <1>11, <1>12, <1>13, <1>14, <1>15
     DEF Next, Telemetry, RecoveryTask, Submit, Worker, ResultTask

\* The result of a recovered request is the last copy of a retried one.
LEMMA RecoveredIsRetried ==
    ASSUME Handled, HeldInv, ResultFinal, Recovered(resResult[1])
    PROVE  \E id \in Retried(Held) : Retried(Held') \subseteq Retried(Held) \ {id}
<1> DEFINE e == Head(Held["result task"])
<1>1. /\ Held["result task"] # <<>> /\ Held' = Without(Held, "result task")
      /\ "result task" \in Names /\ Held \in Holdings /\ Distinct(Held)
  BY ResultEnds, HeldType DEF Dropped, Names, Handled, Typed, HeldInv
<1>2. resResult \in Option(Result) /\ resResult # <<>>
  BY DEF Handled, Typed, AtHand, TypeOK, ResOK, ResultFinal
<1>3. e = TriedCopy(resResult[1]) /\ resResult[1] \in Result
  BY <1>2, OptionSequence, TriedCopies, HeldPlaces
<1>4. resResult[1].request.retry \in Nat /\ resResult[1].request.retry > 0
  <2>1. resResult[1].request.retry \in 0 .. MaxRetries
    BY <1>3 DEF Result, Request
  <2>2. resResult[1].request.retry > 0
    BY DEF Recovered
  <2> QED BY <2>1, <2>2, BoundAssumption
<1>5. Again("result task", e)
  <2> HIDE DEF e
  <2>1. e.tries = resResult[1].request.retry + 1
    BY <1>3 DEF TriedCopy
  <2> QED BY <1>4, <2>1 DEF Again, Answered
<1> QED BY <1>1, <1>5, RetriedTaken

LEMMA RetriedKept == Handled /\ HeldInv /\ RetriedInv /\ [Next]_vars => RetriedInv'
<1> SUFFICES ASSUME Handled, HeldInv, RetriedInv, [Next]_vars PROVE RetriedInv'
  OBVIOUS
<1> DEFINE recovered == recoveryStats.recovered
           scheduled == recoveryStats.scheduled
           card == Cardinality(Retried(Held))
<1>1. /\ recovered \in Nat /\ scheduled \in Nat
      /\ recoveryStats \in [prepared : Nat, scheduled : Nat, exhausted : Nat, recovered : Nat]
  BY DEF Handled, Typed, TypeOK, CountersOK
<1>2. card \in Nat /\ card' \in Nat
  BY RetriedCounts
<1>3. ~RetryScheduled => card' <= card
  BY RetriedShrinks, RetriedCounts
<1>4. recovered + card <= scheduled + Uncounted /\ recovered <= scheduled
  BY DEF RetriedInv, RecoveredWereRetried
<1>5. SUFFICES /\ recovered' + card' <= scheduled' + Uncounted'
               /\ recovered' <= scheduled'
  BY DEF RetriedInv, RecoveredWereRetried
<1>6. CASE RetryScheduled
  <2>1. /\ recoveryStats' = recoveryStats /\ Uncounted = 0
        /\ resPc' = "notifying" \/ (resPc' = "idle" /\ schedulesLost' = schedulesLost + 1)
    BY <1>6 DEF RetryScheduled, Uncounted
  <2>2. card' <= card + 1
    <3>1. "retry" \in Names /\ "retry queue" \in Names
      BY DEF Names
    <3>2. CASE Moved("retry", "retry queue")
      BY <3>1, <3>2, RetriedMoves, RetriedCounts
    <3>3. CASE Dropped("retry")
      <4>1. Retried(Held') \subseteq Retried(Held)
        BY <3>1, <3>3, HeldType, RetriedTaken DEF Dropped, Handled, Typed, HeldInv
      <4> QED BY <1>2, <4>1, RetriedCounts
    <3> QED BY <1>6, <3>2, <3>3, RetryScheduledMoves
  <2>3. CASE resPc' = "notifying"
    BY <1>1, <1>2, <1>4, <2>1, <2>2, <2>3 DEF Uncounted
  <2>4. CASE resPc' = "idle" /\ schedulesLost' = schedulesLost + 1
    <3>1. schedulesLost' # schedulesLost
      <4>1. schedulesLost \in Nat
        BY DEF Handled, Typed, TypeOK, CountersOK
      <4> QED BY <2>4, <4>1
    <3>2. Dropped("retry")
      BY <1>6, <3>1, RetryScheduledMoves
    <3>3. Retried(Held') \subseteq Retried(Held)
      BY <3>2, HeldType, RetriedTaken DEF Dropped, Handled, Typed, HeldInv, Names
    <3>4. card' <= card
      BY <3>3, RetriedCounts
    <3> QED BY <1>1, <1>2, <1>4, <2>1, <2>4, <3>4 DEF Uncounted
  <2> QED BY <2>1, <2>3, <2>4
<1>7. CASE RetryCounted
  <2>1. recovered' = recovered /\ scheduled' = scheduled + 1 /\ Uncounted' = 0 /\ Uncounted = 1
    BY <1>1, <1>7 DEF RetryCounted, Uncounted
  <2>2. card' <= card
    BY <1>3, <1>7 DEF RetryCounted, RetryScheduled
  <2> QED BY <1>1, <1>2, <1>4, <2>1, <2>2
<1>8. CASE ResultFinal
  <2>1. scheduled' = scheduled /\ Uncounted' = 0 /\ Uncounted = 0
    BY <1>1, <1>8 DEF ResultFinal, Uncounted
  <2>2. CASE Recovered(resResult[1])
    <3>1. recovered' = recovered + 1
      BY <1>1, <1>8, <2>2 DEF ResultFinal
    <3>2. card' <= card - 1
      BY <1>8, <2>2, RecoveredIsRetried, RetriedCounts
    <3> QED BY <1>1, <1>2, <1>4, <2>1, <3>1, <3>2
  <2>3. CASE ~Recovered(resResult[1])
    <3>1. recovered' = recovered
      BY <1>8, <2>3 DEF ResultFinal
    <3>2. card' <= card
      BY <1>3, <1>8 DEF ResultFinal, RetryScheduled
    <3> QED BY <1>1, <1>2, <1>4, <2>1, <3>1, <3>2
  <2> QED BY <2>2, <2>3
<1>9. CASE RetriesExhausted \/ RetryPrepared
  <2>1. /\ recovered' = recovered /\ scheduled' = scheduled
        /\ Uncounted' = 0 /\ Uncounted = 0
    BY <1>1, <1>9 DEF RetriesExhausted, CountExhausted, RetryPrepared, Uncounted
  <2>2. card' <= card
    BY <1>3, <1>9 DEF RetriesExhausted, RetryPrepared, RetryScheduled
  <2> QED BY <1>1, <1>2, <1>4, <2>1, <2>2
<1>10. CASE ResultReceived \/ ResultCounted
  <2>1. recoveryStats' = recoveryStats /\ Uncounted' = 0 /\ Uncounted = 0
    BY <1>10 DEF ResultReceived, ResultCounted, Uncounted
  <2>2. card' <= card
    BY <1>3, <1>10 DEF ResultReceived, ResultCounted, RetryScheduled
  <2> QED BY <1>1, <1>2, <1>4, <2>1, <2>2
<1>11. CASE Telemetry \/ RecoveryTask \/ Submit \/ Worker \/ UNCHANGED vars
  <2>1. recoveryStats' = recoveryStats /\ resPc' = resPc /\ resRetry' = resRetry
    BY <1>11 DEF Telemetry, RecoveryTask, Submit, Worker, TelemetryMakesRequest, TelemetrySkips,
       SubmitTimesOut, RecoveryTakesRetry, RecoverySubmits, CountAttempt, SubmitSends, SubmitAccounts,
       WorkerReceives, WorkerExchanges, WorkerDelivers, vars, res
  <2>2. Uncounted' = Uncounted
    BY <2>1 DEF Uncounted
  <2>3. card' <= card
    BY <1>3, <2>1 DEF RetryScheduled
  <2> QED BY <1>1, <1>2, <1>4, <2>1, <2>2, <2>3 DEF Uncounted
<1> QED BY <1>6, <1>7, <1>8, <1>9, <1>10, <1>11 DEF Next, ResultTask

\* No request counts as recovered whose retry was not counted as scheduled
\* before, although the recovery task may submit a retry not counted yet.
THEOREM RecoveredCorrect == Spec => []RecoveredWereRetried
<1>1. Init => RetriedInv
  <2> SUFFICES ASSUME Init PROVE RetriedInv
    OBVIOUS
  <2>1. \A q : q = <<>> => Untried(q) = <<>> /\ Tried(q) = <<>>
    BY DEF Untried, Tried
  <2>2. \A p \in Names : Held[p] = <<>>
    BY <2>1, HeldPlaces DEF Init, Names, Submitters
  <2>3. Cardinality(Retried(Held)) = 0
    <3>1. Retried(Held) = {}
      BY <2>2 DEF Retried
    <3> QED BY <3>1, FS_EmptySet
  <2>4. recoveryStats.recovered = 0 /\ recoveryStats.scheduled = 0 /\ Uncounted = 0
    BY DEF Init, Uncounted
  <2> QED BY <2>3, <2>4 DEF RetriedInv, RecoveredWereRetried
<1>2. (Handled /\ HeldInv) /\ RetriedInv /\ [Next]_vars => RetriedInv'
  BY RetriedKept
<1>3. RetriedInv => RecoveredWereRetried
  BY DEF RetriedInv
<1> QED BY <1>1, <1>2, <1>3, HeldThroughout, PTL DEF Spec
-----------------------------------------------------------------------------
(* Why every request ends.  The ring of queues brings a request back to the *)
(* queue it came from, but never without one exchange more: counted in      *)
(* exchanges and places a request has a way of bounded length before it,    *)
(* goes it in one direction only, and finds a task that can take it on.     *)

\* The places in the order in which a copy goes through them after an exchange.
Stage == [p \in Names |->
    CASE p = "worker result" -> 1
      [] p = "result queue"  -> 2
      [] p = "result task"   -> 3
      [] p = "retry"         -> 4
      [] p = "retry queue"   -> 5
      [] p = "recovery"      -> 6
      [] p = "telemetry"     -> 6
      [] p = "request queue" -> 7
      [] p = "worker"        -> 8 ]
Way(p, e) == 8 * e.tries + Stage[p]
LastWay == 8 * (MaxRetries + 1) + Stage["result task"]

\* A copy has not gone further than to the decision on its last try.
WayEnds == \A p \in Names : \A i \in DOMAIN Held[p] : Way(p, Held[p][i]) \in 1 .. LastWay

\* A step takes a copy further on its way, or leaves it where it is, with no
\* more copies before it in a queue than it had.
Onward ==
    \A p, q \in Names : \A i \in DOMAIN Held[p], j \in DOMAIN Held'[q] :
        Held'[q][j].id = Held[p][i].id =>
            \/ Way(q, Held'[q][j]) > Way(p, Held[p][i])
            \/ q = p /\ j <= i /\ Held'[q][j] = Held[p][i]

\* The places are in the order of the ring.
LEMMA StageOrder ==
    /\ \A p \in Names : Stage[p] \in 1 .. 8
    /\ Stage["retry queue"] < Stage["recovery"]
    /\ \A t \in Submitters : Stage[t] < Stage["request queue"]
    /\ Stage["request queue"] < Stage["worker"]
    /\ Stage["worker result"] < Stage["result queue"]
    /\ Stage["result queue"] < Stage["result task"]
    /\ Stage["result task"] < Stage["retry"]
    /\ Stage["retry"] < Stage["retry queue"]
    /\ Stage["result task"] = 3
    /\ \A p \in Answered : Stage[p] \in 1 .. 3
BY DEF Stage, Names, Submitters, Answered

\* A later place is further on the way, and any place after one exchange more.
LEMMA WayGrows ==
    ASSUME NEW p \in Names, NEW q \in Names, NEW e, NEW f, e.tries \in Nat,
           \/ f.tries = e.tries /\ Stage[p] < Stage[q]
           \/ f.tries = e.tries + 1
    PROVE  Way(q, f) > Way(p, e)
<1>1. Stage[p] \in 1 .. 8 /\ Stage[q] \in 1 .. 8
  BY StageOrder
<1>2. \A m \in Nat, s, t \in 1 .. 8 : /\ s < t => 8 * m + t > 8 * m + s
                                     /\ 8 * (m + 1) + t > 8 * m + s
  OBVIOUS
<1> QED BY <1>1, <1>2 DEF Way

\* The way to any place before the last exchange, or to one of an answer after it,
\* is no longer than LastWay.
LEMMA WayFits ==
    ASSUME NEW p \in Names, NEW e,
           \/ e.tries \in 0 .. MaxRetries
           \/ e.tries \in 1 .. MaxRetries + 1 /\ p \in Answered
    PROVE  Way(p, e) \in 1 .. LastWay
<1>1. /\ Stage[p] \in 1 .. 8 /\ Stage["result task"] = 3 /\ MaxRetries \in Nat
      /\ p \in Answered => Stage[p] \in 1 .. 3
  BY StageOrder, BoundAssumption
<1>2. \A M \in Nat :
         /\ \A m \in 0 .. M, s \in 1 .. 8 : 8 * m + s \in 1 .. 8 * (M + 1) + 3
         /\ \A m \in 1 .. M + 1, s \in 1 .. 3 : 8 * m + s \in 1 .. 8 * (M + 1) + 3
  OBVIOUS
<1> QED BY <1>1, <1>2 DEF Way, LastWay

\* StepKinds again, with the direction of a move.
LEMMA StepDirection ==
    ASSUME Handled, [Next]_vars
    PROVE  \/ Born \/ Skipped \/ Exchanged \/ Stayed
           \/ \E p, q \in Names : Moved(p, q) /\ Stage[p] < Stage[q]
           \/ \E p \in Names : Dropped(p)
<1> USE StageOrder DEF Submitters, Names
<1>1. CASE Telemetry
  BY <1>1, BornStep, SkippedStep, SubmitTimesOutDrops DEF Telemetry
<1>2. CASE RecoveryTask
  BY <1>2, RecoveryTakesRetryMoves, OtherStepsStay DEF RecoveryTask
<1>3. CASE Submit
  BY <1>3, SubmitSendsMoves, OtherStepsStay DEF Submit
<1>4. CASE Worker
  BY <1>4, WorkerReceivesMoves, WorkerExchangesStep, WorkerDeliversMoves DEF Worker
<1>5. CASE ResultTask
  BY <1>5, ResultReceivedMoves, OtherStepsStay, ResultEnds, RetryPreparedMoves,
     RetryScheduledMoves DEF ResultTask
<1>6. CASE UNCHANGED vars
  BY <1>6, OtherStepsStay
<1> QED BY <1>1, <1>2, <1>3, <1>4, <1>5, <1>6 DEF Next

\* The copies of G are copies of H, in the same places and not further back.
Closer(G, H) ==
    \A q \in Names : \A j \in DOMAIN G[q] : \E i \in DOMAIN H[q] : j <= i /\ G[q][j] = H[q][i]

\* Removing the first copy of a place brings the others closer.
LEMMA WithoutIsCloser ==
    ASSUME NEW H \in Holdings, NEW p \in Names, H[p] # <<>>
    PROVE  Closer(Without(H, p), H) /\ Without(H, p) \in Holdings
<1>1. H[p] \in Seq(Copies)
  BY DEF Holdings
<1>2. /\ Tail(H[p]) \in Seq(Copies)
      /\ \A i \in DOMAIN Tail(H[p]) : /\ i + 1 \in DOMAIN H[p] /\ i <= i + 1
                                      /\ Tail(H[p])[i] = H[p][i + 1]
  <2>1. DOMAIN Tail(H[p]) \subseteq Nat
    BY <1>1
  <2>2. \A i \in DOMAIN Tail(H[p]) : i <= i + 1
    BY <2>1
  <2> QED BY <1>1, <2>2, TailPositions
<1>3. /\ Without(H, p)[p] = Tail(H[p])
      /\ \A q \in Names \ {p} : Without(H, p)[q] = H[q]
      /\ Without(H, p) \in Holdings
  BY <1>2 DEF Without, Holdings
<1>4. \A q \in Names : \A i \in DOMAIN H[q] : i <= i
  <2>1. \A q \in Names : H[q] \in Seq(Copies)
    BY DEF Holdings
  <2> QED BY <2>1
<1> QED BY <1>2, <1>3, <1>4 DEF Closer

\* Adding a copy leaves the others where they are.
LEMMA WithAddsOne ==
    ASSUME NEW H \in Holdings, NEW p \in Names, NEW e \in Copies,
           NEW q \in Names, NEW j \in DOMAIN With(H, p, e)[q]
    PROVE  \/ j \in DOMAIN H[q] /\ With(H, p, e)[q][j] = H[q][j]
           \/ q = p /\ With(H, p, e)[q][j] = e
<1>1. H[p] \in Seq(Copies)
  BY DEF Holdings
<1>2. With(H, p, e)[p] = Append(H[p], e) /\ \A r \in Names \ {p} : With(H, p, e)[r] = H[r]
  BY DEF With, Holdings
<1>3. CASE q = p
  BY <1>1, <1>2, <1>3, AppendPositions
<1>4. CASE q # p
  BY <1>2, <1>4
<1> QED BY <1>3, <1>4

\* A request has one copy, so that a copy with its id is that copy.
LEMMA SameCopy ==
    ASSUME Distinct(Held), NEW p \in Names, NEW i \in DOMAIN Held[p],
           NEW q \in Names, NEW k \in DOMAIN Held[q], Held[p][i].id = Held[q][k].id
    PROVE  p = q /\ i = k
BY DEF Distinct

\* Copies that are only closer have gone onward.
LEMMA CloserIsOnward == Distinct(Held) /\ Closer(Held', Held) => Onward
BY SameCopy DEF Closer, Onward

\* So have they when, besides, one copy is taken away and given to a later
\* place, or made anew.
LEMMA GivenIsOnward ==
    ASSUME Distinct(Held), NEW G \in Holdings, Closer(G, Held),
           NEW p \in Names, NEW f \in Copies, Held' = With(G, p, f),
           \A q \in Names : \A i \in DOMAIN Held[q] :
               Held[q][i].id = f.id => Way(p, f) > Way(q, Held[q][i])
    PROVE  Onward
<1> SUFFICES ASSUME NEW r \in Names, NEW q \in Names,
                    NEW i \in DOMAIN Held[r], NEW j \in DOMAIN Held'[q],
                    Held'[q][j].id = Held[r][i].id
             PROVE  \/ Way(q, Held'[q][j]) > Way(r, Held[r][i])
                    \/ q = r /\ j <= i /\ Held'[q][j] = Held[r][i]
  BY DEF Onward
<1>1. CASE j \in DOMAIN G[q] /\ Held'[q][j] = G[q][j]
  <2>1. PICK k \in DOMAIN Held[q] : j <= k /\ G[q][j] = Held[q][k]
    BY <1>1 DEF Closer
  <2>2. r = q /\ i = k
    BY <1>1, <2>1, SameCopy
  <2> QED BY <1>1, <2>1, <2>2
<1>2. CASE q = p /\ Held'[q][j] = f
  BY <1>2
<1> QED BY <1>1, <1>2, WithAddsOne

\* The first copy of a place, while the others come closer.
LEMMA FirstCopy ==
    ASSUME Handled, HeldInv, NEW p \in Names, Held[p] # <<>>
    PROVE  /\ Distinct(Held) /\ Head(Held[p]) \in Copies
           /\ Without(Held, p) \in Holdings /\ Closer(Without(Held, p), Held)
           /\ \A q \in Names : \A i \in DOMAIN Held[q] :
                  Held[q][i].id = Head(Held[p]).id => q = p /\ Held[q][i] = Head(Held[p])
<1>1. Held \in Holdings /\ Distinct(Held)
  BY HeldType DEF Handled, Typed, HeldInv
<1>2. Held[p] \in Seq(Copies)
  BY <1>1 DEF Holdings
<1>3. Head(Held[p]) \in Copies /\ Head(Held[p]) = Held[p][1] /\ 1 \in DOMAIN Held[p]
  BY <1>2, TailPositions
<1>4. \A q \in Names : \A i \in DOMAIN Held[q] :
          Held[q][i].id = Head(Held[p]).id => q = p /\ i = 1
  BY <1>1, <1>3, SameCopy
<1> QED BY <1>1, <1>3, <1>4, WithoutIsCloser

\* Each kind of step brings each copy onward.
LEMMA StepIsOnward == ASSUME Handled, HeldInv, [Next]_vars PROVE Onward
<1>1. Held \in Holdings /\ Distinct(Held) /\ Made(Held, nextId) /\ nextId \in Nat
  BY HeldType DEF Handled, Typed, HeldInv, TypeOK, SubmitOK
<1>2. Closer(Held, Held)
  <2>1. \A q \in Names : Held[q] \in Seq(Copies)
    BY <1>1 DEF Holdings
  <2>2. \A q \in Names : \A j \in DOMAIN Held[q] : j <= j
    BY <2>1
  <2> QED BY <2>2 DEF Closer
<1>3. CASE Born
  <2> DEFINE f == [id |-> nextId, tries |-> 0]
  <2>1. f \in Copies /\ f.id = nextId /\ Held' = With(Held, "telemetry", f) /\ nextId \in Ids
    BY <1>3 DEF Born, Copies
  <2>2. \A q \in Names : \A i \in DOMAIN Held[q] : Held[q][i].id # nextId
    <3>1. nextId \notin Flight(Held)
      BY <1>1 DEF Made
    <3> QED BY <2>1, <3>1 DEF Flight
  <2>3. "telemetry" \in Names
    BY DEF Names
  <2> HIDE DEF f
  <2> QED BY <1>1, <1>2, <2>1, <2>2, <2>3, GivenIsOnward
<1>4. CASE Exchanged
  <2> DEFINE e == Head(Held["worker"])
             f == [e EXCEPT !.tries = @ + 1]
             G == Without(Held, "worker")
  <2>1. /\ "worker" \in Names /\ "worker result" \in Names /\ Held["worker"] # <<>>
        /\ Held' = With(G, "worker result", f)
    BY <1>4 DEF Exchanged, Names
  <2>2. /\ e \in Copies /\ G \in Holdings /\ Closer(G, Held)
        /\ \A q \in Names : \A i \in DOMAIN Held[q] :
               Held[q][i].id = e.id => q = "worker" /\ Held[q][i] = e
    BY <2>1, FirstCopy
  <2>3. f \in Copies /\ f.id = e.id /\ f.tries = e.tries + 1 /\ e.tries \in Nat
    BY <2>2 DEF Copies
  <2>4. Way("worker result", f) > Way("worker", e)
    BY <2>1, <2>3, WayGrows
  <2> HIDE DEF e, f, G
  <2>5. \A q \in Names : \A i \in DOMAIN Held[q] :
            Held[q][i].id = f.id => Way("worker result", f) > Way(q, Held[q][i])
    BY <2>2, <2>3, <2>4
  <2> QED BY <1>1, <2>1, <2>2, <2>3, <2>5, GivenIsOnward
<1>5. CASE Stayed
  BY <1>1, <1>2, <1>5, CloserIsOnward DEF Stayed
<1>8. CASE Skipped
  BY <1>1, <1>2, <1>8, CloserIsOnward DEF Skipped
<1>6. ASSUME NEW p \in Names, NEW q \in Names, Moved(p, q), Stage[p] < Stage[q] PROVE Onward
  <2> DEFINE e == Head(Held[p])
             G == Without(Held, p)
  <2>1. Held[p] # <<>> /\ Held' = With(G, q, e)
    BY <1>6 DEF Moved
  <2>2. /\ e \in Copies /\ G \in Holdings /\ Closer(G, Held)
        /\ \A r \in Names : \A i \in DOMAIN Held[r] :
               Held[r][i].id = e.id => r = p /\ Held[r][i] = e
    BY <2>1, FirstCopy
  <2>3. Way(q, e) > Way(p, e)
    <3>1. e.tries \in Nat
      BY <2>2 DEF Copies
    <3> QED BY <3>1, <1>6, WayGrows
  <2> HIDE DEF e, G
  <2> QED BY <1>1, <2>1, <2>2, <2>3, GivenIsOnward
<1>7. ASSUME NEW p \in Names, Dropped(p) PROVE Onward
  BY <1>1, <1>7, FirstCopy, CloserIsOnward DEF Dropped
<1> QED BY <1>3, <1>4, <1>5, <1>6, <1>7, <1>8, StepDirection

\* A copy never goes back on its way, whatever else happens in the pipeline:
\* neither to an earlier place of the same try nor, in a queue, behind a copy
\* that came after it.
THEOREM RequestsGoOnward == Spec => [][Onward]_vars
<1>1. (Handled /\ HeldInv) /\ [Next]_vars => Onward
  BY StepIsOnward
<1> QED BY <1>1, HeldThroughout, PTL DEF Spec

\* The way is at most LastWay long: the retry_count of a request, with the
\* limit on it, bounds how often it may go round.
THEOREM WayIsBounded == Spec => []WayEnds
<1>1. Typed => WayEnds
  <2> SUFFICES ASSUME Typed, NEW p \in Names, NEW i \in DOMAIN Held[p]
               PROVE  Way(p, Held[p][i]) \in 1 .. LastWay
    BY DEF WayEnds
  <2>1. TypeOK
    BY DEF Typed
  <2>2. /\ \A q \in Seq(Request) : \A k \in DOMAIN q : q[k] \in Request
        /\ \A q \in Seq(Result) : \A k \in DOMAIN q : q[k] \in Result
    OBVIOUS
  <2>3. ASSUME NEW q \in Seq(Request), Held[p] = Untried(q)
        PROVE  Held[p][i].tries \in 0 .. MaxRetries
    <3>1. i \in DOMAIN q /\ Held[p][i].tries = q[i].retry
      BY <2>3 DEF Untried
    <3> QED BY <2>2, <3>1 DEF Request
  <2>4. ASSUME NEW q \in Seq(Result), Held[p] = Tried(q)
        PROVE  Held[p][i].tries \in 1 .. MaxRetries + 1
    <3>1. i \in DOMAIN q /\ Held[p][i].tries = q[i].request.retry + 1
      BY <2>4 DEF Tried
    <3>2. q[i].request.retry \in 0 .. MaxRetries
      BY <2>2, <3>1 DEF Request, Result
    <3> QED BY <3>1, <3>2, BoundAssumption
  <2>5. CASE p \in {"telemetry", "recovery", "request queue", "worker", "retry", "retry queue"}
    <3>1. Held[p][i].tries \in 0 .. MaxRetries
      BY <2>1, <2>3, <2>5, HeldPlaces, PlacesAreSequences DEF Submitters
    <3> QED BY <3>1, WayFits
  <2>6. CASE p \in Answered
    <3>1. Held[p][i].tries \in 1 .. MaxRetries + 1
      BY <2>1, <2>4, <2>6, HeldPlaces, PlacesAreSequences DEF Answered
    <3> QED BY <2>6, <3>1, WayFits
  <2> QED BY <2>5, <2>6 DEF Names, Answered
<1> QED BY <1>1, TypedThroughout, PTL

-----------------------------------------------------------------------------
(* Who can take a copy on.  The guards of each task's actions together: it  *)
(* is not blocked.                                                          *)

WorkerMoves ==
    \/ worker = <<>> /\ workerResult = <<>> /\ requestQueue # <<>>
    \/ worker # <<>> /\ Replies # {}
    \/ /\ workerResult # <<>>
       /\ \/ Len(resultQueue) < ResultQueueLength
          \/ TimesOut(resultQueue, ResultQueueLength)

ResultMoves ==
    \/ resPc = "idle" /\ resultQueue # <<>>
    \/ resPc \in {"counting", "deciding", "notifying"}
    \/ /\ resPc = "scheduling"
       /\ \/ Len(retryQueue) < RetryQueueLength
          \/ TimesOut(retryQueue, RetryQueueLength)

SubmitMoves(t) ==
    \/ subPc[t] = "sending" /\ Len(requestQueue) < RequestQueueLength
    \/ subPc[t] = "accounting"

RecoveryMoves ==
    \/ subPc["recovery"] = "idle" /\ retryQueue # <<>>
    \/ subPc["recovery"] = "backoff"
    \/ SubmitMoves("recovery")

TelemetryMoves ==
    \/ SubmitMoves("telemetry")
    \/ subPc["telemetry"] = "sending" /\ TimesOut(requestQueue, RequestQueueLength)

\* Nobody waits in a circle: the worker, the result task and telemetry are never
\* blocked while they have something before them; the recovery task alone may
\* be, by a full request queue, and then the worker is not.
RingMoves ==
    /\ \A p \in {"request queue", "worker", "worker result"} : Held[p] # <<>> => WorkerMoves
    /\ \A p \in {"result queue", "result task", "retry"} : Held[p] # <<>> => ResultMoves
    /\ Held["telemetry"] # <<>> => TelemetryMoves
    /\ \A p \in {"retry queue", "recovery"} :
           Held[p] # <<>> => \/ RecoveryMoves
                            \/ (Held["request queue"] # <<>> /\ WorkerMoves)

\* No copies are shown of nothing, and some of a queue that is not empty.
LEMMA EmptyPlaces ==
    /\ Untried(<<>>) = <<>> /\ Tried(<<>>) = <<>>
    /\ \A q \in Seq(Request) : q # <<>> => Untried(q) # <<>>
BY UntriedCopies DEF Untried, Tried

\* Whatever the lengths of the queues, and however full they are, whoever is
\* to take a request on can, provided that every exchange ends in some reply.
\* The time-outs of the sends are what breaks the ring.
THEOREM RingNeverBlocks == ASSUME Replies # {} PROVE Spec => []RingMoves
<1>1. Handled => RingMoves
  <2> SUFFICES ASSUME Handled PROVE RingMoves
    OBVIOUS
  <2>1. /\ TypeOK /\ AtHand /\ FreeHands
    BY DEF Handled, Typed
  <2>2. /\ Len(requestQueue) \in Nat /\ Len(requestQueue) <= RequestQueueLength
        /\ Len(resultQueue) \in Nat /\ Len(resultQueue) <= ResultQueueLength
        /\ Len(retryQueue) \in Nat /\ Len(retryQueue) <= RetryQueueLength
    BY <2>1 DEF TypeOK, QueuesOK, QueueOK
  <2>3. /\ Len(requestQueue) < RequestQueueLength \/ TimesOut(requestQueue, RequestQueueLength)
        /\ Len(resultQueue) < ResultQueueLength \/ TimesOut(resultQueue, ResultQueueLength)
        /\ Len(retryQueue) < RetryQueueLength \/ TimesOut(retryQueue, RetryQueueLength)
    BY <2>2, QueueAssumption DEF TimesOut
  <2>4. ASSUME requestQueue # <<>> \/ worker # <<>> \/ workerResult # <<>> PROVE WorkerMoves
    BY <2>3, <2>4 DEF WorkerMoves
  <2>5. ASSUME resultQueue # <<>> \/ resResult # <<>> \/ resRetry # <<>> PROVE ResultMoves
    <3>1. resPc \in {"idle", "counting", "deciding", "scheduling", "notifying"}
      BY <2>1 DEF TypeOK, ResOK
    <3>2. /\ resPc = "idle" => resultQueue # <<>>
      BY <2>1, <2>5 DEF FreeHands
    <3>3. resPc # "idle" => ResultMoves
      BY <2>3, <3>1 DEF ResultMoves
    <3> QED BY <3>2, <3>3 DEF ResultMoves
  <2>6. \A t \in Submitters : /\ subPc[t] \in {"idle", "backoff", "sending", "accounting"}
                              /\ subPc[t] \in {"idle", "accounting"} => subRequest[t] = <<>>
    BY <2>1 DEF TypeOK, SubmitOK, FreeHands
  <2>7. ASSUME subRequest["telemetry"] # <<>> PROVE TelemetryMoves
    <3>1. subPc["telemetry"] = "sending"
      BY <2>1, <2>6, <2>7 DEF AtHand, Submitters
    <3> QED BY <2>3, <3>1 DEF TelemetryMoves, SubmitMoves
  <2>8. ASSUME subRequest["recovery"] # <<>> \/ retryQueue # <<>>
        PROVE  RecoveryMoves \/ requestQueue # <<>>
    <3>1. CASE subPc["recovery"] = "sending"
      <4>1. Len(requestQueue) < RequestQueueLength \/ Len(requestQueue) # 0
        BY <2>2, QueueAssumption
      <4>2. Len(requestQueue) # 0 => requestQueue # <<>>
        OBVIOUS
      <4> QED BY <3>1, <4>1, <4>2 DEF RecoveryMoves, SubmitMoves
    <3>2. CASE subPc["recovery"] # "sending"
      BY <2>6, <2>8, <3>2 DEF RecoveryMoves, SubmitMoves, Submitters
    <3> QED BY <3>1, <3>2
  <2>9. requestQueue # <<>> => Held["request queue"] # <<>>
    BY <2>1, EmptyPlaces, HeldPlaces, PlacesAreSequences
  <2>10. /\ Held["request queue"] # <<>> => requestQueue # <<>>
         /\ Held["worker"] # <<>> => worker # <<>>
         /\ Held["worker result"] # <<>> => workerResult # <<>>
    BY EmptyPlaces, HeldPlaces
  <2>11. /\ Held["result queue"] # <<>> => resultQueue # <<>>
         /\ Held["result task"] # <<>> => resResult # <<>>
         /\ Held["retry"] # <<>> => resRetry # <<>>
    BY EmptyPlaces, HeldPlaces
  <2>12. /\ Held["retry queue"] # <<>> => retryQueue # <<>>
         /\ Held["recovery"] # <<>> => subRequest["recovery"] # <<>>
         /\ Held["telemetry"] # <<>> => subRequest["telemetry"] # <<>>
    BY EmptyPlaces, HeldPlaces
  <2>13. /\ \A p \in {"request queue", "worker", "worker result"} :
               Held[p] # <<>> => WorkerMoves
         /\ \A p \in {"result queue", "result task", "retry"} :
               Held[p] # <<>> => ResultMoves
    BY <2>4, <2>5, <2>10, <2>11
  <2>14. \A p \in {"retry queue", "recovery"} :
            Held[p] # <<>> => RecoveryMoves \/ requestQueue # <<>>
    BY <2>8, <2>12
  <2> QED BY <2>4, <2>7, <2>9, <2>12, <2>13, <2>14 DEF RingMoves
<1> QED BY <1>1, HandledThroughout, PTL
=============================================================================
