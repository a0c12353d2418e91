--------------------------- MODULE SntpTime_proofs ---------------------------
(***************************************************************************)
(* Theorems about SntpTime for every number of calls, answers and clock    *)
(* readings.  The invariant says for each point of init and deinit what    *)
(* the context and the client are to each other.                           *)
(***************************************************************************)
EXTENDS SntpTime, TLAPS

\* Where the owner is, and whether context and client are on.
OwnerInv ==
    /\ ownerPc = "idle" => (initialized <=> running)
    /\ ownerPc = "prepare" => ~initialized /\ ~running
    /\ ownerPc \in {"start", "rollback"} =>
           /\ initialized /\ ~running
           /\ syncCount = 0 /\ state = "WAITING_FOR_SYNC"
    /\ ownerPc = "stop" => initialized /\ running
    /\ ownerPc = "clear" => initialized /\ ~running

\* A callback belongs to a client that runs and has set the clock.
CallbackInv ==
    callback # NoTime => running /\ clockSet /\ answers > 0

ReaderInv == readerPc # "idle" => clockSet

SntpInv == /\ TypeOK /\ OwnerInv /\ CallbackInv /\ ReaderInv
           /\ SyncIsRemembered /\ SyncedIsTrue

\* Zero is a legal reading and a legal count.
LEMMA ZeroInRange == 0 \in Times /\ 0 \in 0 .. MaxSyncs /\ 0 \in 0 .. MaxCalls
BY BoundAssumption DEF Times

LEMMA SntpStarts == Init => SntpInv
<1> SUFFICES ASSUME Init PROVE SntpInv
  OBVIOUS
<1> USE BoundAssumption DEF Init, NoTime
<1>1. TypeOK
  BY ZeroInRange DEF TypeOK
<1>2. OwnerInv /\ CallbackInv /\ ReaderInv
  BY DEF OwnerInv, CallbackInv, ReaderInv
<1>3. SyncIsRemembered /\ SyncedIsTrue
  BY DEF SyncIsRemembered, SyncedIsTrue
<1> QED BY <1>1, <1>2, <1>3 DEF SntpInv

LEMMA SntpStep == SntpInv /\ [Next]_vars => SntpInv'
<1> SUFFICES ASSUME SntpInv, [Next]_vars PROVE SntpInv'
  OBVIOUS
<1> USE BoundAssumption DEF SntpInv, ctx, owner, client, reader, NoTime, Times
<1>1. TypeOK'
  <2>1. CASE Owner
    <3>1. CASE InitChecks
      BY <3>1 DEF InitChecks, TypeOK
    <3>2. CASE InitPrepares
      BY <3>2, ZeroInRange DEF InitPrepares, TypeOK
    <3>3. CASE InitStarts
      BY <3>3, ZeroInRange DEF InitStarts, TypeOK
    <3>4. CASE InitRollsBack
      BY <3>4 DEF InitRollsBack, TypeOK
    <3>5. CASE DeinitChecks
      BY <3>5 DEF DeinitChecks, TypeOK
    <3>6. CASE DeinitStops
      BY <3>6 DEF DeinitStops, TypeOK
    <3>7. CASE DeinitClears
      BY <3>7, ZeroInRange DEF DeinitClears, TypeOK
    <3> QED BY <2>1, <3>1, <3>2, <3>3, <3>4, <3>5, <3>6, <3>7 DEF Owner
  <2>2. CASE ServerAnswers \/ ClockTicks
    <3>1. CASE ServerAnswers
      BY <3>1 DEF ServerAnswers, TypeOK
    <3>2. CASE ClockTicks
      BY <3>2 DEF ClockTicks, TypeOK
    <3> QED BY <2>2, <3>1, <3>2 DEF ServerAnswers
  <2>3. CASE CallbackRuns
    <3>1. syncCount + 1 = answers
      BY <2>3 DEF CallbackRuns, CallbackInv, SyncIsRemembered, Run, TypeOK
    <3> QED BY <2>3, <3>1 DEF CallbackRuns, TypeOK
  <2>4. CASE Reader
    BY <2>4 DEF Reader, TimestampChecks, TimestampReads, AgeReadsSync, AgeReadsClock, Age, TypeOK
  <2>5. CASE UNCHANGED vars
    BY <2>5 DEF vars, TypeOK
  <2> QED BY <2>1, <2>2, <2>3, <2>4, <2>5 DEF Next, Client
<1>2. OwnerInv' /\ CallbackInv' /\ ReaderInv'
  <2> USE DEF TypeOK, OwnerInv, CallbackInv, ReaderInv
  <2>1. CASE Owner
    BY <2>1 DEF Owner, InitChecks, InitPrepares, InitStarts, InitRollsBack, DeinitChecks,
       DeinitStops, DeinitClears
  <2>2. CASE Client
    BY <2>2 DEF Client, ServerAnswers, CallbackRuns, ClockTicks
  <2>3. CASE Reader
    BY <2>3 DEF Reader, TimestampChecks, TimestampReads, AgeReadsSync, AgeReadsClock, SyncedIsTrue
  <2>4. CASE UNCHANGED vars
    BY <2>4 DEF vars
  <2> QED BY <2>1, <2>2, <2>3, <2>4 DEF Next
<1>3. SyncIsRemembered'
  <2> USE DEF TypeOK, OwnerInv, CallbackInv, SyncIsRemembered, Run
  <2>1. CASE Owner
    <3>1. CASE InitChecks
      BY <3>1 DEF InitChecks
    <3>2. CASE InitPrepares
      BY <3>2 DEF InitPrepares
    <3>3. CASE InitStarts
      <4>1. callback = NoTime
        BY <3>3 DEF InitStarts
      <4>2. CASE running' = running
        BY <3>3, <4>2 DEF InitStarts
      <4>3. CASE answers' = 0 /\ callback' = callback /\ ownerPc = "start"
        <5>1. syncCount' = 0
          BY <3>3, <4>3 DEF InitStarts
        <5>2. Run' = 0
          BY <4>1, <4>3
        <5> QED BY <5>1, <5>2
      <4> QED BY <3>3, <4>2, <4>3 DEF InitStarts
    <3>4. CASE InitRollsBack
      BY <3>4 DEF InitRollsBack
    <3>5. CASE DeinitChecks
      BY <3>5 DEF DeinitChecks
    <3>6. CASE DeinitStops
      BY <3>6 DEF DeinitStops
    <3>7. CASE DeinitClears
      BY <3>7 DEF DeinitClears
    <3> QED BY <2>1, <3>1, <3>2, <3>3, <3>4, <3>5, <3>6, <3>7 DEF Owner
  <2>2. CASE Client
    <3>1. CASE ServerAnswers
      BY <3>1 DEF ServerAnswers
    <3>2. CASE CallbackRuns
      BY <3>2 DEF CallbackRuns
    <3>3. CASE ClockTicks
      BY <3>3 DEF ClockTicks
    <3> QED BY <2>2, <3>1, <3>2, <3>3 DEF Client
  <2>3. CASE Reader \/ UNCHANGED vars
    BY <2>3 DEF Reader, TimestampChecks, TimestampReads, AgeReadsSync, AgeReadsClock, vars
  <2> QED BY <2>1, <2>2, <2>3 DEF Next
<1>4. SyncedIsTrue'
  <2> USE DEF TypeOK, OwnerInv, CallbackInv, ReaderInv, SyncedIsTrue
  <2>1. CASE Owner
    BY <2>1 DEF Owner, InitChecks, InitPrepares, InitStarts, InitRollsBack, DeinitChecks,
       DeinitStops, DeinitClears
  <2>2. CASE Client
    BY <2>2 DEF Client, ServerAnswers, CallbackRuns, ClockTicks
  <2>3. CASE Reader
    BY <2>3 DEF Reader, TimestampChecks, TimestampReads, AgeReadsSync, AgeReadsClock, Age
  <2>4. CASE UNCHANGED vars
    BY <2>4 DEF vars
  <2> QED BY <2>1, <2>2, <2>3, <2>4 DEF Next
<1> QED BY <1>1, <1>2, <1>3, <1>4

LEMMA SntpThroughout == Spec => []SntpInv
BY SntpStarts, SntpStep, PTL DEF Spec

\* No counter or age leaves its range: an age is never computed from a clock
\* that was set back.
THEOREM SntpTypeCorrect == Spec => []TypeOK
<1>1. SntpInv => TypeOK
  BY DEF SntpInv
<1> QED BY <1>1, SntpThroughout, PTL

\* Between two calls of its owner the manager is initialised exactly when the
\* client runs, whichever step of init fails.
THEOREM InitializedCorrect == Spec => []InitializedMeansRunning
<1>1. SntpInv => InitializedMeansRunning
  BY DEF SntpInv, OwnerInv, InitializedMeansRunning
<1> QED BY <1>1, SntpThroughout, PTL

\* No answer of the server is forgotten while the client runs.
THEOREM SyncRemembered == Spec => []SyncIsRemembered
<1>1. SntpInv => SyncIsRemembered
  BY DEF SntpInv
<1> QED BY <1>1, SntpThroughout, PTL

\* Nobody is told a time or an age before a server has set the clock.
THEOREM SyncedCorrect == Spec => []SyncedIsTrue
<1>1. SntpInv => SyncedIsTrue
  BY DEF SntpInv
<1> QED BY <1>1, SntpThroughout, PTL
=============================================================================
