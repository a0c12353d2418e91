------------------------------ MODULE SntpTime ------------------------------
(***************************************************************************)
(* The SNTP time manager: one task initialises and deinitialises it, the   *)
(* TCP/IP task runs its callback after every answer of the time server,    *)
(* and another task asks for the time.  ctx_lock is a spinlock: a critical *)
(* section is one step, and what a function does between two of them can   *)
(* be interleaved with everything.                                         *)
(*                                                                         *)
(* External: the SNTP client sets the system clock, then calls the         *)
(* callback, all in the TCP/IP task; stopping it goes through that task,   *)
(* so no callback is under way when esp_netif_sntp_deinit returns.         *)
(***************************************************************************)
EXTENDS Integers

CONSTANTS MaxTime,          \* bound of the model: the clock runs from 0
          MaxSyncs,         \* bound of the model: answers of the server
          MaxCalls          \* bound of the model: calls of init and deinit

ASSUME BoundAssumption == MaxTime \in Nat /\ MaxSyncs \in Nat /\ MaxCalls \in Nat

Times == 0 .. MaxTime
NoTime == -1

VARIABLES
    initialized,            \* ctx.initialized
    state,                  \* ctx.state
    syncCount,              \* ctx.sync_count
    lastSync,               \* ctx.last_sinc_timestamp
    ownerPc,                \* the task that calls init and deinit
    calls,                  \* how often it did
    running,                \* external: esp_netif_sntp_init has succeeded
    clock,                  \* external: what time(NULL) returns
    clockSet,               \* external: the clock shows the server's time
    callback,               \* external: timestamp handed to the callback
    answers,                \* external: answers of the server since running
    readerPc,               \* the task that asks for the time
    readerLast,             \* last_sinc_timestamp as get_sync_age read it
    readerGot               \* what it was given: a timestamp or an age

ctx == <<initialized, state, syncCount, lastSync>>
owner == <<ownerPc, calls>>
client == <<running, clock, clockSet, callback, answers>>
reader == <<readerPc, readerLast, readerGot>>
vars == <<ctx, owner, client, reader>>

TypeOK ==
    /\ initialized \in BOOLEAN
    /\ state \in {"UNINITIALIZED", "WAITING_FOR_SYNC", "SYNCED"}
    /\ syncCount \in 0 .. MaxSyncs
    /\ lastSync \in Times
    /\ ownerPc \in {"idle", "prepare", "start", "rollback", "stop", "clear"}
    /\ calls \in 0 .. MaxCalls
    /\ running \in BOOLEAN
    /\ clock \in Times
    /\ clockSet \in BOOLEAN
    /\ callback \in Times \cup {NoTime}
    /\ answers \in 0 .. MaxSyncs
    /\ readerPc \in {"idle", "timestamp", "age"}
    /\ readerLast \in Times
    /\ readerGot \in Times \cup {NoTime}

Init ==
    /\ initialized = FALSE /\ state = "UNINITIALIZED"
    /\ syncCount = 0 /\ lastSync = 0
    /\ ownerPc = "idle" /\ calls = 0
    /\ running = FALSE /\ clock = 0 /\ clockSet = FALSE
    /\ callback = NoTime /\ answers = 0
    /\ readerPc = "idle" /\ readerLast = 0 /\ readerGot = NoTime

-----------------------------------------------------------------------------
(* sntp_time_manager_init: check, prepare the context, start the client,   *)
(* and undo the preparation when that fails.                               *)

InitChecks ==
    /\ ownerPc = "idle" /\ calls < MaxCalls
    /\ calls' = calls + 1
    /\ ownerPc' = IF initialized THEN "idle" ELSE "prepare"
    /\ UNCHANGED <<ctx, client, reader>>

\* setenv may fail before anything is written.
InitPrepares ==
    /\ ownerPc = "prepare"
    /\ \/ /\ ownerPc' = "start"
          /\ initialized' = TRUE
          /\ state' = "WAITING_FOR_SYNC"
          /\ syncCount' = 0
          /\ lastSync' = 0
       \/ /\ ownerPc' = "idle"
          /\ UNCHANGED ctx
    /\ UNCHANGED <<calls, client, reader>>

InitStarts ==
    /\ ownerPc = "start"
    /\ \/ /\ ~running
          /\ running' = TRUE
          /\ answers' = 0
          /\ ownerPc' = "idle"
       \/ /\ ownerPc' = "rollback"
          /\ UNCHANGED <<running, answers>>
    /\ UNCHANGED <<ctx, calls, clock, clockSet, callback, reader>>

\* Mutant: the context stays initialised.
InitRollsBack_KeepsInitialized ==
    /\ ownerPc = "rollback"
    /\ state' = "UNINITIALIZED"
    /\ ownerPc' = "idle"
    /\ UNCHANGED <<initialized, syncCount, lastSync, calls, client, reader>>

InitRollsBack ==
    /\ ownerPc = "rollback"
    /\ initialized' = FALSE
    /\ state' = "UNINITIALIZED"
    /\ ownerPc' = "idle"
    /\ UNCHANGED <<syncCount, lastSync, calls, client, reader>>

-----------------------------------------------------------------------------
(* sntp_time_deinit                                                        *)

\* Mutant: the context is cleared but the client never stopped.
DeinitChecks_KeepsClient ==
    /\ ownerPc = "idle" /\ calls < MaxCalls
    /\ calls' = calls + 1
    /\ ownerPc' = IF initialized THEN "clear" ELSE "idle"
    /\ UNCHANGED <<ctx, client, reader>>

DeinitChecks ==
    /\ ownerPc = "idle" /\ calls < MaxCalls
    /\ calls' = calls + 1
    /\ ownerPc' = IF initialized THEN "stop" ELSE "idle"
    /\ UNCHANGED <<ctx, client, reader>>

DeinitStops ==
    /\ ownerPc = "stop"
    /\ callback = NoTime
    /\ running' = FALSE
    /\ ownerPc' = "clear"
    /\ UNCHANGED <<ctx, calls, clock, clockSet, callback, answers, reader>>

DeinitClears ==
    /\ ownerPc = "clear"
    /\ initialized' = FALSE
    /\ state' = "UNINITIALIZED"
    /\ syncCount' = 0
    /\ lastSync' = 0
    /\ ownerPc' = "idle"
    /\ UNCHANGED <<calls, client, reader>>

-----------------------------------------------------------------------------
\* External: the server answers, the client sets the clock to any time.
ServerAnswers ==
    /\ running /\ callback = NoTime /\ answers < MaxSyncs
    /\ answers' = answers + 1
    /\ \E t \in Times : clock' = t /\ callback' = t
    /\ clockSet' = TRUE
    /\ UNCHANGED <<ctx, owner, running, reader>>

\* Mutant: only the first answer is recorded.
CallbackRuns_Once ==
    /\ callback # NoTime
    /\ IF state = "WAITING_FOR_SYNC"
       THEN state' = "SYNCED" /\ syncCount' = syncCount + 1 /\ lastSync' = callback
       ELSE UNCHANGED <<state, syncCount, lastSync>>
    /\ callback' = NoTime
    /\ UNCHANGED <<initialized, owner, running, clock, clockSet, answers, reader>>

\* sntp_time_sync_callback
CallbackRuns ==
    /\ callback # NoTime
    /\ state' = "SYNCED"
    /\ syncCount' = syncCount + 1
    /\ lastSync' = callback
    /\ callback' = NoTime
    /\ UNCHANGED <<initialized, owner, running, clock, clockSet, answers, reader>>

\* External: time passes.
ClockTicks ==
    /\ clock < MaxTime
    /\ clock' = clock + 1
    /\ UNCHANGED <<ctx, owner, running, clockSet, callback, answers, reader>>

-----------------------------------------------------------------------------
\* sntp_time_manager_get_timestamp: is_synced, and time(NULL) after it.
TimestampChecks ==
    /\ readerPc = "idle"
    /\ state = "SYNCED"
    /\ readerPc' = "timestamp"
    /\ readerGot' = NoTime
    /\ UNCHANGED <<ctx, owner, client, readerLast>>

TimestampReads ==
    /\ readerPc = "timestamp"
    /\ readerGot' = clock
    /\ readerPc' = "idle"
    /\ UNCHANGED <<ctx, owner, client, readerLast>>

\* sntp_time_manager_get_sync_age: a consistent pair from the context, and
\* time(NULL) after it; a clock that was set back gives an error, no age.
AgeReadsSync ==
    /\ readerPc = "idle"
    /\ state = "SYNCED"
    /\ readerLast' = lastSync
    /\ readerPc' = "age"
    /\ readerGot' = NoTime
    /\ UNCHANGED <<ctx, owner, client>>

\* Mutant: the age is computed whatever the clock says.
Age_Unchecked == clock - readerLast
Age == IF clock < readerLast THEN NoTime ELSE clock - readerLast

AgeReadsClock ==
    /\ readerPc = "age"
    /\ readerGot' = Age
    /\ readerPc' = "idle"
    /\ UNCHANGED <<ctx, owner, client, readerLast>>

Owner == \/ InitChecks \/ InitPrepares \/ InitStarts \/ InitRollsBack
         \/ DeinitChecks \/ DeinitStops \/ DeinitClears
Client == ServerAnswers \/ CallbackRuns \/ ClockTicks
Reader == TimestampChecks \/ TimestampReads \/ AgeReadsSync \/ AgeReadsClock

Next == Owner \/ Client \/ Reader

Spec == Init /\ [][Next]_vars

-----------------------------------------------------------------------------
\* The manager is initialised exactly when the client runs, between two calls
\* of the owner: a failed init can be repeated, a deinit leaves nothing on.
InitializedMeansRunning == ownerPc = "idle" => (initialized <=> running)

\* No answer of the server is forgotten, even one that comes before init has
\* returned: while the client runs, the context shows every callback that ran.
Run == answers - (IF callback = NoTime THEN 0 ELSE 1)
SyncIsRemembered ==
    running => /\ syncCount = Run
               /\ Run > 0 => state = "SYNCED"

\* Nobody is told a time or an age before a server has set the clock: SYNCED
\* never outlives its client by a late callback or a forgotten reset.
SyncedIsTrue ==
    /\ state = "SYNCED" => initialized /\ clockSet /\ syncCount > 0
    /\ readerGot # NoTime => clockSet
=============================================================================
