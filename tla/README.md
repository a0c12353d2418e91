# A TLA+ model of the ESP32 Wi-Fi / SNTP / HTTPS telemetry firmware

The repository is an ESP-IDF (FreeRTOS) firmware and a small Python test server. The firmware
joins a Wi-Fi network and keeps joining it, sets the clock by SNTP, and posts a JSON reading to an
HTTPS server at intervals, with bounded retries. This directory holds the TLA+ modules of that
system, TLC configurations that check them on small instances, and theorems that TLAPS checks for
every value of the constants. Paths below are relative to `src/`.

1. [Inventory](#1-inventory) 2. [Modules](#2-modules) 3. [Runs](#3-runs)
4. [Fairness](#4-fairness) 5. [Proofs](#5-proofs) 6. [Findings](#6-findings)
7. [Not modelled](#7-not-modelled) 8. [What is left](#8-what-is-left)

## 1. Inventory

### Tasks and how they interact

| Task | Code | Talks to |
|---|---|---|
| event loop (ESP-IDF) | `wifi_event_handler` | forwards driver events to the manager's queue |
| timer task (FreeRTOS) | `wifi_reconnect_timer_callback` | sends `CMD_RECONNECT` to the manager's queue |
| Wi-Fi manager | `wifi_manager_task` | the only writer of `ctx`; calls the driver and the timer; publishes a status snapshot |
| main | `app_main` | initialises every part in order, waits for ONLINE and for the first time answer |
| TCP/IP (lwIP) | `sntp_time_sync_callback` | writes the SNTP context |
| telemetry | `telemetry_worker_task` | asks for the time, submits a request |
| HTTP worker | `http_client_worker_task` | request queue to one exchange to result queue |
| result | `http_result_worker_task` | counts a result, decides, schedules a retry |
| recovery | `http_recovery_worker_task` | waits, submits the retry |
| server threads | `SERVER/https_server.py`, `do_POST` | one per connection, shared `processed_messages` |

### Components

**Wi-Fi manager** (`main/wifi/wifi_manager.c`). State: `ctx` (state, auto reconnect, selected AP
and its validity, two attempt counters, pending recovery, scan purpose), a queue of 10 messages, a
one-shot timer. Operations: eight kinds of message, three API calls. Hard: API calls, driver events
and timer expiries arrive in any order; every send may fail on a full queue with nobody to notice;
`xTimerStop` is only a request; every driver call may fail; a scan, once started, cannot be called
back. Correct when: it never claims a link the driver does not have, never connects to an AP nobody
selected or after the user said no, and never gives up by accident.

**Reconnect backoff** (same file). Unsigned 32-bit doubling with a guard, a clamp and jitter for the
first attempts of a series, and another branch for all later ones. Correct when: every wait of a
series is in range, the waits double, and they never shrink where the branches meet.

**AP selection** (same file). `wifi_manager_process_scan_results` reads the records of a scan and
keeps the strongest of the configured network in `selected_ap`. Hard: the AP of an earlier scan
stays there, only a flag tells. Correct when: a recovery connects to the best AP of *its* scan, and
to none when there is none.

**Status snapshot** (same file). `ctx` copied without a lock, the copy stored under a mutex; two
tasks do so. Correct when: what readers see is the whole state of one moment.

**Boot** (`main/app/main.c` with the init, start and cleanup functions of every module).
Twenty-two things are created one after the other, with two waits in between (30 s for a link, 10 s
for the time), and tasks run as soon as they exist. Hard: each step may fail, in a Wi-Fi manager
that must then give everything back, one thing after the other while its task may already exist; the
first wait reads a status that two tasks publish over each other. Correct when: no task runs without
what it uses, during a clean-up neither, no module stays half built, and nothing is sent by a device
without link or clock.

**HTTP pipeline** (`main/http/`, `main/app/`). State: three queues of four (request, result, retry),
the request or result each task holds a copy of, and two blocks of statistics under mutexes.
Operations: make, or give up a reading that cannot be put into a request (its id is used up all the
same), submit (two critical sections with a blocking send in between), exchange, deliver, count,
decide, prepare, schedule, wait, resubmit. Hard: the queues form a ring, sends time out at different
limits, counters are updated after the fact. Correct when: a request is never duplicated, its
retries are bounded, the ring does not block, and the statistics add up.

**HTTP client** (`http_client.c`). Sets a request up, collects the body from `ON_DATA` events into a
buffer of 1024 bytes, and learns the reason of a failure from the event `DISCONNECTED`, which the
library raises in `esp_http_client_cleanup`. Correct when: body and diagnosis in a result are those
of its own exchange, cut and terminated properly.

**HTTP policy** (`http_manager.c`, `http_recovery_manager.c`). Two independent switches over a
result, and the wait before each retry. Correct when: the switches agree and follow the policy in
the comment, and the waits grow to their maximum.

**SNTP time manager** (`main/time/sntp_time_manager.c`). `ctx` under a spinlock, written by init,
deinit and the callback of another task. Hard: every operation is several critical sections with
external calls in between. `app_main` only calls init; deinit is part of the module's interface.
Correct when: "synchronised" is said only of a clock that was set.

**Server and delivery** (`SERVER/https_server.py`, endpoint `/api/data-loss-test`). A set of keys
of processed messages in memory. Hard: a retry overtakes the thread that handles the first try;
either end restarts. Correct when: a message takes effect once and is acknowledged only then. The
firmware's default URL is `/api/data` (`telemetry_task.c:28`); the endpoint modelled is the
alternative commented out at line 29.

**Serializer** and **parser** (`main/data/`), **plain server** (`SERVER/server.py`): see section 7.

## 2. Modules

| Module | Models | State and actions |
|---|---|---|
| `WifiStates` | `wifi_state_t` and the moves one message may make | `States`, `Linked`, `Moves` |
| `WifiManager` | the manager task and everything that talks to it | one action per message of `wifi_manager_task` (a case of the switch with every function it calls; cases with several outcomes are several actions); `ForwardEvent`, `TimerExpires`, `StaleTimerExpires`, `TimerTaskCatchesUp`, `ApiCall` for the senders; `Driver...` for the external driver |
| `WifiBackoff` | the waits of a series of recoveries: `schedule_recovery`, `wifi_get_backoff_delay`, `wifi_get_retry_delay`, the counter of attempts | one action per branch and loop iteration, arithmetic `% Modulus` |
| `ApSelection` | `process_scan_results` | `Select`, the loop over the records of a scan as a recursive function; `IsBest`, the reference it is checked against |
| `WifiRecovery` | a series of recoveries with their scans; extends `WifiBackoff` and `ApSelection` | each action is a step of one recovery and, by conjunction, the step of `WifiBackoff` it makes |
| `WifiStatus` | `build_status`, `publish_status` in two tasks | `Manager...` and `Init...` actions, one per access another task can see |
| `Boot` | `app_main` with the init functions it calls; extends `WifiStatus` | `Creates(thing)`, `FailsAt(thing)` for each step of the sequence `Steps`, `Undoes` for each release of the clean-up of the function that failed (`Cleanup`, in the code's order), the two waits, the publishing inside `wifi_manager_init` by `WifiStatus`' own actions |
| `HttpPolicy` | `classify_result`, `get_cation` | operators over a result |
| `HttpExchange` | the three client functions and `http_event_handler`; extends `HttpPolicy` | set-up, pieces of the body, `PerformReturns`, `Cleanup` with the late diagnosis |
| `HttpRetrySeries` | the tries of one request; extends `HttpExchange` | `Exchange`, `Retry` (the buffers are used again), the waits |
| `HttpPipeline` | four tasks (telemetry, worker, result, recovery), three queues, both statistics; extends `HttpPolicy` | one action per queue operation or critical section; `TelemetrySkips` uses up an id without a request |
| `RetryContract` | abstract: what one request is promised | `Make` or `Skip`, `Try`, `Close` |
| `SntpTime` | init, deinit, callback, two readers | one action per critical section or external call |
| `TelemetryDelivery` | device and server over a losing network | device reduced to `RetryContract` (a reading that is skipped uses up its id); `Handler...` per server thread; restarts of both |
| `MC...` | instances for TLC | sets of model values and inputs |
| `..._proofs` | theorems | see section 5 |

Composition: `HttpPipeline` implements `RetryContract`, and `TelemetryDelivery`'s device is what
`RetryContract` allows. `WifiRecovery` implements `WifiBackoff`: whatever the scans find, the
schedule is the same. `Boot` implements `WifiStatus`: for the published status a boot is one of its
behaviours. `WifiManager` decides *whether* and *how* to recover; `WifiRecovery` takes that as a
free choice and models when, and to which AP.

How the code is abstracted:

* **Grain.** The manager alone writes `ctx` and nobody reads it raw except `wifi_manager_init`'s
  own publish, so a message is one step of `WifiManager`; `WifiStatus` models that one reader at
  its own grain. In the pipeline a step is one queue operation or one critical section.
* **Queues** are sequences with the code's bounds. A send without waiting time on a full queue
  loses the message (`Send`); a send with a time-out may fail only while the queue is full; a send
  with `portMAX_DELAY` has to wait.
* **The reconnect timer** is `timerArmed` plus `timerStale`: stop and change-period are commands in
  the timer task's queue, so until that task runs an old period may still expire.
* **The driver** is external. It refuses a scan while connecting, keeps the connection it has when
  asked to connect again, reports `ASSOC_LEAVE` for a disconnect the manager asked for, and may
  drop a link with any reason the code's switch tells apart. `Faults` switches the failures of
  driver and timer calls on.
* **Counters** that the code only compares with a limit saturate there
  (`same_ap_reconnect_attempts`); statistics stay natural numbers, the 32-bit wrap of a counter
  of requests is out of scope.
* **Time** is left out: a delayed task may run at any moment, and a wait with a time-out may end
  without what it waits for at any moment. What a delay *is* appears in `WifiBackoff` and
  `HttpRetrySeries`.
* **Boot** is a position in the sequence `Steps`, the step that failed, if one has, the number of
  releases made since, and the set `held` of the things that exist.
  `nvs_flash_init` is not among them: it passes or the device restarts there.
* **A body** is an array in which the k-th byte of the answer is the number k and 0 is NUL, so that
  a wrong, stale or missing byte is a different number. Header fields and `errno` are left out.
* **The HTTP library** is external: it reports a broken connection once, in `cleanup`; that a
  rejected certificate never brings an answer is assumed of TLS.
* A definition `Op_Variant` before `Op`, with a comment "Mutant", is a plausible bug of `Op`; it is
  used by no specification and shows that the property named for it in `PROJECT.json` notices.

## 3. Runs

`tlc -config X.cfg M` from this directory. All but `wifi_recovery` have `CHECK_DEADLOCK FALSE`:
their models end when the bounds (API calls, requests, messages, answers) are used up, where the
program would go on, or when `app_main` returns.

| Run | Module | Checks | States |
|---|---|---|---|
| `wifi_faults` | `MCWifiManager` | `TypeOK`, `ConfiguredApIsSelected`, `SelectionOwnsTheScan`, `AgreesWhenQuiet`, `ScanAnswered`, `ConnectsOnlyWhenWanted`, `FollowsMoves` | 112,169 |
| `wifi_live` | `MCWifiManager` | `NeverStranded`, `EventuallyOnline`, `DisconnectTakesEffect` | 16,457 |
| `wifi_scan_strands` | `MCWifiManager` | `NeverStranded`, violated | |
| `wifi_recovery` | `MCWifiRecovery` | `TypeOK`, `DelayInRange`, `DelayDoubles`, `WaitsNeverShrink`, `SelectsStrongest` | 173,520 |
| `boot` | `Boot` | `SettledStatusIsCurrent`, `TasksFindTheirResources`, `FailureLeavesWholeModules`, `TelemetryNeedsLinkAndTime` | 49,565 |
| `wifi_status_reader` | `WifiStatus` | `StatusReaderAssertion`, violated | |
| `http_policy` | `MCHttpRetrySeries` | `BodyIsPrefix`, `CauseDecides`, `SuccessIffNothingToDo`, `FollowsPolicyTable`, `WaitsGrow` | 14,780 |
| `http_pipeline` | `MCHttpPipeline` | `TypeOK`, `OneCopy`, `RetryCountIsExact`, `SubmitsAddUp`, `ResultsAddUp`, `RequestsAddUp`, `RetriesAddUp`, `RecoveredWereRetried`, `ImplementsContract` | 54,500 |
| `http_ring` | `MCHttpPipeline` | `EveryRequestEnds` | 168,880 |
| `sntp` | `SntpTime` | `TypeOK`, `InitializedMeansRunning`, `SyncIsRemembered`, `SyncedIsTrue` | 33,526 |
| `delivery` | `TelemetryDelivery` | `EffectOncePerLife`, `AnswerIsTrueAtFirst` | 2,338,779 |
| `delivery_reboot` | `TelemetryDelivery` | `AnswerIsTrue`, violated | |

**wifi_faults.** A queue of three messages (so that it overflows), two APs (so that the driver can
be configured for the wrong one; they are symmetric), one attempt each before the limits, three API
calls of any kind, every reason, every fault. `ConfiguredApIsSelected`: a direct reconnect reaches
the AP selected last. `SelectionOwnsTheScan`: a scan that selects an AP is under way in SELECTING_AP
and in no other state, so that its answer cannot overwrite the AP of a connection in progress;
whatever is late or lost, no event moves the state away under the scan. `AgreesWhenQuiet`: with
nothing in flight and nothing lost the manager's state is the driver's connection. `ScanAnswered`:
the flag that blocks every later scan always has an answer on the way. `ConnectsOnlyWhenWanted`:
neither a RECONNECT already queued nor a scan already running undoes a DISCONNECT. `FollowsMoves`:
no late event takes a short cut to ONLINE. The two properties that a lost message breaks by nature
are conditioned on `~lost`.

**wifi_live.** The configured queue of 10, one AP, no faults, the station told not to connect by
itself, up to three CONNECTs and DISCONNECTs, all reasons but an AP's own `ASSOC_LEAVE` (on which
the code stops, by design). A manager that is to be connected always has a recovery armed or a
selection running (`NeverStranded`), comes ONLINE (`EventuallyOnline`) and, told to disconnect,
becomes DISCONNECTED in whatever state that was handled (`DisconnectTakesEffect`).
`wifi_faults` has `AutoConnect = TRUE`, this run `FALSE`: between them both configurations.

**wifi_recovery** scales the constants (base 3, maximum 50, jitter 13) to a word of 64 that the
largest delay just misses; TLC's integers end below 2^32. Seven attempts before the long-term
branch: by the sixth the delay has reached its maximum, so the loop is also run where doubling is
over. Every scan of up to three records of three kinds of SSID and three strengths: a better, an
equal and a worse AP in every order, and none of ours among others. `WaitsNeverShrink` compares
each wait with the one before it in the series, up to the jitter, over the change of branch too.

**boot.** Every step may fail, at every state of the manager task, and every release of the clean-up
is a step of its own. `TasksFindTheirResources` holds between any two of them: what a task uses goes
after the task. The one exception of the code, the reconnect timer that `wifi_manager_cleanup`
deletes before the manager task (`wifi_manager.c:1370`, `1388`), is harmless for a reason the model
shows: the last step that can fail is the start of the driver, and until the driver is started the
task has no message and uses no more than its queue (`Needs`). Six handled messages are enough
for init's stale build to be stored between any two of the manager's publications, and for a link
to come up, be shown, and go. `TelemetryNeedsLinkAndTime`: whatever the two publishers store over
each other, `wait_for_online` never sees an ONLINE that was never true.
`FailureLeavesWholeModules` leaves the network interface layer and the event loop out: nothing
gives these back. `SettledStatusIsCurrent` is checked in the same run, in every boot.

**http_policy.** Every transport error, TLS error and certificate verdict the code tells apart, the
status codes at every boundary, eight retries (the wait is constant from the fourth on).
`FollowsPolicyTable` is the comment "Recovery policy" (`http_recovery_manager.c:13-21`) row by row,
with its last row, an unknown TLS error, and the statuses it does not list: both are final. The
buffer has four bytes and an answer up to six: shorter, just fitting, one too long and longer, cut
into pieces in every way. `CauseDecides`: the decision is made on the cause of the failure, which
arrives after the error. Each retry uses the buffers of the try before.

**http_pipeline.** Three ids, each used up for nothing or for a request of at most one retry,
through queues of one place, so that every queue is full in some state and every time-out happens; a
third request is what it takes for one to be dropped while one waits and one is at work. Replies: a
success, a failure worth a retry, a final failure. `OneCopy` and `RetryCountIsExact` follow one
request through all places it can be; the four `...AddUp` say, at every intermediate point, where
the ids used and the counters of different tasks differ and why; `ImplementsContract` is the
refinement of `RetryContract` (a request is in flight, or it is closed and never tried again;
`exchanges` counts its tries).

**http_ring.** The three queues form a ring, which can be full with six requests: one in each queue,
and one in the hands of the worker, the result task and the recovery task, each waiting for room.
Six requests that nobody answers reach that state, and every request still comes to an end, because
the worker and the result task give up after 100 ms (with those sends waiting for ever, the mutant,
TLC finds the deadlock). The `VIEW` leaves out the counters, which no task reads.

**sntp.** Three ticks of the clock, three answers, five calls of init and deinit by one task, one
reader of each kind.

**delivery.** Two readings per boot, one retry, one reboot of the device, one restart of the server.
`EffectOncePerLife`: a message takes effect at most once per life of the server.
`AnswerIsTrueAtFirst`: until an end has forgotten something, a 200 means done, or about to be done
by the thread that holds the key (the key is stored before the effect).

## 4. Fairness

Safety runs assume none. `WifiManager`'s `FairSpec` has weak fairness of the tasks (FreeRTOS runs
every ready task of the highest priority in turn, the manager blocks on its queue, and no task
spins), of the armed timer and of a running scan (the driver always raises SCAN_DONE). Strong
fairness of finding our AP, of association and of getting an address is an assumption about the
world, not about the code: attempts that are repeated for ever must not fail for ever. Nothing is
assumed of the code's own choice to repeat them; `EventuallyOnline` is what fails when it does not.
`HttpPipeline`'s `FairSpec` has weak fairness of each task's step; an exchange ends because
`http_client.c:284` sets a time-out of 10 s. Telemetry is not obliged to make requests.

## 5. Proofs

`tlapm M_proofs.tla`. All obligations are proved; nothing is assumed but the named assumptions on
the constants (the types of the limits, queue lengths of at least one in the pipeline, `NoAp` no
AP, a buffer of at least one byte, for the backoff base <= maximum, which
`wifi_manager_config_is_valid` demands, and a sum of maximum and jitter below the word, which it
does not).

| Theorem | States | Along |
|---|---|---|
| `WifiManager_proofs!TypeCorrect` | `[]TypeOK` | inductive as it stands, one step per action; saturation of the counters is what keeps the bounds |
| `...!SelectionIsConsistent` | `[](ConfiguredApIsSelected /\ SelectingScan)`, the second a weaker form of `SelectionOwnsTheScan` | neither is inductive alone: that a selection may overwrite `selected_ap` safely needs `~selectedApValid` while its scan runs, and that a scan is only asked for by a manager without a link needs the first |
| `...!ConfiguredApCorrect` | `[]ConfiguredApIsSelected` | from that |
| `...!SelectionScanCorrect` | `[]SelectionOwnsTheScan` | `DropInv`: a DISCONNECTED always finds a manager that counts on a link, also when messages are lost, because a link that ends reports it once and no other begins before the manager has taken the report |
| `...!StateFollowsMoves` | `FollowsMoves` | from the types and `SelectingScan`: that SCAN_DONE of a selection finds a manager without a link is an invariant, not a guard of the code |
| `...!ConnectionIsWanted` | `ConnectsOnlyWhenWanted` | every action that connects or selects has the check |
| `...!ScanIsAnswered` | `[]ScanAnswered` | inductive as it stands, given what a step does to the messages in flight (see below) |
| `...!QuietAgreement` | `[]AgreesWhenQuiet` | `LinkInv`: which messages of a connection are in flight, and in which order, for every pair of the manager's state and the driver's |
| `...!RecoveryNeverStrands` | `[]NeverStranded`, under four hypotheses | `RecoveryInv`: a recovery is armed, queued or under way exactly where the state calls for one (see below) |
| `WifiRecovery_proofs!BackoffTypeCorrect`, `...!DelayCorrect` | `[]TypeOK`, `[]DelayInRange` of `WifiBackoff` | strengthening `DelayInv`: the delay is in range in the loop, hence doubling never wraps |
| `...!RecoveryImplementsBackoff` | `RecoverySpec => Spec` | every step of a recovery is a step of the schedule or leaves it alone |
| `...!DoublingCorrect`, `...!WaitsCorrect` | `[]DelayDoubles`, `[]WaitsNeverShrink` of `WifiBackoff` | `LoopInv`: in round i the loop has the base doubled i - 1 times; the wait before the present one is at most the plan for the present attempt and the jitter |
| `...!Recovery...Correct` (four) | the types, the range, `[]DelayDoubles` and `[]WaitsNeverShrink` for `RecoverySpec` | from the refinement |
| `...!StrongestIsSelected` | `[]SelectsStrongest` | a lemma on `Select` by induction over the records; `FoundInv`: the scan remembered is the one whose AP is being connected to |
| `Boot_proofs!StatusCorrect` | `[]SettledStatusIsCurrent` | `StatusInv`: where each of the two publishers is, what its copy still owes to `ctx` |
| `...!BootImplementsStatus`, `...!BootStatusCorrect` | `BootSpec => Spec`, and so `[]SettledStatusIsCurrent` | |
| `...!ResourcesCorrect`, `...!FailureCorrect` | `[]TasksFindTheirResources`, `[]FailureLeavesWholeModules` | `HeldInv`: the things held are exactly those of the steps done, less what the clean-up has released so far; where a task stands in `Steps` and in `Cleanup` then tells what it finds |
| `...!TelemetryCorrect` | `[]TelemetryNeedsLinkAndTime` | `OnlineInv`: no copy of the status, on its way or published, is ahead of what the manager has been |
| `HttpRetrySeries_proofs!BodyCorrect` | `[]BodyIsPrefix` | `BodyInv`; one lemma for a piece that fits and one for a piece that is cut |
| `...!CauseCorrect` | `[]CauseDecides` | `DiagnosisInv`: before `cleanup` the diagnosis is in the handle, after it in the result |
| `...!JudgementCorrect`, `...!PolicyCorrect` | `[]SuccessIffNothingToDo`, `[]FollowsPolicyTable` | an error excludes a status (`DiagnosisInv`); then by the cases of the two switches, for every status code, and by the rows of the table, for every error |
| `...!WaitsGrowCorrect` | `WaitsGrow` | `Rounds` is 1000, 2000, 4000 and then the maximum, by induction |
| `HttpPipeline_proofs!TypedThroughout` | `[]Typed` | `TypeOK` alone is not inductive: that a task has a request at hand where its next step uses it is the strengthening `AtHand` |
| `...!TypeCorrect` | `[]TypeOK` | in particular `retry <= MaxRetries` everywhere |
| `...!SubmitsCorrect`, `...!ResultsCorrect`, `...!RetriesCorrect` | the counters | each is inductive relative to `Typed`; queue lengths through the lemmas on send and receive |
| `HttpContract_proofs!HeldThroughout` | `[](Handled /\ HeldInv)` | see below |
| `...!OneCopyCorrect`, `...!RetryCountCorrect` | `[]OneCopy`, `[]RetryCountIsExact` | parts of `HeldInv` |
| `...!ContractImplemented` | `ImplementsContract` | a copy made is `Make`, an id skipped `Skip`, a copy removed `Close`, an exchange `Try`, a move a stutter |
| `...!RequestsCorrect` | `[]RequestsAddUp` | `SumInv` counts the requests in flight, out of the ids used without those skipped; `SuccessInv` sets a success aside from its counting to the decision on it |
| `...!RecoveredCorrect` | `[]RecoveredWereRetried` | `RetriedInv`: each recovered request and each that may still recover has a scheduled retry of its own, of which only the latest may not be counted yet |
| `...!RequestsGoOnward`, `...!WayIsBounded`, `...!RingNeverBlocks` | `[][Onward]_vars`, `[]WayEnds`, `[]RingMoves` | see below; the safety part of why every request ends |
| `SntpTime_proofs!...` | the four invariants of run `sntp` | `SntpInv`: what context and client are to each other at every point of init and deinit (`OwnerInv`), that a callback belongs to a running client (`CallbackInv`), that a reader past its check has a set clock (`ReaderInv`) |
| `TelemetryDelivery_proofs!EffectCorrect` | `[]EffectOncePerLife` | `Lives(i)`: the restarts of the server, and the present life once the thread that acts for key i has acted; no key has more effects than that |
| `...!AnswerCorrect` | `[]AnswerIsTrueAtFirst` | `FirstLifeInv`: in the server's first life a key it knows stands for a reading that is done |

**One request in the pipeline.** `HttpContract_proofs` does not argue queue by queue. `Held` maps
each of nine places (three queues, what the four tasks have at hand) to the copies in it. A lemma per
action shows that it is one of six moves on `Held`: a copy of a new request appears at telemetry
(`Born`), the first copy of a place goes to the end of another (`Moved`) or disappears (`Dropped`),
the worker's copy becomes an answered one (`Exchanged`), only an id is used up (`Skipped`), or
nothing changes (`Stayed`). The
invariant (`HeldInv`: copies have distinct ids, their tries are the exchanges made, their ids are
below `nextId`, and no exchange was made with an id that is not) is then shown once per move. It
needs `FreeHands`: a task takes something up only when it has nothing at hand, so that a receive
never overwrites a copy.

**Why every request ends.** `EveryRequestEnds` is a liveness property and stays with TLC, at queues
of one place. What it rests on besides fairness is proved for every length. `Way` counts how far a
copy has come: its exchanges, and within a try the place it is in. `RequestsGoOnward` says that a
step takes a copy further or leaves it where it is with no more copies before it, although the ring
of queues brings it to the same place again; `WayIsBounded` that the way is finite; `RingNeverBlocks`
that whoever is to take a copy on can do so. Only the recovery task may be blocked, by a full request
queue, and then the worker has something to do. `WorkerMoves` and the others are the guards of each
task's actions; the theorem assumes that there is some reply, that is, that an exchange ends. It
needs the time-outs of the sends: with them replaced by `portMAX_DELAY` (`TimesOut_Never`)
a ring with every queue full satisfies none of these guards.

**Messages in flight.** `ScanIsAnswered`, `QuietAgreement` and `RecoveryNeverStrands` relate the
content of two queues (the manager's, and the event loop's before it) to the driver and the timer.
They do not look into the queues: they only speak of `Holds` (a message with this id is in flight)
and `Behind` (it is behind another). Lemmas say what appending, removing the head, forwarding from
one queue to the other and losing a message do to these two, and `MessagesKept` what a step of the
system does: a message in flight stays until it is received, unless one is lost. Then
`ScanAnswered` is inductive: the flag is set by the step that starts the scan, SCAN_DONE is raised
by the step that ends it, and only receiving it clears the flag. `AgreesWhenQuiet` is not: `LinkInv`
adds `InOrder` (CONNECTED, GOT_IP and DISCONNECTED of one connection stay in this order, and there
are never messages of two connections in flight), `NoLinkKnown` (a manager that believes in no link
has none, and none is reported to it) and `LinkReported` (whatever the driver has done since is in
flight). Both hold as long as no message was lost to a full queue; the properties say so themselves.

**What NeverStranded needs.** The theorem assumes `NothingInTheWay`: no scan and no timer start
fails, no user asks for a scan, and no AP drops the station with `ASSOC_LEAVE` (that no message was
lost is a condition of the property itself). These are conditions on the constants that say which
faults, commands and reasons the environment may use; failing connect and disconnect calls, late
events, stale timers and an automatic reconnect of the driver remain. Each of the four is needed:
without any one of them TLC finds a manager that waits for nothing (the second is the finding
`wifi_scan_strands`, the fourth is by design of the code, the other two are calls whose error the
code only logs).

**Induction.** The provers cannot use a theorem with an operator as parameter, such as the library's
induction theorems. `NatIsInductive` in `WifiRecovery_proofs` states induction for a set of naturals,
from `WFMin` and the well-foundedness of `<`, which have none, and `Recursion` that primitive
recursion with a step *function* defines a function. `Doubled` and `Select` are recursive functions
for this reason. `Rounds`, whose values are known, only needs the function shown that it is.

Only model-checked:

* every liveness property (`EventuallyOnline`, `DisconnectTakesEffect`, `EveryRequestEnds`):
  fairness and ENABLED are beyond the prover;
* the three violated claims, which are counterexamples.

Every other property of a passing run is stated by a theorem.

## 6. Findings

* `wifi_scan_strands`: a user scan in flight refuses the scan of a recovery or CONNECT, and nothing
  is scheduled afterwards: DISCONNECTED with auto reconnect on, for good
  (`wifi_manager.c:616-620`, `661-667`).
* `wifi_status_reader`: the status published by `wifi_manager_init` (`wifi_manager.c:1545`) races
  with the manager task; a reader may see a state and an `online` flag that disagree, which
  `wifi_manager_test.c:115-119` calls inconsistent.
* `delivery_reboot`: message ids restart at 1 with the device (`telemetry_task.c:38`), so after a
  reboot a new reading is answered as a duplicate and dropped.

A remark without a run: the table in the comment above `wifi_get_backoff_delay`
(`wifi_manager.c:769-776`) is one attempt off; attempt 1 waits the base delay of 2 s, not 4 s.

## 7. Not modelled

* ESP-IDF, lwIP, mbedTLS and FreeRTOS, except for what the code relies on (marked external).
* `server_data_parser.c`: range checks on a JSON object, called from nowhere in the firmware.
  `device_data_serializer.c`: the text of one JSON object; it keeps no state, and no property tells
  its text apart. `server.py` and the endpoints `/api/data` and `/api/error500`: no state.
* The test tasks of `wifi_manager_test.c` are users of the API (`ApiCall`), and a source of claims.
* LOST_IP: the driver raises it, the code registers no handler for it (`wifi_manager.c:946`), so
  there is no step of the program to model; an ONLINE that outlives its address is a consequence of
  that, and `EventuallyOnline` is stated under the assumption that an associated station gets an
  address or is dropped.
* Events of a driver whose `esp_wifi_start` failed: it is taken to raise none.
* A second `app_main` or `wifi_manager_init` after a failed one: the program never makes it.
* The wrap of 32-bit statistics, the log, header fields, and the text of messages.

## 8. What is left

* An abstract `StationLink` (disconnected, wanted, online) that `WifiManager` implements; its safety
  part would be `FollowsMoves` and `ConnectsOnlyWhenWanted`, which are proved, and its liveness part
  is `EventuallyOnline` and `DisconnectTakesEffect`, which are checked.
* `TelemetryDelivery`'s device is reduced to `RetryContract` by hand. A refinement would need the
  tries of a closed reading, which the device forgets, as a history variable.
* The step from `RequestsGoOnward`, `WayIsBounded` and `RingNeverBlocks` to `EveryRequestEnds`.
