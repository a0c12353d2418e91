------------------------- MODULE TelemetryDelivery -------------------------
(***************************************************************************)
(* From a reading of the device to its effect at the server, for the       *)
(* endpoint /api/data-loss-test of src/SERVER/https_server.py: the device  *)
(* tries a message until it is answered or its retries are used, the       *)
(* network may lose a request or an answer, the server handles every       *)
(* connection in a thread of its own and keeps the keys of the messages it *)
(* has processed in memory.  Both ends may restart and forget.             *)
(*                                                                         *)
(* The device is reduced to what module RetryContract shows of the four    *)
(* tasks of HttpPipeline.  Its message_id starts again at 1 with every     *)
(* boot (telemetry_worker_task), so a reading is known by boot and id,     *)
(* while the server knows it by id only (the device_id is always 17).      *)
(***************************************************************************)
EXTENDS Naturals, FiniteSets

CONSTANTS
    MaxId,                  \* bound of the model: readings per boot
    MaxRetries,             \* request.max_retries (3)
    MaxReboots,             \* bound of the model: restarts of the device
    MaxServerRestarts       \* bound of the model: restarts of the server

ASSUME BoundAssumption == /\ MaxId \in Nat /\ MaxRetries \in Nat
                          /\ MaxReboots \in Nat /\ MaxServerRestarts \in Nat

Readings == [boot : 0 .. MaxReboots, id : 1 .. MaxId]
Tries == 1 .. MaxRetries + 1
\* A thread of the server, for one connection of the device.
Handlers == [reading : Readings, try : Tries, at : {"check", "act", "sleep", "answer"}]

VARIABLES
    boot,                   \* how often the device has started
    nextId,                 \* telemetry's request_id, in RAM
    tries,                  \* per open reading of this boot: tries made
    exchange,               \* the connection the HTTP worker waits on
    handlers,               \* threads of the server
    processed,              \* processed_messages
    effects,                \* history: side effects executed per reading
    acked,                  \* history: readings the device saw answered 200
    serverRestarts

device == <<boot, nextId, tries, exchange>>
vars == <<device, handlers, processed, effects, acked, serverRestarts>>

Open == DOMAIN tries
Nothing == [reading |-> [boot |-> 0, id |-> 0], try |-> 0]

TypeOK ==
    /\ boot \in 0 .. MaxReboots
    /\ nextId \in 1 .. MaxId + 1
    /\ Open \subseteq Readings
    /\ tries \in [Open -> 0 .. MaxRetries + 1]
    /\ exchange \in [reading : Readings, try : Tries] \cup {Nothing}
    /\ handlers \subseteq Handlers
    /\ processed \subseteq 1 .. MaxId
    /\ effects \in [Readings -> Nat]
    /\ acked \subseteq Readings
    /\ serverRestarts \in 0 .. MaxServerRestarts

Init ==
    /\ boot = 0 /\ nextId = 1 /\ tries = <<>> /\ exchange = Nothing
    /\ handlers = {} /\ processed = {}
    /\ effects = [r \in Readings |-> 0]
    /\ acked = {}
    /\ serverRestarts = 0

-----------------------------------------------------------------------------
(* The device.                                                             *)

\* telemetry_worker_task: the id is used up even when the reading cannot be
\* serialised or is too long, and no request is made of it.
DeviceMakesReading ==
    /\ nextId <= MaxId
    /\ nextId' = nextId + 1
    /\ \/ LET r == [boot |-> boot, id |-> nextId]
          IN  tries' = [x \in Open \cup {r} |-> IF x = r THEN 0 ELSE tries[x]]
       \/ UNCHANGED tries
    /\ UNCHANGED <<boot, exchange, handlers, processed, effects, acked, serverRestarts>>

\* http_client_worker_task begins an exchange; the request may be lost.
DeviceTries(r) ==
    /\ exchange = Nothing
    /\ tries' = [tries EXCEPT ![r] = @ + 1]
    /\ exchange' = [reading |-> r, try |-> tries[r] + 1]
    /\ \/ handlers' = handlers \cup
                      {[reading |-> r, try |-> tries[r] + 1, at |-> "check"]}
       \/ UNCHANGED handlers
    /\ UNCHANGED <<boot, nextId, processed, effects, acked, serverRestarts>>

Forget(r) == [x \in Open \ {r} |-> tries[x]]

OutOfTries(r) == tries[r] > MaxRetries

\* No answer within the client's time-out: retried, or given up.
DeviceTimesOut ==
    /\ exchange # Nothing
    /\ exchange' = Nothing
    /\ tries' = IF OutOfTries(exchange.reading)
                THEN Forget(exchange.reading) ELSE tries
    /\ UNCHANGED <<boot, nextId, handlers, processed, effects, acked, serverRestarts>>

\* A restart empties every queue and starts the ids again.
DeviceReboots ==
    /\ boot < MaxReboots
    /\ boot' = boot + 1
    /\ nextId' = 1
    /\ tries' = <<>>
    /\ exchange' = Nothing
    /\ UNCHANGED <<handlers, processed, effects, acked, serverRestarts>>

-----------------------------------------------------------------------------
(* RequestHandler.do_POST, one thread per connection.                      *)

Becomes(h, at) == handlers' = (handlers \ {h}) \cup {[h EXCEPT !.at = at]}

\* Mutant: the server keeps the highest id only and takes the lower ones for known.
Known_BelowHighest(h) == \E id \in processed : h.reading.id <= id
Known(h) == h.reading.id \in processed

\* Mutant: the key is not added under the lock that checked it.
Remembered_Later(h) == processed
Remembered(h) == processed \cup {h.reading.id}

\* Under processed_messages_lock.
HandlerChecks(h) ==
    /\ h.at = "check"
    /\ \/ /\ Known(h)
          /\ Becomes(h, "answer")
          /\ UNCHANGED processed
       \/ /\ ~Known(h)
          /\ processed' = Remembered(h)
          /\ Becomes(h, "act")
    /\ UNCHANGED <<device, effects, acked, serverRestarts>>

\* The side effect, and then 15 seconds of silence: no answer is sent.
HandlerActs(h) ==
    /\ h.at = "act"
    /\ effects' = [effects EXCEPT ![h.reading] = @ + 1]
    /\ Becomes(h, "sleep")
    /\ UNCHANGED <<device, processed, acked, serverRestarts>>

HandlerReturns(h) ==
    /\ h.at = "sleep"
    /\ handlers' = handlers \ {h}
    /\ UNCHANGED <<device, processed, effects, acked, serverRestarts>>

\* 200 "duplicate".  It is lost when the device no longer waits for it.
HandlerAnswers(h) ==
    /\ h.at = "answer"
    /\ handlers' = handlers \ {h}
    /\ \/ /\ exchange = [reading |-> h.reading, try |-> h.try]
          /\ exchange' = Nothing
          /\ tries' = Forget(h.reading)
          /\ acked' = acked \cup {h.reading}
       \/ UNCHANGED <<tries, exchange, acked>>
    /\ UNCHANGED <<boot, nextId, processed, effects, serverRestarts>>

\* processed_messages and the threads are gone.
ServerRestarts ==
    /\ serverRestarts < MaxServerRestarts
    /\ serverRestarts' = serverRestarts + 1
    /\ processed' = {}
    /\ handlers' = {}
    /\ UNCHANGED <<device, effects, acked>>

Device == \/ DeviceMakesReading
          \/ \E r \in Open : DeviceTries(r)
          \/ DeviceTimesOut
          \/ DeviceReboots
Server == \/ \E h \in handlers : \/ HandlerChecks(h) \/ HandlerActs(h)
                                 \/ HandlerReturns(h) \/ HandlerAnswers(h)
          \/ ServerRestarts

Next == Device \/ Server

Spec == Init /\ [][Next]_vars

-----------------------------------------------------------------------------
\* Between restarts of the server a message takes effect at most once, however
\* often it is sent, even when a retry overtakes the thread of the try before;
\* in all, at most once per life of the server that forgot it.
EffectOncePerLife ==
    /\ \A r \in Readings : effects[r] <= 1 + serverRestarts
    /\ \A i \in 1 .. MaxId :
          Cardinality({r \in Readings : r.id = i /\ effects[r] > 0}) <= 1 + serverRestarts

\* A message the device was told is done has taken effect, or its first thread
\* is about to act.
Done(r) == effects[r] > 0 \/ \E h \in handlers : h.reading = r /\ h.at = "act"

\* An answer is true as long as neither end has forgotten anything: the device
\* numbers its readings from 1 for the first time, and no thread of the server
\* has died between the check of a key and the effect.
AnswerIsTrueAtFirst ==
    \A r \in acked : r.boot = 0 /\ serverRestarts = 0 => Done(r)

\* "200 OK to stop ESP32 retry" answers a message that was processed before.
AnswerIsTrue == \A r \in acked : Done(r)
=============================================================================
