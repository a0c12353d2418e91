----------------------- MODULE TelemetryDelivery_proofs -----------------------
(***************************************************************************)
(* What the server's memory of keys guarantees, for any number of          *)
(* readings, retries and restarts of both ends.                            *)
(***************************************************************************)
EXTENDS TelemetryDelivery, FiniteSetTheorems, TLAPS

\* The device only tries readings of this boot, each MaxRetries + 1 times.
DeviceInv ==
    /\ \A r \in Open : r.boot = boot /\ r.id < nextId
    /\ exchange # Nothing => exchange.reading \in Open
    /\ \A r \in Open : tries[r] <= MaxRetries \/ exchange.reading = r

\* Who is about to act has put its key into processed_messages, alone.
Acting(i) == \E h \in handlers : h.reading.id = i /\ h.at = "act"
ServerInv ==
    /\ \A h \in handlers : h.reading.boot <= boot
    /\ \A h \in handlers : h.at # "check" => h.reading.id \in processed
    /\ \A h, g \in handlers :
          h.at = "act" /\ g.at = "act" /\ h.reading.id = g.reading.id => h = g

\* The lives of the server that may have seen key i, except the one in which
\* the effect is still to come.
Lives(i) == serverRestarts + (IF i \in processed /\ ~Acting(i) THEN 1 ELSE 0)
Affected(i) == {r \in Readings : r.id = i /\ effects[r] > 0}
EffectInv ==
    /\ \A r \in Readings : effects[r] <= Lives(r.id)
    /\ \A i \in 1 .. MaxId : IsFiniteSet(Affected(i)) /\ Cardinality(Affected(i)) <= Lives(i)

\* In the server's first life a key it knows stands for a reading that is done.
FirstLifeInv ==
    /\ \A r \in Readings : effects[r] > 0 => r.boot <= boot
    /\ serverRestarts = 0 =>
           \A i \in processed : \E r \in Readings : r.id = i /\ r.boot <= boot /\ Done(r)
    /\ AnswerIsTrueAtFirst

DeliveryInv == TypeOK /\ DeviceInv /\ ServerInv

-----------------------------------------------------------------------------
LEMMA DeliveryStarts == Init => DeliveryInv
<1> SUFFICES ASSUME Init PROVE DeliveryInv
  OBVIOUS
<1> USE BoundAssumption DEF Init
<1>1. 0 \in 0 .. MaxReboots /\ 1 \in 1 .. MaxId + 1 /\ 0 \in 0 .. MaxServerRestarts
  OBVIOUS
<1>2. Open = {}
  BY DEF Open
<1>3. TypeOK
  BY <1>1, <1>2 DEF TypeOK
<1>4. DeviceInv
  BY <1>2 DEF DeviceInv
<1> QED BY <1>3, <1>4 DEF DeliveryInv, ServerInv

LEMMA NothingIsNoReading == Nothing.reading \notin Readings
BY DEF Nothing, Readings

LEMMA ForgetTyped ==
    ASSUME TypeOK, NEW r
    PROVE  DOMAIN Forget(r) = Open \ {r} /\ \A x \in Open \ {r} : Forget(r)[x] = tries[x]
BY DEF Forget, TypeOK

LEMMA DeviceMakes == ASSUME DeliveryInv, DeviceMakesReading PROVE DeliveryInv'
<1> DEFINE r == [boot |-> boot, id |-> nextId]
<1>1. r \in Readings
  BY BoundAssumption DEF DeviceMakesReading, DeliveryInv, TypeOK, Readings
<1>2. tries' = [x \in Open \cup {r} |-> IF x = r THEN 0 ELSE tries[x]] \/ tries' = tries
  BY DEF DeviceMakesReading
<1>3. nextId' = nextId + 1 /\ nextId \in Nat /\ nextId' \in 1 .. MaxId + 1
  BY BoundAssumption DEF DeviceMakesReading, DeliveryInv, TypeOK
<1>4. UNCHANGED <<boot, exchange, handlers, processed, effects, acked, serverRestarts>>
  BY DEF DeviceMakesReading
<1>5. r.boot = boot /\ r.id = nextId
  OBVIOUS
<1> HIDE DEF r
<1>6. /\ Open' = Open \cup {r} \/ Open' = Open
      /\ \A x \in Open' : tries'[x] = 0 \/ (x \in Open /\ tries'[x] = tries[x])
  <2>1. CASE tries' = [x \in Open \cup {r} |-> IF x = r THEN 0 ELSE tries[x]]
    BY <2>1 DEF Open
  <2>2. CASE tries' = tries
    BY <2>2 DEF Open
  <2> QED BY <1>2, <2>1, <2>2
<1>7. TypeOK'
  <2>1. tries' \in [Open' -> 0 .. MaxRetries + 1]
    <3>1. tries' = [x \in Open' |-> tries'[x]]
      BY <1>2 DEF Open, DeliveryInv, TypeOK
    <3>2. \A x \in Open' : tries'[x] \in 0 .. MaxRetries + 1
      BY <1>6, BoundAssumption DEF DeliveryInv, TypeOK
    <3> QED BY <3>1, <3>2
  <2> QED BY <1>1, <1>3, <1>4, <1>6, <2>1 DEF DeliveryInv, TypeOK
<1>8. DeviceInv'
  <2>1. ASSUME NEW x \in Open' PROVE x.boot = boot' /\ x.id < nextId'
    <3>1. CASE x = r
      BY <1>3, <1>4, <1>5, <3>1
    <3>2. CASE x \in Open
      <4>1. x.id \in Nat /\ x.id < nextId
        BY <3>2, BoundAssumption DEF DeliveryInv, DeviceInv, TypeOK, Readings
      <4> QED BY <1>3, <1>4, <3>2, <4>1 DEF DeliveryInv, DeviceInv
    <3> QED BY <1>6, <3>1, <3>2
  <2>2. \A x \in Open' : tries'[x] <= MaxRetries \/ exchange'.reading = x
    BY <1>4, <1>6, BoundAssumption DEF DeliveryInv, DeviceInv
  <2>3. Open \subseteq Open'
    BY <1>6
  <2> QED BY <1>4, <2>1, <2>2, <2>3 DEF DeliveryInv, DeviceInv
<1>9. ServerInv'
  BY <1>4 DEF DeliveryInv, ServerInv
<1> QED BY <1>7, <1>8, <1>9 DEF DeliveryInv

LEMMA DeviceSends == ASSUME DeliveryInv, NEW r \in Open, DeviceTries(r) PROVE DeliveryInv'
<1> DEFINE h == [reading |-> r, try |-> tries[r] + 1, at |-> "check"]
<1> USE BoundAssumption
<1>1. r \in Readings /\ tries[r] \in 0 .. MaxRetries + 1 /\ exchange = Nothing
  BY DEF DeviceTries, DeliveryInv, TypeOK
<1>2. \A x \in Open : tries[x] <= MaxRetries
  BY <1>1, NothingIsNoReading DEF DeliveryInv, DeviceInv, TypeOK
<1>3. tries[r] + 1 \in Tries
  BY <1>1, <1>2 DEF Tries
<1>4. Open' = Open /\ tries' \in [Open -> 0 .. MaxRetries + 1]
      /\ \A x \in Open : x # r => tries'[x] = tries[x]
  BY <1>3 DEF DeviceTries, DeliveryInv, TypeOK, Tries, Open
<1>5. exchange' = [reading |-> r, try |-> tries[r] + 1]
  BY DEF DeviceTries
<1>6. h \in Handlers /\ h.at = "check" /\ h.reading = r
  BY <1>1, <1>3 DEF Handlers
<1> HIDE DEF h
<1>7. UNCHANGED <<boot, nextId, processed, effects, acked, serverRestarts>>
  BY DEF DeviceTries
<1>8. handlers' \subseteq handlers \cup {h}
  BY DEF DeviceTries, h
<1>9. TypeOK'
  BY <1>1, <1>3, <1>4, <1>5, <1>6, <1>7, <1>8 DEF DeliveryInv, TypeOK
<1>10. exchange'.reading = r
  BY <1>5
<1>11. DeviceInv'
  BY <1>2, <1>4, <1>7, <1>10 DEF DeliveryInv, DeviceInv
<1>12. r.boot <= boot
  BY DEF DeliveryInv, DeviceInv, TypeOK
<1>13. ServerInv'
  BY <1>6, <1>7, <1>8, <1>12 DEF DeliveryInv, ServerInv
<1> QED BY <1>9, <1>11, <1>13 DEF DeliveryInv

LEMMA DeviceStops == ASSUME DeliveryInv, DeviceTimesOut \/ DeviceReboots PROVE DeliveryInv'
<1>1. CASE DeviceTimesOut
  <2>1. exchange # Nothing /\ exchange' = Nothing
        /\ UNCHANGED <<boot, nextId, handlers, processed, effects, acked, serverRestarts>>
    BY <1>1 DEF DeviceTimesOut
  <2>2. exchange.reading \in Open
    BY <2>1 DEF DeliveryInv, DeviceInv
  <2>3. Open' \subseteq Open /\ \A x \in Open' : tries'[x] = tries[x] /\ tries[x] <= MaxRetries
    <3>1. CASE OutOfTries(exchange.reading)
      <4>1. tries' = Forget(exchange.reading)
        BY <1>1, <3>1 DEF DeviceTimesOut
      <4> QED BY <4>1, ForgetTyped DEF DeliveryInv, DeviceInv, Open
    <3>2. CASE ~OutOfTries(exchange.reading)
      <4>1. tries' = tries
        BY <1>1, <3>2 DEF DeviceTimesOut
      <4>2. tries[exchange.reading] <= MaxRetries
        BY <2>2, <3>2, BoundAssumption DEF OutOfTries, DeliveryInv, TypeOK
      <4> QED BY <4>1, <4>2 DEF DeliveryInv, DeviceInv, Open
    <3> QED BY <3>1, <3>2
  <2>4. tries' \in [Open' -> 0 .. MaxRetries + 1]
    <3>1. tries' = [x \in Open' |-> tries'[x]]
      BY <1>1 DEF DeviceTimesOut, Forget, DeliveryInv, TypeOK, Open
    <3> QED BY <2>3, <3>1 DEF DeliveryInv, TypeOK
  <2>5. TypeOK'
    BY <2>1, <2>3, <2>4 DEF DeliveryInv, TypeOK
  <2>6. DeviceInv'
    BY <2>1, <2>3 DEF DeliveryInv, DeviceInv
  <2>7. ServerInv'
    BY <2>1 DEF DeliveryInv, ServerInv
  <2> QED BY <2>5, <2>6, <2>7 DEF DeliveryInv
<1>2. CASE DeviceReboots
  <2>1. Open' = {} /\ tries' = <<>> /\ exchange' = Nothing /\ nextId' = 1 /\ boot' = boot + 1
        /\ UNCHANGED <<handlers, processed, effects, acked, serverRestarts>>
    BY <1>2 DEF DeviceReboots, Open
  <2>2. TypeOK'
    BY <1>2, <2>1, BoundAssumption DEF DeviceReboots, DeliveryInv, TypeOK
  <2>3. DeviceInv'
    BY <2>1 DEF DeviceInv
  <2>4. ServerInv'
    <3>1. ASSUME NEW h \in handlers PROVE h.reading.boot <= boot + 1
      <4>1. h.reading.boot \in Nat /\ boot \in Nat
        BY BoundAssumption DEF DeliveryInv, TypeOK, Handlers, Readings
      <4> QED BY <4>1 DEF DeliveryInv, ServerInv
    <3> QED BY <2>1, <3>1 DEF DeliveryInv, ServerInv
  <2> QED BY <2>2, <2>3, <2>4 DEF DeliveryInv
<1> QED BY <1>1, <1>2

-----------------------------------------------------------------------------
(* A thread of the server makes a step, or all are gone.                   *)

Moved(h, at) == [h EXCEPT !.at = at]

LEMMA MovedTyped ==
    ASSUME NEW h \in Handlers, NEW at \in {"check", "act", "sleep", "answer"}
    PROVE  Moved(h, at) \in Handlers /\ Moved(h, at).reading = h.reading /\ Moved(h, at).at = at
BY DEF Moved, Handlers

LEMMA ServerKeepsDevice ==
    ASSUME DeliveryInv, UNCHANGED device
    PROVE  DeviceInv'
BY DEF DeliveryInv, DeviceInv, device, Open

LEMMA ServerKeepsTypes ==
    ASSUME DeliveryInv, UNCHANGED device, UNCHANGED <<acked, serverRestarts>>,
           handlers' \subseteq Handlers, processed' \subseteq 1 .. MaxId,
           effects' \in [Readings -> Nat]
    PROVE  TypeOK'
BY DEF DeliveryInv, TypeOK, device, Open

LEMMA HandlerSteps ==
    ASSUME DeliveryInv, NEW h \in handlers,
           HandlerChecks(h) \/ HandlerActs(h) \/ HandlerReturns(h)
    PROVE  DeliveryInv'
<1>1. h \in Handlers /\ h.reading \in Readings /\ h.reading.id \in 1 .. MaxId
  BY DEF DeliveryInv, TypeOK, Handlers, Readings
<1>2. UNCHANGED device /\ UNCHANGED <<acked, serverRestarts>>
  BY DEF HandlerChecks, HandlerActs, HandlerReturns
<1>3. DeviceInv'
  BY <1>2, ServerKeepsDevice
<1>4. CASE HandlerChecks(h)
  <2>1. CASE Known(h)
    <3>1. handlers' = (handlers \ {h}) \cup {Moved(h, "answer")} /\ processed' = processed
          /\ effects' = effects
      BY <1>4, <2>1 DEF HandlerChecks, Becomes, Moved
    <3>2. TypeOK'
      <4>1. /\ handlers' \subseteq Handlers /\ processed' \subseteq 1 .. MaxId
            /\ effects' \in [Readings -> Nat]
        BY <1>1, <3>1, MovedTyped DEF DeliveryInv, TypeOK
      <4> QED BY <1>2, <4>1, ServerKeepsTypes
    <3>3. ServerInv'
      BY <1>1, <1>2, <2>1, <3>1, MovedTyped DEF DeliveryInv, ServerInv, device, Known
    <3> QED BY <1>3, <3>2, <3>3 DEF DeliveryInv
  <2>2. CASE ~Known(h)
    <3>1. handlers' = (handlers \ {h}) \cup {Moved(h, "act")}
          /\ processed' = processed \cup {h.reading.id} /\ effects' = effects
      BY <1>4, <2>2 DEF HandlerChecks, Becomes, Moved, Remembered
    <3>2. TypeOK'
      <4>1. /\ handlers' \subseteq Handlers /\ processed' \subseteq 1 .. MaxId
            /\ effects' \in [Readings -> Nat]
        BY <1>1, <3>1, MovedTyped DEF DeliveryInv, TypeOK
      <4> QED BY <1>2, <4>1, ServerKeepsTypes
    <3>3. \A g \in handlers : g.at = "act" => g.reading.id # h.reading.id
      BY <2>2 DEF Known, DeliveryInv, ServerInv
    <3>4. ServerInv'
      BY <1>1, <1>2, <3>1, <3>3, MovedTyped DEF DeliveryInv, ServerInv, device
    <3> QED BY <1>3, <3>2, <3>4 DEF DeliveryInv
  <2> QED BY <2>1, <2>2
<1>5. CASE HandlerActs(h)
  <2>1. handlers' = (handlers \ {h}) \cup {Moved(h, "sleep")} /\ processed' = processed
        /\ effects' = [effects EXCEPT ![h.reading] = @ + 1] /\ h.at = "act"
    BY <1>5 DEF HandlerActs, Becomes, Moved
  <2>2. TypeOK'
    <3>1. handlers' \subseteq Handlers /\ processed' \subseteq 1 .. MaxId
      BY <1>1, <2>1, MovedTyped DEF DeliveryInv, TypeOK
    <3>2. effects' \in [Readings -> Nat]
      BY <1>1, <2>1 DEF DeliveryInv, TypeOK
    <3> QED BY <1>2, <3>1, <3>2, ServerKeepsTypes
  <2>3. ServerInv'
    BY <1>1, <1>2, <2>1, MovedTyped DEF DeliveryInv, ServerInv, device
  <2> QED BY <1>3, <2>2, <2>3 DEF DeliveryInv
<1>6. CASE HandlerReturns(h)
  <2>1. handlers' = handlers \ {h} /\ processed' = processed /\ effects' = effects
    BY <1>6 DEF HandlerReturns
  <2>2. TypeOK'
    BY <1>2, <2>1, ServerKeepsTypes DEF DeliveryInv, TypeOK
  <2>3. ServerInv'
    BY <1>2, <2>1 DEF DeliveryInv, ServerInv, device
  <2> QED BY <1>3, <2>2, <2>3 DEF DeliveryInv
<1> QED BY <1>4, <1>5, <1>6

LEMMA HandlerReplies ==
    ASSUME DeliveryInv, NEW h \in handlers, HandlerAnswers(h)
    PROVE  DeliveryInv'
<1>1. handlers' = handlers \ {h}
      /\ UNCHANGED <<boot, nextId, processed, effects, serverRestarts>>
  BY DEF HandlerAnswers
<1>2. ServerInv'
  BY <1>1 DEF DeliveryInv, ServerInv
<1>3. CASE exchange = [reading |-> h.reading, try |-> h.try] /\ exchange' = Nothing
           /\ tries' = Forget(h.reading) /\ acked' = acked \cup {h.reading}
  <2>1. exchange.reading = h.reading /\ h.reading \in Readings
    BY <1>3 DEF DeliveryInv, TypeOK, Handlers
  <2>2. Open' = Open \ {h.reading} /\ \A x \in Open' : tries'[x] = tries[x]
    BY <1>3, ForgetTyped DEF DeliveryInv, Open
  <2>3. tries' \in [Open' -> 0 .. MaxRetries + 1]
    <3>1. tries' = [x \in Open' |-> tries'[x]]
      BY <1>3 DEF Forget, Open
    <3> QED BY <2>2, <3>1 DEF DeliveryInv, TypeOK
  <2>4. TypeOK'
    BY <1>1, <1>3, <2>1, <2>2, <2>3 DEF DeliveryInv, TypeOK
  <2>5. DeviceInv'
    BY <1>1, <1>3, <2>1, <2>2 DEF DeliveryInv, DeviceInv
  <2> QED BY <1>2, <2>4, <2>5 DEF DeliveryInv
<1>4. CASE UNCHANGED <<tries, exchange, acked>>
  <2>1. TypeOK'
    BY <1>1, <1>4 DEF DeliveryInv, TypeOK, Open
  <2>2. DeviceInv'
    BY <1>1, <1>4 DEF DeliveryInv, DeviceInv, Open
  <2> QED BY <1>2, <2>1, <2>2 DEF DeliveryInv
<1> QED BY <1>3, <1>4 DEF HandlerAnswers

LEMMA DeliveryStep == DeliveryInv /\ [Next]_vars => DeliveryInv'
<1> SUFFICES ASSUME DeliveryInv, [Next]_vars PROVE DeliveryInv'
  OBVIOUS
<1>1. CASE Device
  BY <1>1, DeviceMakes, DeviceSends, DeviceStops DEF Device
<1>2. CASE \E h \in handlers : \/ HandlerChecks(h) \/ HandlerActs(h)
                                \/ HandlerReturns(h) \/ HandlerAnswers(h)
  BY <1>2, HandlerSteps, HandlerReplies
<1>3. CASE ServerRestarts
  <2>1. processed' = {} /\ handlers' = {} /\ serverRestarts' = serverRestarts + 1
        /\ serverRestarts < MaxServerRestarts /\ UNCHANGED device
        /\ UNCHANGED <<effects, acked>>
    BY <1>3 DEF ServerRestarts
  <2>2. serverRestarts' \in 0 .. MaxServerRestarts
    BY <2>1, BoundAssumption DEF DeliveryInv, TypeOK
  <2>3. TypeOK'
    BY <2>1, <2>2 DEF DeliveryInv, TypeOK, device, Open
  <2>4. DeviceInv'
    BY <2>1, ServerKeepsDevice
  <2> QED BY <2>1, <2>3, <2>4 DEF DeliveryInv, ServerInv
<1>4. CASE UNCHANGED vars
  <2>1. UNCHANGED device /\ UNCHANGED <<handlers, processed, effects, acked, serverRestarts>>
    BY <1>4 DEF vars
  <2>2. TypeOK'
    BY <2>1 DEF DeliveryInv, TypeOK, device, Open
  <2>3. ServerInv'
    BY <2>1 DEF DeliveryInv, ServerInv, device
  <2> QED BY <2>1, <2>2, <2>3, ServerKeepsDevice DEF DeliveryInv
<1> QED BY <1>1, <1>2, <1>3, <1>4 DEF Next, Server

LEMMA DeliveryThroughout == Spec => []DeliveryInv
BY DeliveryStarts, DeliveryStep, PTL DEF Spec

-----------------------------------------------------------------------------
(* How often a message takes effect.                                       *)

LEMMA LivesTyped ==
    ASSUME TypeOK, NEW i
    PROVE  Lives(i) \in Nat /\ Lives(i) \in {serverRestarts, serverRestarts + 1}
BY BoundAssumption DEF TypeOK, Lives

LEMMA LivesTypedAfter ==
    ASSUME DeliveryInv', NEW i
    PROVE  Lives(i)' \in Nat
<1>1. serverRestarts' \in Nat
  BY BoundAssumption DEF DeliveryInv, TypeOK
<1>2. ASSUME NEW n \in Nat PROVE n + 0 \in Nat /\ n + 1 \in Nat
  OBVIOUS
<1>3. Lives(i)' = serverRestarts' + 1 \/ Lives(i)' = serverRestarts' + 0
  BY DEF Lives
<1> QED BY <1>1, <1>2, <1>3, Zenon

\* As long as no effect is added, the bounds only have to stay.
LEMMA NoNewEffect ==
    ASSUME DeliveryInv, DeliveryInv', EffectInv, effects' = effects,
           \A i \in 1 .. MaxId : Lives(i) <= Lives(i)'
    PROVE  EffectInv'
<1>1. \A i \in 1 .. MaxId : Affected(i)' = Affected(i)
  BY DEF Affected
<1>2. ASSUME NEW i \in 1 .. MaxId PROVE Lives(i) \in Nat /\ Lives(i)' \in Nat
  <2>1. Lives(i) \in Nat
    BY LivesTyped DEF DeliveryInv
  <2>2. Lives(i)' \in Nat
    BY LivesTypedAfter
  <2> QED BY <2>1, <2>2
<1>3. ASSUME NEW r \in Readings PROVE effects'[r] <= Lives(r.id)'
  <2>1. r.id \in 1 .. MaxId /\ effects[r] \in Nat
    BY DEF Readings, DeliveryInv, TypeOK
  <2>2. effects[r] <= Lives(r.id)
    BY DEF EffectInv
  <2>3. Lives(r.id) <= Lives(r.id)' /\ Lives(r.id) \in Nat /\ Lives(r.id)' \in Nat
    BY <1>2, <2>1
  <2> QED BY <2>1, <2>2, <2>3
<1>4. ASSUME NEW i \in 1 .. MaxId
      PROVE  IsFiniteSet(Affected(i)') /\ Cardinality(Affected(i)') <= Lives(i)'
  <2>1. IsFiniteSet(Affected(i)) /\ Cardinality(Affected(i)) <= Lives(i)
    BY DEF EffectInv
  <2>2. Cardinality(Affected(i)) \in Nat
    BY <2>1, FS_CardinalityType
  <2> QED BY <1>1, <1>2, <2>1, <2>2
<1> QED BY <1>3, <1>4 DEF EffectInv

LEMMA EffectStarts == Init => EffectInv
<1> SUFFICES ASSUME Init PROVE EffectInv
  OBVIOUS
<1>1. \A i : Affected(i) = {}
  BY DEF Init, Affected
<1>2. \A i : Lives(i) = 0
  BY DEF Init, Lives
<1>3. \A r \in Readings : effects[r] = 0
  BY DEF Init
<1> QED BY <1>1, <1>2, <1>3, FS_EmptySet DEF EffectInv

\* The thread that acts was the only one to count for its key.
LEMMA EffectAdded ==
    ASSUME DeliveryInv, DeliveryInv', EffectInv, NEW h \in handlers, HandlerActs(h)
    PROVE  EffectInv'
<1> DEFINE k == h.reading.id
<1>1. /\ h.at = "act" /\ h.reading \in Readings /\ k \in processed /\ k \in 1 .. MaxId
      /\ effects' = [effects EXCEPT ![h.reading] = @ + 1]
      /\ handlers' = (handlers \ {h}) \cup {Moved(h, "sleep")}
      /\ processed' = processed /\ serverRestarts' = serverRestarts
      /\ serverRestarts \in Nat
  BY BoundAssumption
     DEF HandlerActs, Becomes, Moved, DeliveryInv, ServerInv, TypeOK, Handlers, Readings
<1>2. Moved(h, "sleep").reading.id = k /\ Moved(h, "sleep").at = "sleep"
  BY MovedTyped DEF DeliveryInv, TypeOK
<1>3. Acting(k) /\ ~Acting(k)'
  BY <1>1, <1>2 DEF Acting, DeliveryInv, ServerInv
<1>4. \A i : i # k => (Acting(i)' <=> Acting(i))
  BY <1>1, <1>2 DEF Acting
<1>5. Lives(k) = serverRestarts /\ Lives(k)' = serverRestarts + 1
  BY <1>1, <1>3 DEF Lives
<1>6. \A i : i # k => Lives(i)' = Lives(i)
  BY <1>1, <1>4 DEF Lives
<1> HIDE DEF k
<1>7. ASSUME NEW r \in Readings PROVE effects'[r] <= Lives(r.id)'
  <2>1. effects[r] \in Nat /\ effects[r] <= Lives(r.id)
    BY DEF DeliveryInv, TypeOK, EffectInv
  <2>2. CASE r.id # k
    <3>1. effects'[r] = effects[r]
      BY <1>1, <2>2 DEF DeliveryInv, TypeOK, k
    <3> QED BY <1>6, <2>1, <2>2, <3>1
  <2>3. CASE r.id = k
    <3>1. effects'[r] \in {effects[r], effects[r] + 1}
      BY <1>1 DEF DeliveryInv, TypeOK
    <3> QED BY <1>1, <1>5, <2>1, <2>3, <3>1
  <2> QED BY <2>2, <2>3
<1>8. ASSUME NEW i \in 1 .. MaxId
      PROVE  IsFiniteSet(Affected(i)') /\ Cardinality(Affected(i)') <= Lives(i)'
  <2>1. IsFiniteSet(Affected(i)) /\ Cardinality(Affected(i)) <= Lives(i)
    BY DEF EffectInv
  <2>2. CASE i # k
    <3>1. Affected(i)' = Affected(i)
      <4>1. \A r \in Readings : r.id = i => effects'[r] = effects[r]
        BY <1>1, <2>2 DEF DeliveryInv, TypeOK, k
      <4> QED BY <4>1 DEF Affected
    <3> QED BY <1>6, <2>1, <2>2, <3>1
  <2>3. CASE i = k
    <3>1. Affected(k)' \subseteq Affected(k) \cup {h.reading}
      BY <1>1 DEF Affected, DeliveryInv, TypeOK
    <3>2. /\ IsFiniteSet(Affected(k) \cup {h.reading})
          /\ Cardinality(Affected(k) \cup {h.reading}) <= Cardinality(Affected(k)) + 1
          /\ Cardinality(Affected(k)) \in Nat
      <4>1. IsFiniteSet(Affected(k)) /\ Cardinality(Affected(k)) \in Nat
        BY <2>1, <2>3, FS_CardinalityType
      <4>2. /\ IsFiniteSet(Affected(k) \cup {h.reading})
            /\ Cardinality(Affected(k) \cup {h.reading}) =
                  IF h.reading \in Affected(k) THEN Cardinality(Affected(k))
                  ELSE Cardinality(Affected(k)) + 1
        BY <4>1, FS_AddElement
      <4> QED BY <4>1, <4>2
    <3>3. /\ IsFiniteSet(Affected(k)')
          /\ Cardinality(Affected(k)') <= Cardinality(Affected(k) \cup {h.reading})
      BY <3>1, <3>2, FS_Subset
    <3>4. /\ Cardinality(Affected(k)') \in Nat
          /\ Cardinality(Affected(k) \cup {h.reading}) \in Nat
      BY <3>2, <3>3, FS_CardinalityType
    <3> QED BY <1>1, <1>5, <2>1, <2>3, <3>2, <3>3, <3>4
  <2> QED BY <2>2, <2>3
<1> QED BY <1>7, <1>8 DEF EffectInv

LEMMA EffectStep == DeliveryInv /\ DeliveryInv' /\ EffectInv /\ [Next]_vars => EffectInv'
<1> SUFFICES ASSUME DeliveryInv, DeliveryInv', EffectInv, [Next]_vars PROVE EffectInv'
  OBVIOUS
<1>1. \A h \in handlers : h \in Handlers
  BY DEF DeliveryInv, TypeOK
<1>2. \A i : Lives(i) \in Nat
  BY LivesTyped DEF DeliveryInv
<1>3. ASSUME \A i : Acting(i)' <=> Acting(i), processed' = processed,
             serverRestarts' = serverRestarts, effects' = effects
      PROVE  EffectInv'
  <2>1. \A i : Lives(i)' = Lives(i)
    BY <1>3 DEF Lives
  <2> QED BY <1>2, <1>3, <2>1, NoNewEffect
<1>4. CASE Device
  <2>1. \A i : Acting(i)' <=> Acting(i)
    BY <1>4 DEF Device, DeviceMakesReading, DeviceTries, DeviceTimesOut, DeviceReboots, Acting
  <2>2. processed' = processed /\ serverRestarts' = serverRestarts /\ effects' = effects
    BY <1>4 DEF Device, DeviceMakesReading, DeviceTries, DeviceTimesOut, DeviceReboots
  <2> QED BY <1>3, <2>1, <2>2
<1>5. ASSUME NEW h \in handlers, HandlerChecks(h) PROVE EffectInv'
  <2>1. h.at = "check" /\ effects' = effects /\ serverRestarts' = serverRestarts
    BY <1>5 DEF HandlerChecks
  <2>2. CASE Known(h)
    <3>1. handlers' = (handlers \ {h}) \cup {Moved(h, "answer")} /\ processed' = processed
      BY <1>5, <2>2 DEF HandlerChecks, Becomes, Moved
    <3>2. Moved(h, "answer").at = "answer"
      BY <1>1, MovedTyped
    <3>3. \A i : Acting(i)' <=> Acting(i)
      BY <2>1, <3>1, <3>2 DEF Acting
    <3> QED BY <1>3, <2>1, <3>1, <3>3
  <2>3. CASE ~Known(h)
    <3>1. handlers' = (handlers \ {h}) \cup {Moved(h, "act")}
          /\ processed' = processed \cup {h.reading.id}
      BY <1>5, <2>3 DEF HandlerChecks, Becomes, Moved, Remembered
    <3>2. Moved(h, "act").at = "act" /\ Moved(h, "act").reading = h.reading
      BY <1>1, MovedTyped
    <3>3. \A i : i # h.reading.id => (Acting(i)' <=> Acting(i))
      BY <2>1, <3>1, <3>2 DEF Acting
    <3>4. Acting(h.reading.id)'
      BY <3>1, <3>2 DEF Acting
    <3>5. \A i : Lives(i)' = Lives(i)
      BY <2>1, <2>3, <3>1, <3>3, <3>4 DEF Lives, Known
    <3> QED BY <1>2, <2>1, <3>5, NoNewEffect
  <2> QED BY <2>2, <2>3
<1>6. ASSUME NEW h \in handlers, HandlerReturns(h) \/ HandlerAnswers(h) PROVE EffectInv'
  <2>1. h.at # "act" /\ handlers' = handlers \ {h} /\ processed' = processed
        /\ effects' = effects /\ serverRestarts' = serverRestarts
    BY <1>6 DEF HandlerReturns, HandlerAnswers
  <2>2. \A i : Acting(i)' <=> Acting(i)
    BY <2>1 DEF Acting
  <2> QED BY <1>3, <2>1, <2>2
<1>7. CASE ServerRestarts
  <2>1. serverRestarts' = serverRestarts + 1 /\ effects' = effects /\ processed' = {}
    BY <1>7 DEF ServerRestarts
  <2>2. \A i : Lives(i)' = serverRestarts + 1
    BY <2>1 DEF Lives
  <2>3. \A i : Lives(i) <= serverRestarts + 1
    BY LivesTyped, BoundAssumption DEF DeliveryInv, TypeOK
  <2> QED BY <2>1, <2>2, <2>3, NoNewEffect
<1>8. CASE UNCHANGED vars
  <2>1. UNCHANGED <<handlers, processed, effects, serverRestarts>>
    BY <1>8 DEF vars
  <2> QED BY <1>3, <2>1 DEF Acting
<1> QED BY <1>4, <1>5, <1>6, <1>7, <1>8, EffectAdded DEF Next, Server

\* Between restarts of the server a message takes effect at most once, however
\* often it is sent and however its threads overtake each other.
THEOREM EffectCorrect == Spec => []EffectOncePerLife
<1>1. DeliveryInv /\ EffectInv => EffectOncePerLife
  <2> SUFFICES ASSUME DeliveryInv, EffectInv PROVE EffectOncePerLife
    OBVIOUS
  <2>1. serverRestarts \in Nat /\ \A i : Lives(i) <= 1 + serverRestarts /\ Lives(i) \in Nat
    BY LivesTyped, BoundAssumption DEF DeliveryInv, TypeOK
  <2>2. \A r \in Readings : effects[r] <= 1 + serverRestarts
    <3> SUFFICES ASSUME NEW r \in Readings PROVE effects[r] <= 1 + serverRestarts
      OBVIOUS
    <3>1. effects[r] \in Nat /\ effects[r] <= Lives(r.id)
      BY DEF DeliveryInv, TypeOK, EffectInv
    <3>2. Lives(r.id) <= 1 + serverRestarts /\ Lives(r.id) \in Nat
      BY <2>1
    <3> QED BY <2>1, <3>1, <3>2
  <2>3. ASSUME NEW i \in 1 .. MaxId
        PROVE  Cardinality({r \in Readings : r.id = i /\ effects[r] > 0}) <= 1 + serverRestarts
    <3>1. IsFiniteSet(Affected(i)) /\ Cardinality(Affected(i)) <= Lives(i)
      BY DEF EffectInv
    <3>2. Cardinality(Affected(i)) \in Nat
      BY <3>1, FS_CardinalityType
    <3>3. Cardinality(Affected(i)) <= 1 + serverRestarts
      BY <2>1, <3>1, <3>2
    <3> QED BY <3>3 DEF Affected
  <2> QED BY <2>2, <2>3 DEF EffectOncePerLife
<1> QED BY <1>1, DeliveryThroughout, EffectStarts, EffectStep, PTL DEF Spec

\* The variables keep their types: no message is tried more than MaxRetries + 1
\* times.
THEOREM DeliveryTypeCorrect == Spec => []TypeOK
<1>1. DeliveryInv => TypeOK
  BY DEF DeliveryInv
<1> QED BY <1>1, DeliveryThroughout, PTL

-----------------------------------------------------------------------------
(* What an answer is worth.                                                *)

LEMMA FirstLifeStarts == Init => FirstLifeInv
BY DEF Init, FirstLifeInv, AnswerIsTrueAtFirst

\* Only a restart of the server undoes what is done.
LEMMA DoneStays ==
    ASSUME DeliveryInv, [Next]_vars, ~ServerRestarts, NEW r \in Readings, Done(r)
    PROVE  Done(r)'
<1>1. \A h \in handlers : h \in Handlers
  BY DEF DeliveryInv, TypeOK
<1>2. CASE Device \/ UNCHANGED vars
  <2>1. handlers \subseteq handlers' /\ effects' = effects
    BY <1>2 DEF Device, DeviceMakesReading, DeviceTries, DeviceTimesOut, DeviceReboots, vars
  <2> QED BY <2>1 DEF Done
<1>3. ASSUME NEW h \in handlers, HandlerActs(h) PROVE Done(r)'
  <2>1. /\ effects' = [effects EXCEPT ![h.reading] = @ + 1]
        /\ handlers \ {h} \subseteq handlers'
    BY <1>3 DEF HandlerActs, Becomes
  <2>2. effects[r] \in Nat /\ effects \in [Readings -> Nat] /\ h.reading \in Readings
    BY <1>1 DEF DeliveryInv, TypeOK, Handlers
  <2>3. CASE r = h.reading
    <3>1. effects'[r] = effects[r] + 1
      BY <2>1, <2>2, <2>3
    <3> QED BY <2>2, <3>1 DEF Done
  <2>4. CASE r # h.reading
    <3>1. effects'[r] = effects[r]
      BY <2>1, <2>2, <2>4
    <3> QED BY <2>1, <2>4, <3>1 DEF Done
  <2> QED BY <2>3, <2>4
<1>4. ASSUME NEW h \in handlers, HandlerChecks(h) \/ HandlerReturns(h) \/ HandlerAnswers(h)
      PROVE  Done(r)'
  <2>1. h.at # "act" /\ effects' = effects /\ handlers \ {h} \subseteq handlers'
    BY <1>4 DEF HandlerChecks, HandlerReturns, HandlerAnswers, Becomes
  <2> QED BY <2>1 DEF Done
<1> QED BY <1>2, <1>3, <1>4 DEF Next, Server

\* A reading that takes effect was made in this boot or an earlier one.
LEMMA EffectsOfThePast ==
    ASSUME DeliveryInv, FirstLifeInv, [Next]_vars,
           NEW r \in Readings, effects'[r] > 0
    PROVE  r.boot <= boot'
<1>1. boot \in Nat /\ r.boot \in Nat /\ effects \in [Readings -> Nat]
  BY BoundAssumption DEF DeliveryInv, TypeOK, Readings
<1>2. boot' \in {boot, boot + 1}
  BY DEF Next, Device, Server, DeviceMakesReading, DeviceTries, DeviceTimesOut, DeviceReboots,
     HandlerChecks, HandlerActs, HandlerReturns, HandlerAnswers, ServerRestarts, vars, device
<1>3. CASE effects' = effects
  BY <1>1, <1>2, <1>3 DEF FirstLifeInv
<1>4. ASSUME NEW h \in handlers, HandlerActs(h) PROVE r.boot <= boot'
  <2>1. h.reading.boot <= boot
    BY DEF DeliveryInv, ServerInv
  <2>2. effects' = [effects EXCEPT ![h.reading] = @ + 1]
    BY <1>4 DEF HandlerActs
  <2>3. r = h.reading \/ effects'[r] = effects[r]
    BY <1>1, <2>2
  <2> QED BY <1>1, <1>2, <2>1, <2>3 DEF FirstLifeInv
<1>5. effects' = effects \/ \E h \in handlers : HandlerActs(h)
  BY DEF Next, Device, Server, DeviceMakesReading, DeviceTries, DeviceTimesOut, DeviceReboots,
     HandlerChecks, HandlerReturns, HandlerAnswers, ServerRestarts, vars
<1> QED BY <1>3, <1>4, <1>5

\* In the first life a new key comes with the thread that acts for it.
LEMMA KnownIsDone ==
    ASSUME DeliveryInv, FirstLifeInv, [Next]_vars, serverRestarts' = 0, NEW i \in processed'
    PROVE  \E r \in Readings : r.id = i /\ r.boot <= boot' /\ Done(r)'
<1>1. serverRestarts = 0 /\ ~ServerRestarts
  <2>1. serverRestarts \in Nat
    BY BoundAssumption DEF DeliveryInv, TypeOK
  <2>2. serverRestarts' \in {serverRestarts, serverRestarts + 1}
        /\ (ServerRestarts => serverRestarts' = serverRestarts + 1)
    BY DEF Next, Device, Server, DeviceMakesReading, DeviceTries, DeviceTimesOut, DeviceReboots,
       HandlerChecks, HandlerActs, HandlerReturns, HandlerAnswers, ServerRestarts, vars
  <2> QED BY <2>1, <2>2
<1>2. boot \in Nat /\ boot' \in {boot, boot + 1}
  <2>1. boot \in Nat
    BY BoundAssumption DEF DeliveryInv, TypeOK
  <2> QED
    BY <2>1 DEF Next, Device, Server, DeviceMakesReading, DeviceTries, DeviceTimesOut,
       DeviceReboots, HandlerChecks, HandlerActs, HandlerReturns, HandlerAnswers, ServerRestarts,
       vars, device
<1>3. CASE i \in processed
  <2>1. PICK r \in Readings : r.id = i /\ r.boot <= boot /\ Done(r)
    BY <1>1, <1>3 DEF FirstLifeInv
  <2>2. Done(r)'
    BY <1>1, <2>1, DoneStays
  <2>3. r.boot <= boot'
    BY <1>2, <2>1 DEF Readings
  <2> QED BY <2>1, <2>2, <2>3
<1>4. CASE i \notin processed
  <2>1. PICK h \in handlers : HandlerChecks(h) /\ processed' # processed
    BY <1>1, <1>4 DEF Next, Device, Server, DeviceMakesReading, DeviceTries, DeviceTimesOut,
       DeviceReboots, HandlerActs, HandlerReturns, HandlerAnswers, vars
  <2>2. h \in Handlers /\ h.reading \in Readings /\ h.reading.boot <= boot
    BY DEF DeliveryInv, TypeOK, ServerInv, Handlers
  <2>3. processed' = processed \cup {h.reading.id} /\ boot' = boot
        /\ Moved(h, "act") \in handlers'
    BY <2>1 DEF HandlerChecks, Becomes, Remembered, Moved, device
  <2>4. Done(h.reading)'
    BY <2>2, <2>3, MovedTyped DEF Done
  <2>5. h.reading.id = i
    BY <1>4, <2>3
  <2> QED BY <2>2, <2>3, <2>4, <2>5
<1> QED BY <1>3, <1>4

\* The device takes an answer for a reading of its own boot, so that in the
\* first one the key stands for this reading and no other.
LEMMA AnswerIsTrueNow ==
    ASSUME DeliveryInv, FirstLifeInv, NEW h \in handlers, HandlerAnswers(h),
           exchange = [reading |-> h.reading, try |-> h.try],
           h.reading.boot = 0, serverRestarts = 0
    PROVE  Done(h.reading)
<1>1. h.reading \in Readings /\ h.reading.id \in processed
  BY DEF HandlerAnswers, DeliveryInv, ServerInv, TypeOK, Handlers
<1>2. exchange.reading = h.reading /\ h.reading \in Open
  BY <1>1, NothingIsNoReading DEF DeliveryInv, DeviceInv
<1>3. boot = 0
  BY <1>2 DEF DeliveryInv, DeviceInv
<1>4. PICK r \in Readings : r.id = h.reading.id /\ r.boot <= boot /\ Done(r)
  BY <1>1 DEF FirstLifeInv
<1>5. r.boot = 0
  BY <1>3, <1>4 DEF Readings
<1>6. r = h.reading
  BY <1>1, <1>4, <1>5 DEF Readings
<1> QED BY <1>4, <1>6

LEMMA FirstLifeStep ==
    DeliveryInv /\ FirstLifeInv /\ [Next]_vars => FirstLifeInv'
<1> SUFFICES ASSUME DeliveryInv, FirstLifeInv, [Next]_vars PROVE FirstLifeInv'
  OBVIOUS
<1>1. \A r \in Readings : effects'[r] > 0 => r.boot <= boot'
  BY EffectsOfThePast
<1>2. serverRestarts' = 0 =>
          \A i \in processed' : \E r \in Readings : r.id = i /\ r.boot <= boot' /\ Done(r)'
  BY KnownIsDone
<1>3. ASSUME NEW r \in acked', r.boot = 0, serverRestarts' = 0 PROVE Done(r)'
  <2>1. serverRestarts = 0 /\ ~ServerRestarts
    <3>1. serverRestarts \in Nat
      BY BoundAssumption DEF DeliveryInv, TypeOK
    <3>2. serverRestarts' \in {serverRestarts, serverRestarts + 1}
          /\ (ServerRestarts => serverRestarts' = serverRestarts + 1)
      BY DEF Next, Device, Server, DeviceMakesReading, DeviceTries, DeviceTimesOut, DeviceReboots,
         HandlerChecks, HandlerActs, HandlerReturns, HandlerAnswers, ServerRestarts, vars
    <3> QED BY <1>3, <3>1, <3>2
  <2>2. CASE r \in acked
    <3>1. r \in Readings /\ Done(r)
      BY <1>3, <2>1, <2>2 DEF FirstLifeInv, AnswerIsTrueAtFirst, DeliveryInv, TypeOK
    <3> QED BY <2>1, <3>1, DoneStays
  <2>3. CASE r \notin acked
    <3>1. PICK h \in handlers : HandlerAnswers(h) /\ acked' # acked
      BY <2>1, <2>3 DEF Next, Device, Server, DeviceMakesReading, DeviceTries, DeviceTimesOut,
         DeviceReboots, HandlerChecks, HandlerActs, HandlerReturns, vars
    <3>2. r = h.reading /\ exchange = [reading |-> h.reading, try |-> h.try]
      BY <2>3, <3>1 DEF HandlerAnswers
    <3>3. Done(r) /\ r \in Readings
      BY <1>3, <2>1, <3>1, <3>2, AnswerIsTrueNow DEF DeliveryInv, TypeOK, Handlers
    <3> QED BY <2>1, <3>3, DoneStays
  <2> QED BY <2>2, <2>3
<1> QED BY <1>1, <1>2, <1>3 DEF FirstLifeInv, AnswerIsTrueAtFirst

\* While neither end has forgotten anything, a message the device was told is
\* done has taken effect, or its first thread is about to act.
THEOREM AnswerCorrect == Spec => []AnswerIsTrueAtFirst
<1>1. FirstLifeInv => AnswerIsTrueAtFirst
  BY DEF FirstLifeInv
<1> QED BY <1>1, DeliveryThroughout, FirstLifeStarts, FirstLifeStep, PTL DEF Spec
=============================================================================
