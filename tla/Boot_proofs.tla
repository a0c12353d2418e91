---------------------------- MODULE Boot_proofs ----------------------------
(***************************************************************************)
(* The published status of WifiStatus for any number of messages, and the  *)
(* boot that waits for it: a boot is, for the status, a behaviour of       *)
(* WifiStatus, so that what is shown of the status holds in every boot.    *)
(***************************************************************************)
EXTENDS Boot, TLAPS

-----------------------------------------------------------------------------
(* The status.                                                             *)

\* The manager only begins a build freshly when no other task publishes any
\* more, so that its copy is still the context when it is stored.
StatusInv ==
    /\ TypeOK
    /\ freshBuild => initPc = "returned"
    /\ freshBuild /\ managerPc = "store" => managerCopy = Ctx
    /\ SettledStatusIsCurrent

\* A message leads to a state.
LEMMA MovesStay == ASSUME NEW s \in States PROVE Moves[s] \subseteq States
BY DEF Moves, States

LEMMA StatusStarts == Init => StatusInv
<1> SUFFICES ASSUME Init PROVE StatusInv
  OBVIOUS
<1>1. Empty \in Snapshot
  BY MessageAssumption DEF Empty, Snapshot, States
<1>2. TypeOK
  <2>1. 0 \in 0 .. MaxMessages
    BY MessageAssumption
  <2> QED BY <1>1, <2>1 DEF Init, TypeOK, States
<1> QED BY <1>2 DEF Init, StatusInv, SettledStatusIsCurrent

LEMMA StatusTyped == TypeOK /\ [Next]_vars => TypeOK'
<1> SUFFICES ASSUME TypeOK, [Next]_vars PROVE TypeOK'
  OBVIOUS
<1> USE MessageAssumption DEF TypeOK, manager, init
<1>1. CASE ManagerHandles
  BY <1>1, MovesStay DEF ManagerHandles
<1>2. CASE ManagerBuilds
  BY <1>2 DEF ManagerBuilds, Online, Snapshot
<1>3. CASE ManagerStores
  BY <1>3 DEF ManagerStores
<1>4. CASE InitDone \/ InitStores
  BY <1>4 DEF InitDone, InitStores
<1>5. CASE InitBuildsState
  BY <1>5 DEF InitBuildsState, Snapshot
<1>6. CASE InitBuildsRest
  BY <1>6 DEF InitBuildsRest, Online, Snapshot
<1>7. CASE UNCHANGED vars
  BY <1>7 DEF vars
<1> QED BY <1>1, <1>2, <1>3, <1>4, <1>5, <1>6, <1>7 DEF Next, Manager, InitTask

LEMMA StatusStep == StatusInv /\ [Next]_vars => StatusInv'
<1> SUFFICES ASSUME StatusInv, [Next]_vars PROVE StatusInv'
  OBVIOUS
<1> USE DEF StatusInv, SettledStatusIsCurrent, Ctx, manager, init
<1>1. TypeOK'
  BY StatusTyped
<1>2. CASE ManagerHandles
  BY <1>1, <1>2 DEF ManagerHandles
<1>3. CASE ManagerBuilds
  BY <1>1, <1>3 DEF ManagerBuilds, Online
<1>4. CASE ManagerStores
  BY <1>1, <1>4 DEF ManagerStores
<1>5. CASE InitTask
  BY <1>1, <1>5 DEF InitTask, InitDone, InitBuildsState, InitBuildsRest, InitStores
<1>6. CASE UNCHANGED vars
  BY <1>1, <1>6 DEF vars
<1> QED BY <1>2, <1>3, <1>4, <1>5, <1>6 DEF Next, Manager

\* Once the manager has published a status it began to build after
\* wifi_manager_init returned, readers see its whole state between two messages.
THEOREM StatusCorrect == Spec => []SettledStatusIsCurrent
<1>1. StatusInv => SettledStatusIsCurrent
  BY DEF StatusInv
<1> QED BY <1>1, StatusStarts, StatusStep, PTL DEF Spec

-----------------------------------------------------------------------------
(* A boot is a behaviour of the status.                                    *)

LEMMA BootStepsStatus == [BootNext]_bootVars => [Next]_vars
BY DEF BootNext, bootVars, Creates, FailsAt, Undoes, Publishes, WaitsForOnline, WaitsForSync,
   ServerAnswers, ManagerRuns, Next

\* The boot implements the status it waits for.
THEOREM BootImplementsStatus == BootSpec => Spec
<1>1. BootInit => Init
  BY DEF BootInit
<1> QED BY <1>1, BootStepsStatus, PTL DEF BootSpec, Spec

\* What readers see between two messages is the manager's whole state, during
\* and after every boot.
THEOREM BootStatusCorrect == BootSpec => []SettledStatusIsCurrent
BY BootImplementsStatus, StatusCorrect, PTL

-----------------------------------------------------------------------------
(* The order of the steps.                                                 *)

LEMMA StepsListed ==
    /\ Len(Steps) = 25 /\ DOMAIN Steps = 1 .. 25
    /\ Steps[1] = "netif" /\ Steps[2] = "event_loop" /\ Steps[3] = "sta_netif"
    /\ Steps[4] = "wifi_driver" /\ Steps[5] = "wifi_handler" /\ Steps[6] = "ip_handler"
    /\ Steps[7] = "sta_mode" /\ Steps[8] = "manager_queue" /\ Steps[9] = "status_mutex"
    /\ Steps[10] = "reconnect_timer" /\ Steps[11] = "manager_task"
    /\ Steps[12] = "wifi_started" /\ Steps[13] = "published" /\ Steps[14] = "online"
    /\ Steps[15] = "request_queue" /\ Steps[16] = "result_queue" /\ Steps[17] = "http_worker"
    /\ Steps[18] = "recovery_mutex" /\ Steps[19] = "retry_queue"
    /\ Steps[20] = "recovery_task" /\ Steps[21] = "stats_mutex" /\ Steps[22] = "result_task"
    /\ Steps[23] = "sntp_client" /\ Steps[24] = "synced" /\ Steps[25] = "telemetry_task"
BY DEF Steps, WifiInit, HttpInit

LEMMA StepsDiffer == \A j, k \in 1 .. 25 : Steps[j] = Steps[k] => j = k
BY StepsListed

\* What the clean-up has released so far.
Released == UNION {Cleanup(failed)[j] : j \in 1 .. undone}

\* The things that exist are those of the steps done, without what the
\* clean-up has released.
HeldInv ==
    /\ done \in 0 .. 25
    /\ undone \in 0 .. Len(Cleanup(failed))
    /\ failed # "none" => done < 25 /\ failed = Steps[done + 1]
    /\ \A k \in 1 .. 25 : Steps[k] \notin Waits =>
            (Steps[k] \in held <=> k <= done /\ Steps[k] \notin Released)

\* app_main is at one step, or gave up at one.
LEMMA WhereAt ==
    ASSUME HeldInv, NEW step, At(step)
    PROVE  failed = "none" /\ done \in 0 .. 24 /\ Steps[done + 1] = step
BY StepsListed DEF HeldInv, At

LEMMA WhereFailed ==
    ASSUME HeldInv, failed # "none"
    PROVE  done \in 0 .. 24 /\ failed = Steps[done + 1]
BY DEF HeldInv

\* The releases of each failure.
LEMMA Cleanups ==
    /\ \A step \in WifiOwned \ {"sta_netif"} : Cleanup(step) = WifiCleanup
    /\ Cleanup("result_queue") = <<{"request_queue"}>>
    /\ Cleanup("http_worker") = <<{"request_queue"}, {"result_queue"}>>
    /\ Cleanup("recovery_task") = <<{"retry_queue"}>>
    /\ \A step : step \notin (WifiOwned \ {"sta_netif"})
                             \cup {"result_queue", "http_worker", "recovery_task"}
            => Cleanup(step) = << >>
BY DEF Cleanup, WifiOwned

LEMMA CleanupIsSeq == \A step : Len(Cleanup(step)) \in Nat
<1> TAKE step
<1>1. Len(WifiCleanup) = 9
  BY DEF WifiCleanup
<1>2. Len(<<{"request_queue"}>>) = 1 /\ Len(<<{"request_queue"}, {"result_queue"}>>) = 2
      /\ Len(<<{"retry_queue"}>>) = 1 /\ Len(<< >>) = 0
  OBVIOUS
<1> QED BY <1>1, <1>2, Cleanups

LEMMA HeldStarts == BootInit => HeldInv
<1> SUFFICES ASSUME BootInit PROVE HeldInv
  OBVIOUS
<1>1. done = 0 /\ failed = "none" /\ undone = 0 /\ held = {}
  BY DEF BootInit
<1>2. undone \in 0 .. Len(Cleanup(failed))
  BY <1>1, CleanupIsSeq
<1>3. ASSUME NEW k \in 1 .. 25 PROVE Steps[k] \notin held /\ ~(k <= done)
  BY <1>1
<1>4. done \in 0 .. 25
  BY <1>1
<1> QED BY <1>1, <1>2, <1>3, <1>4 DEF HeldInv

\* Before app_main gives up nothing is released.
LEMMA NothingReleased == HeldInv /\ failed = "none" => undone = 0 /\ Released = {}
<1> SUFFICES ASSUME HeldInv, failed = "none" PROVE undone = 0 /\ Released = {}
  OBVIOUS
<1>1. Cleanup("none") = << >>
  BY Cleanups DEF WifiOwned
<1>2. undone = 0
  BY <1>1 DEF HeldInv
<1> QED BY <1>2 DEF Released

\* One more release.
LEMMA OneMoreReleased == HeldInv /\ Undoes => Released' = Released \cup Cleanup(failed)[undone + 1]
<1> SUFFICES ASSUME HeldInv, Undoes
             PROVE  Released' = Released \cup Cleanup(failed)[undone + 1]
  OBVIOUS
<1>1. undone \in Nat /\ undone' = undone + 1 /\ failed' = failed
  BY CleanupIsSeq DEF HeldInv, Undoes
<1>2. 1 .. undone' = (1 .. undone) \cup {undone + 1}
  BY <1>1
<1>3. Cleanup(failed)' = Cleanup(failed)
  BY <1>1 DEF Cleanup
<1>4. Released' = UNION {Cleanup(failed)[j] : j \in 1 .. undone'}
  BY <1>1 DEF Released, Cleanup
<1>5. \A x : x \in Released' <=> x \in Released \/ x \in Cleanup(failed)[undone + 1]
  BY <1>2, <1>4 DEF Released
<1> QED BY <1>5

\* Giving up starts a clean-up and takes nothing away yet.
LEMMA GivingUp ==
    ASSUME HeldInv, NEW step, At(step), failed' = step, UNCHANGED <<done, undone, held>>
    PROVE  HeldInv'
<1>1. failed = "none" /\ done \in 0 .. 24 /\ Steps[done + 1] = step
  BY WhereAt
<1>2. undone = 0 /\ Released = {}
  BY <1>1, NothingReleased
<1>3. Released' = {}
  BY <1>2 DEF Released
<1>4. undone' \in 0 .. Len(Cleanup(failed'))
  BY <1>2, CleanupIsSeq
<1>5. \A k \in 1 .. 25 : Steps[k] \notin Waits => (Steps[k] \in held <=> k <= done)
  BY <1>2 DEF HeldInv
<1>6. done' \in 0 .. 25 /\ done' < 25 /\ failed' = Steps[done' + 1]
  BY <1>1
<1>7. \A k \in 1 .. 25 : Steps[k] \notin Waits =>
          (Steps[k] \in held' <=> k <= done' /\ Steps[k] \notin Released')
  BY <1>3, <1>5
<1> QED BY <1>4, <1>6, <1>7 DEF HeldInv

LEMMA Waiting ==
    ASSUME HeldInv, NEW step \in Waits, At(step), UNCHANGED <<failed, undone, held>>,
           done' = done \/ done' = done + 1
    PROVE  HeldInv'
<1>1. failed = "none" /\ done \in 0 .. 24 /\ Steps[done + 1] \in Waits
  BY WhereAt
<1>2. undone = 0 /\ Released = {}
  BY <1>1, NothingReleased
<1>3. Released' = {}
  BY <1>2 DEF Released
<1>4. undone' \in 0 .. Len(Cleanup(failed'))
  BY <1>2, CleanupIsSeq
<1>5. \A k \in 1 .. 25 : Steps[k] \notin Waits => (Steps[k] \in held <=> k <= done)
  BY <1>2 DEF HeldInv
<1>6. ASSUME NEW k \in 1 .. 25, Steps[k] \notin Waits
      PROVE  k <= done <=> k <= done'
  <2>1. k # done + 1
    BY <1>1, <1>6
  <2> QED BY <1>1, <2>1
<1>7. done' \in 0 .. 25
  BY <1>1
<1> QED BY <1>1, <1>3, <1>4, <1>5, <1>6, <1>7 DEF HeldInv

LEMMA Creating ==
    ASSUME HeldInv, NEW thing \in Things, Creates(thing)
    PROVE  HeldInv'
<1>1. failed = "none" /\ done \in 0 .. 24 /\ Steps[done + 1] = thing
  BY WhereAt DEF Creates
<1>2. /\ failed' = failed /\ undone' = undone /\ done' = done + 1
      /\ held' = held \cup {thing}
  BY DEF Creates
<1>3. undone = 0 /\ Released = {}
  BY <1>1, NothingReleased
<1>4. Released' = {}
  BY <1>2, <1>3 DEF Released
<1>5. undone' \in 0 .. Len(Cleanup(failed'))
  BY <1>2, <1>3, CleanupIsSeq
<1>6. \A k \in 1 .. 25 : Steps[k] \notin Waits => (Steps[k] \in held <=> k <= done)
  BY <1>3 DEF HeldInv
<1>7. ASSUME NEW k \in 1 .. 25, Steps[k] \notin Waits
      PROVE  Steps[k] \in held' <=> k <= done'
  <2>1. Steps[k] = thing <=> k = done + 1
    BY <1>1, StepsDiffer
  <2> QED BY <1>1, <1>2, <1>6, <1>7, <2>1
<1>8. done' \in 0 .. 25
  BY <1>1, <1>2
<1> QED BY <1>1, <1>2, <1>4, <1>5, <1>7, <1>8 DEF HeldInv

LEMMA Undoing == HeldInv /\ Undoes => HeldInv'
<1> SUFFICES ASSUME HeldInv, Undoes PROVE HeldInv'
  OBVIOUS
<1>1. /\ UNCHANGED <<done, failed>> /\ undone' = undone + 1
      /\ undone' \in 0 .. Len(Cleanup(failed'))
      /\ held' = held \ Cleanup(failed)[undone + 1]
  BY CleanupIsSeq DEF Undoes, HeldInv
<1>2. ASSUME NEW k \in 1 .. 25, Steps[k] \notin Waits
      PROVE  Steps[k] \in held' <=> k <= done /\ Steps[k] \notin Released'
  BY <1>1, <1>2, OneMoreReleased DEF HeldInv
<1>3. failed' # "none" => done' < 25 /\ failed' = Steps[done' + 1]
  BY <1>1 DEF HeldInv
<1>4. done' \in 0 .. 25
  BY <1>1 DEF HeldInv
<1> QED BY <1>1, <1>2, <1>3, <1>4 DEF HeldInv

LEMMA HeldStep == HeldInv /\ [BootNext]_bootVars => HeldInv'
<1> SUFFICES ASSUME HeldInv, [BootNext]_bootVars PROVE HeldInv'
  OBVIOUS
<1>1. ASSUME NEW thing \in Things, Creates(thing) PROVE HeldInv'
  BY <1>1, Creating
<1>2. ASSUME NEW thing \in Things, FailsAt(thing) PROVE HeldInv'
  BY <1>2, GivingUp DEF FailsAt
<1>3. CASE Undoes
  BY <1>3, Undoing
<1>4. CASE Publishes
  <2>1. "published" \in Waits
    BY DEF Waits
  <2> QED BY <1>4, <2>1, Waiting DEF Publishes
<1>5. CASE WaitsForOnline
  <2>1. "online" \in Waits
    BY DEF Waits
  <2> QED BY <1>5, <2>1, Waiting, GivingUp DEF WaitsForOnline, Proceeds, GivesUpAt
<1>6. CASE WaitsForSync
  <2>1. "synced" \in Waits
    BY DEF Waits
  <2> QED BY <1>6, <2>1, Waiting, GivingUp DEF WaitsForSync, Proceeds, GivesUpAt
<1>7. CASE ServerAnswers \/ ManagerRuns \/ UNCHANGED bootVars
  <2>1. UNCHANGED <<done, failed, undone, held>>
    BY <1>7 DEF ServerAnswers, ManagerRuns, bootVars, boot
  <2> QED BY <2>1 DEF HeldInv, Released, Cleanup
<1> QED BY <1>1, <1>2, <1>3, <1>4, <1>5, <1>6, <1>7 DEF BootNext

-----------------------------------------------------------------------------
(* The wait for the link.                                                  *)

\* No copy of the status, on its way or published, is ahead of the manager.
OnlineInv ==
    /\ state = "ONLINE" => wasOnline
    /\ snapshot.online \/ managerCopy.online \/ initCopy.online => wasOnline
    /\ done >= 14 => wasOnline
    /\ done >= 24 => answered
    /\ TelemetryNeedsLinkAndTime

LEMMA OnlineStarts == BootInit => OnlineInv
BY DEF BootInit, Init, Empty, OnlineInv, TelemetryNeedsLinkAndTime

LEMMA OnlineStep == TypeOK /\ HeldInv /\ OnlineInv /\ [BootNext]_bootVars => OnlineInv'
<1> SUFFICES ASSUME TypeOK, HeldInv, OnlineInv, [BootNext]_bootVars PROVE OnlineInv'
  OBVIOUS
<1> USE DEF OnlineInv, TelemetryNeedsLinkAndTime
<1>0. done \in 0 .. 25
  BY DEF HeldInv
<1>1. ASSUME NEW thing \in Things, Creates(thing) PROVE OnlineInv'
  <2>1. /\ done' = done + 1 /\ done \in 0 .. 24 /\ Steps[done + 1] = thing
        /\ held' = held \cup {thing} /\ UNCHANGED <<vars, wasOnline, answered>>
    BY <1>1, WhereAt DEF Creates
  <2>2. thing # "published" /\ thing # "online" /\ thing # "synced"
    BY DEF Things, Waits
  <2>3. done + 1 # 14 /\ done + 1 # 24
    BY <2>1, <2>2, StepsListed
  <2>4. thing = "request_queue" => done + 1 = 15
    BY <2>1, StepsListed, StepsDiffer
  <2>5. thing = "telemetry_task" => done + 1 = 25
    BY <2>1, StepsListed, StepsDiffer
  <2> QED BY <2>1, <2>3, <2>4, <2>5 DEF vars, manager, init
<1>2. ASSUME NEW thing \in Things, FailsAt(thing) PROVE OnlineInv'
  BY <1>2 DEF FailsAt, vars, manager, init
<1>9. CASE Undoes
  BY <1>9 DEF Undoes, vars, manager, init
<1>3. CASE Publishes
  <2>1. done + 1 = 13 /\ done' \in {done, done + 1}
    <3>1. done \in 0 .. 24 /\ Steps[done + 1] = "published"
      BY <1>3, WhereAt DEF Publishes
    <3> QED BY <1>3, <3>1, StepsListed, StepsDiffer DEF Publishes
  <2>2. snapshot'.online \/ managerCopy'.online \/ initCopy'.online => wasOnline
    BY <1>3 DEF Publishes, InitTask, InitDone, InitBuildsState, InitBuildsRest, InitStores,
       Online, TypeOK, Snapshot, manager
  <2>3. state' = state /\ UNCHANGED <<held, wasOnline, answered>>
    BY <1>3 DEF Publishes, InitTask, InitDone, InitBuildsState, InitBuildsRest, InitStores
  <2> QED BY <2>1, <2>2, <2>3
<1>4. CASE WaitsForOnline
  <2>1. done + 1 = 14
    <3>1. done \in 0 .. 24 /\ Steps[done + 1] = "online"
      BY <1>4, WhereAt DEF WaitsForOnline
    <3> QED BY <3>1, StepsListed, StepsDiffer
  <2> QED BY <1>4, <1>0, <2>1 DEF WaitsForOnline, Proceeds, GivesUpAt, vars, manager, init
<1>5. CASE WaitsForSync
  <2>1. done + 1 = 24
    <3>1. done \in 0 .. 24 /\ Steps[done + 1] = "synced"
      BY <1>5, WhereAt DEF WaitsForSync
    <3> QED BY <3>1, StepsListed, StepsDiffer
  <2> QED BY <1>5, <1>0, <2>1 DEF WaitsForSync, SyncWaited, Proceeds, GivesUpAt, vars, manager, init
<1>6. CASE ServerAnswers
  BY <1>6 DEF ServerAnswers, boot, vars, manager, init
<1>7. CASE ManagerRuns
  <2>1. UNCHANGED <<done, held, initCopy, answered>> /\ (wasOnline => wasOnline')
        /\ (state' = "ONLINE" => wasOnline')
    BY <1>7 DEF ManagerRuns, Manager, ManagerHandles, ManagerBuilds, ManagerStores, boot, init
  <2>2. snapshot'.online \/ managerCopy'.online => wasOnline'
    <3>1. CASE ManagerHandles
      BY <2>1, <3>1 DEF ManagerHandles
    <3>2. CASE ManagerBuilds
      BY <2>1, <3>2 DEF ManagerBuilds, Online
    <3>3. CASE ManagerStores
      BY <2>1, <3>3 DEF ManagerStores
    <3> QED BY <1>7, <3>1, <3>2, <3>3 DEF ManagerRuns, Manager
  <2> QED BY <1>0, <2>1, <2>2
<1>8. CASE UNCHANGED bootVars
  BY <1>8 DEF bootVars, boot, vars, manager, init
<1> QED BY <1>1, <1>2, <1>3, <1>4, <1>5, <1>6, <1>7, <1>8, <1>9 DEF BootNext

LEMMA BootTyped == BootSpec => []TypeOK
<1>1. StatusInv => TypeOK
  BY DEF StatusInv
<1>2. Spec => []StatusInv
  BY StatusStarts, StatusStep, PTL DEF Spec
<1> QED BY <1>1, <1>2, BootImplementsStatus, PTL

\* Requests are only sent by a device that has been online and knows the time,
\* however many messages the manager handles while init publishes.
THEOREM TelemetryCorrect == BootSpec => []TelemetryNeedsLinkAndTime
<1>1. OnlineInv => TelemetryNeedsLinkAndTime
  BY DEF OnlineInv
<1> QED BY <1>1, BootTyped, HeldStarts, HeldStep, OnlineStarts, OnlineStep, PTL DEF BootSpec

-----------------------------------------------------------------------------
(* What a failed step leaves.                                              *)

\* A thing exists once its step is done, unless it has been released.
LEMMA HeldListed ==
    ASSUME HeldInv
    PROVE  \A k \in 1 .. 25 \ {13, 14, 24} :
                Steps[k] \in held <=> k <= done /\ Steps[k] \notin Released
<1>1. \A k \in 1 .. 25 : Steps[k] \notin Waits =>
                (Steps[k] \in held <=> k <= done /\ Steps[k] \notin Released)
  BY DEF HeldInv
<1>2. \A k \in 1 .. 25 \ {13, 14, 24} : Steps[k] \notin Waits
  <2>1. Steps[13] = "published" /\ Steps[14] = "online" /\ Steps[24] = "synced"
    BY StepsListed
  <2> QED BY <2>1, StepsDiffer DEF Waits
<1> QED BY <1>1, <1>2

\* What can have been released when, after a failure in the Wi-Fi manager.
LEMMA WifiReleased ==
    ASSUME HeldInv, failed \in WifiOwned \ {"sta_netif"}
    PROVE  /\ undone \in 0 .. 9
           /\ "reconnect_timer" \in Released <=> undone >= 1
           /\ "wifi_handler" \in Released <=> undone >= 2
           /\ "ip_handler" \in Released <=> undone >= 3
           /\ "manager_task" \in Released <=> undone >= 4
           /\ "manager_queue" \in Released <=> undone >= 5
           /\ "status_mutex" \in Released <=> undone >= 6
           /\ "wifi_started" \in Released <=> undone >= 7
           /\ "wifi_driver" \in Released <=> undone >= 8
           /\ "sta_mode" \in Released <=> undone >= 8
           /\ "sta_netif" \in Released <=> undone >= 9
<1> DEFINE C == WifiCleanup
<1>1. Cleanup(failed) = C
  BY Cleanups
<1>2. /\ Len(C) = 9
      /\ C[1] = {"reconnect_timer"} /\ C[2] = {"wifi_handler"} /\ C[3] = {"ip_handler"}
      /\ C[4] = {"manager_task"} /\ C[5] = {"manager_queue"} /\ C[6] = {"status_mutex"}
      /\ C[7] = {"wifi_started"} /\ C[8] = {"wifi_driver", "sta_mode"} /\ C[9] = {"sta_netif"}
  BY DEF WifiCleanup
<1>3. undone \in 0 .. 9
  BY <1>1, <1>2 DEF HeldInv
<1>4. \A x : x \in Released <=> \E j \in 1 .. 9 : j <= undone /\ x \in C[j]
  BY <1>1, <1>3 DEF Released
<1> HIDE DEF C
<1>5. ASSUME NEW x, NEW i \in 1 .. 9, \A j \in 1 .. 9 : x \in C[j] <=> j = i
      PROVE  x \in Released <=> undone >= i
  BY <1>3, <1>4, <1>5
<1>6. \A j \in 1 .. 9 : j \in {1, 2, 3, 4, 5, 6, 7, 8, 9}
  OBVIOUS
<1>7. ("reconnect_timer" \in Released <=> undone >= 1) /\ ("wifi_handler" \in Released <=> undone >= 2)
      /\ ("ip_handler" \in Released <=> undone >= 3) /\ ("manager_task" \in Released <=> undone >= 4)
      /\ ("manager_queue" \in Released <=> undone >= 5)
  BY <1>2, <1>5, <1>6
<1>8. ("status_mutex" \in Released <=> undone >= 6) /\ ("wifi_started" \in Released <=> undone >= 7)
      /\ ("wifi_driver" \in Released <=> undone >= 8) /\ ("sta_mode" \in Released <=> undone >= 8)
      /\ ("sta_netif" \in Released <=> undone >= 9)
  BY <1>2, <1>5, <1>6
<1> QED BY <1>3, <1>7, <1>8

\* A failure in the Wi-Fi manager: the releases are in the order in which
\* nothing is missed, and the last of them leaves nothing.
LEMMA WifiFailure ==
    ASSUME HeldInv, failed \in WifiOwned \ {"sta_netif"}
    PROVE  TasksFindTheirResources /\ FailureLeavesWholeModules
<1>1. done \in 0 .. 11
  <2>1. done \in 0 .. 24 /\ failed = Steps[done + 1]
    BY WhereFailed DEF WifiOwned
  <2> QED BY <2>1, StepsListed DEF WifiOwned
<1>2. ("manager_task" \in held => "manager_queue" \in held) /\ "wifi_started" \notin held
      /\ held \cap {"http_worker", "recovery_task", "result_task", "telemetry_task"} = {}
  BY <1>1, HeldListed, WifiReleased, StepsListed
<1>3. TasksFindTheirResources
  BY <1>2 DEF TasksFindTheirResources, Needs
<1>4. held \cap {"request_queue", "result_queue", "http_worker", "retry_queue",
                 "recovery_task"} = {}
  BY <1>1, HeldListed, StepsListed
<1>5. undone = 9 => held \cap WifiOwned = {}
  BY <1>1, HeldListed, WifiReleased, StepsListed DEF WifiOwned
<1>6. CleanedUp => undone = 9
  <2>1. Len(WifiCleanup) = 9
    BY DEF WifiCleanup
  <2> QED BY <2>1, Cleanups DEF CleanedUp
<1> QED BY <1>3, <1>4, <1>5, <1>6 DEF FailureLeavesWholeModules, Groups

\* With nothing released, what a task needs has come before it.
LEMMA TasksFound == HeldInv /\ Released = {} => TasksFindTheirResources
<1> SUFFICES ASSUME HeldInv, Released = {}, NEW thing \in held \cap DOMAIN Needs
             PROVE  Needs[thing] \subseteq held
  BY DEF TasksFindTheirResources
<1>1. done \in 0 .. 25
  BY DEF HeldInv
<1>2. \A k \in 1 .. 25 \ {13, 14, 24} : Steps[k] \in held <=> k <= done
  BY HeldListed
<1>3. thing \in {"manager_task", "wifi_started", "http_worker", "recovery_task",
                 "result_task", "telemetry_task"}
  BY DEF Needs
<1>4. CASE thing = "manager_task"
  BY <1>1, <1>2, <1>4, StepsListed DEF Needs
<1>5. CASE thing = "wifi_started"
  BY <1>1, <1>2, <1>5, StepsListed DEF Needs
<1>6. CASE thing = "http_worker"
  BY <1>1, <1>2, <1>6, StepsListed DEF Needs
<1>7. CASE thing = "recovery_task"
  BY <1>1, <1>2, <1>7, StepsListed DEF Needs
<1>8. CASE thing = "result_task"
  BY <1>1, <1>2, <1>8, StepsListed DEF Needs
<1>9. CASE thing = "telemetry_task"
  BY <1>1, <1>2, <1>9, StepsListed DEF Needs
<1> QED BY <1>3, <1>4, <1>5, <1>6, <1>7, <1>8, <1>9

\* A failure in one of the HTTP modules: the queues go, of which no task that
\* exists has need.
LEMMA HttpFailure ==
    ASSUME HeldInv, failed \in {"result_queue", "http_worker", "recovery_task"}
    PROVE  TasksFindTheirResources /\ FailureLeavesWholeModules
<1> DEFINE Listed == \A k \in 1 .. 25 \ {13, 14, 24} :
                        Steps[k] \in held <=> k <= done /\ Steps[k] \notin Released
<1>2. Listed
  BY HeldListed
<1>3. CASE failed = "result_queue"
  <2>1. done = 15 /\ undone \in 0 .. 1 /\ Cleanup(failed) = <<{"request_queue"}>>
    <3>1. done \in 0 .. 24 /\ Steps[done + 1] = "result_queue"
      BY <1>3, WhereFailed
    <3>2. done = 15
      BY <3>1, StepsListed, StepsDiffer
    <3> QED BY <1>3, <3>2, Cleanups DEF HeldInv
  <2>2. \A x : x \in Released <=> undone = 1 /\ x = "request_queue"
    BY <2>1 DEF Released
  <2>3. TasksFindTheirResources
    BY <1>2, <2>1, <2>2, StepsListed DEF TasksFindTheirResources, Needs
  <2>4. FailureLeavesWholeModules
    BY <1>2, <2>1, <2>2, StepsListed DEF FailureLeavesWholeModules, CleanedUp, Groups, WifiOwned
  <2> QED BY <2>3, <2>4
<1>4. CASE failed = "http_worker"
  <2>1. /\ done = 16 /\ undone \in 0 .. 2
        /\ Cleanup(failed) = <<{"request_queue"}, {"result_queue"}>>
    <3>1. done \in 0 .. 24 /\ Steps[done + 1] = "http_worker"
      BY <1>4, WhereFailed
    <3>2. done = 16
      BY <3>1, StepsListed, StepsDiffer
    <3> QED BY <1>4, <3>2, Cleanups DEF HeldInv
  <2>2. /\ undone = 0 => Released = {}
        /\ undone = 1 => Released = {"request_queue"}
        /\ undone = 2 => Released = {"request_queue", "result_queue"}
    <3>1. Cleanup(failed)[1] = {"request_queue"} /\ Cleanup(failed)[2] = {"result_queue"}
      BY <2>1
    <3>2. undone = 0 => Released = {}
      BY DEF Released
    <3>3. undone = 1 => Released = Cleanup(failed)[1]
      BY DEF Released
    <3>4. undone = 2 => Released = Cleanup(failed)[1] \cup Cleanup(failed)[2]
      <4>1. 1 .. 2 = {1, 2}
        OBVIOUS
      <4> QED BY <4>1 DEF Released
    <3> QED BY <3>1, <3>2, <3>3, <3>4
  <2>3. TasksFindTheirResources
    BY <1>2, <2>1, <2>2, StepsListed DEF TasksFindTheirResources, Needs
  <2>4. FailureLeavesWholeModules
    <3>1. CleanedUp => undone = 2
      BY <2>1 DEF CleanedUp
    <3>2. undone = 2 => held \cap {"request_queue", "result_queue", "http_worker"} = {}
      <4>1. /\ "request_queue" \in held <=> 15 <= done /\ "request_queue" \notin Released
            /\ "result_queue" \in held <=> 16 <= done /\ "result_queue" \notin Released
            /\ "http_worker" \in held <=> 17 <= done /\ "http_worker" \notin Released
        BY <1>2, StepsListed
      <4>2. undone = 2 => "request_queue" \in Released /\ "result_queue" \in Released
        BY <2>2
      <4>3. ~(17 <= done)
        BY <2>1
      <4> QED BY <4>1, <4>2, <4>3
    <3>3. held \cap {"retry_queue", "recovery_task"} = {}
      BY <1>2, <2>1, StepsListed
    <3>4. WifiOwned \subseteq held
      BY <1>2, <2>1, <2>2, StepsListed DEF WifiOwned
    <3> QED BY <3>1, <3>2, <3>3, <3>4 DEF FailureLeavesWholeModules, Groups
  <2> QED BY <2>3, <2>4
<1>5. CASE failed = "recovery_task"
  <2>1. done = 19 /\ undone \in 0 .. 1 /\ Cleanup(failed) = <<{"retry_queue"}>>
    <3>1. done \in 0 .. 24 /\ Steps[done + 1] = "recovery_task"
      BY <1>5, WhereFailed
    <3>2. done = 19
      BY <3>1, StepsListed, StepsDiffer
    <3> QED BY <1>5, <3>2, Cleanups DEF HeldInv
  <2>2. \A x : x \in Released <=> undone = 1 /\ x = "retry_queue"
    BY <2>1 DEF Released
  <2>3. TasksFindTheirResources
    BY <1>2, <2>1, <2>2, StepsListed DEF TasksFindTheirResources, Needs
  <2>4. FailureLeavesWholeModules
    BY <1>2, <2>1, <2>2, StepsListed DEF FailureLeavesWholeModules, CleanedUp, Groups, WifiOwned
  <2> QED BY <2>3, <2>4
<1> QED BY <1>3, <1>4, <1>5

\* Every other step releases nothing, and fails between two modules.
LEMMA OtherFailure ==
    ASSUME HeldInv,
           failed \notin (WifiOwned \ {"sta_netif"})
                         \cup {"result_queue", "http_worker", "recovery_task"}
    PROVE  TasksFindTheirResources /\ FailureLeavesWholeModules
<1>1. Cleanup(failed) = << >>
  BY Cleanups
<1>2. Released = {}
  BY <1>1 DEF HeldInv, Released
<1>3. ASSUME failed # "none"
      PROVE  done \in {0, 1, 2, 12, 13, 14, 17, 18, 20, 21, 22, 23, 24}
  <2>1. done \in 0 .. 24 /\ failed = Steps[done + 1]
    BY <1>3, WhereFailed
  <2> QED BY <2>1, StepsListed DEF WifiOwned
<1>4. FailureLeavesWholeModules
  <2> SUFFICES ASSUME failed # "none", NEW group \in Groups
               PROVE  group \subseteq held \/ group \cap held = {}
    BY DEF FailureLeavesWholeModules, CleanedUp
  <2>1. \A k \in 1 .. 25 \ {13, 14, 24} : Steps[k] \in held <=> k <= done
    BY <1>2, HeldListed
  <2>2. CASE group = WifiOwned
    <3>1. done <= 2 \/ done >= 12
      BY <1>3
    <3> QED BY <1>3, <2>1, <2>2, <3>1, StepsListed DEF WifiOwned
  <2>3. CASE group = {"request_queue", "result_queue", "http_worker"}
    BY <1>3, <2>1, <2>3, StepsListed
  <2>4. CASE group = {"retry_queue", "recovery_task"}
    BY <1>3, <2>1, <2>4, StepsListed
  <2> QED BY <2>2, <2>3, <2>4 DEF Groups
<1> QED BY <1>2, <1>4, TasksFound

\* At every point of a boot and of the clean-up after a failure.
LEMMA HeldSuffices == HeldInv => TasksFindTheirResources /\ FailureLeavesWholeModules
BY WifiFailure, HttpFailure, OtherFailure

LEMMA HeldThroughoutBoot == BootSpec => []HeldInv
BY HeldStarts, HeldStep, PTL DEF BootSpec

\* No task runs before what it uses exists, nor on after one of the releases
\* of a clean-up has taken it away.
THEOREM ResourcesCorrect == BootSpec => []TasksFindTheirResources
<1>1. HeldInv => TasksFindTheirResources
  BY HeldSuffices
<1> QED BY <1>1, HeldThroughoutBoot, PTL

\* A boot that gave up leaves, at the end of its clean-up, each module either
\* complete or empty.
THEOREM FailureCorrect == BootSpec => []FailureLeavesWholeModules
<1>1. HeldInv => FailureLeavesWholeModules
  BY HeldSuffices
<1> QED BY <1>1, HeldThroughoutBoot, PTL
=============================================================================
