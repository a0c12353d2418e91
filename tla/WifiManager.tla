---------------------------- MODULE WifiManager ----------------------------
(***************************************************************************)
(* The Wi-Fi manager of src/main/wifi/wifi_manager.c: the manager task     *)
(* that owns ctx and drains one FIFO of messages, the event handler that   *)
(* forwards driver events to it, the one-shot reconnect timer and the API  *)
(* calls of other tasks.  The ESP-IDF driver is external: its part here is *)
(* what the calls and the events of the source rely on.                    *)
(*                                                                         *)
(* The manager handles one message at a time and nobody else writes ctx,   *)
(* so a handler is one step.  Everything between two handlers (an event    *)
(* raised but not yet forwarded, a timer command not yet executed by the   *)
(* timer task, a message waiting in the queue) is state of its own.        *)
(*                                                                         *)
(* Not here: log output, the statistics counters, and the delays (the      *)
(* timer may fire at any time; how long it waits is module WifiBackoff).   *)
(***************************************************************************)
EXTENDS Naturals, Sequences, WifiStates

CONSTANTS
    Aps,                    \* access points a scan may select
    NoAp,                   \* "no access point", not in Aps
    DropReasons,            \* reasons with which an AP or the driver drops us
    QueueLength,            \* WIFI_MANAGER_QUEUE_LENGTH (10)
    MaxReconnectAttempts,   \* config.max_reconnect_attempts
    SameApLimit,            \* config.same_ap_reconnect_limit
    AutoConnect,            \* config.auto_connect
    ApiCommands,            \* API calls other tasks make
    MaxApiCalls,            \* bound of the model: how many of them
    Faults                  \* calls that may fail, see FaultAssumption

Reasons == {"BEACON_TIMEOUT", "NO_AP_FOUND", "TIMEOUT", "ASSOC_LEAVE"}
Commands == {"CMD_CONNECT", "CMD_DISCONNECT", "CMD_SCAN"}

ASSUME ApAssumption == NoAp \notin Aps
ASSUME ReasonAssumption == DropReasons \subseteq Reasons
ASSUME LimitAssumption == /\ QueueLength \in Nat
                          /\ MaxReconnectAttempts \in Nat \ {0}
                          /\ SameApLimit \in Nat
                          /\ MaxApiCalls \in Nat
ASSUME AutoConnectAssumption == AutoConnect \in BOOLEAN
ASSUME CommandAssumption == ApiCommands \subseteq Commands
ASSUME FaultAssumption == Faults \subseteq {"scan", "connect", "disconnect", "arm"}

\* Any reason the source's switch does not name is handled as TIMEOUT is.
Message == [id : {"STA_START", "CONNECTED", "GOT_IP", "SCAN_DONE", "RECONNECT"}
                 \cup Commands,
            reason : {"none"}]
           \cup [id : {"DISCONNECTED"}, reason : Reasons]

Msg(id) == [id |-> id, reason |-> "none"]
Disconnected(reason) == [id |-> "DISCONNECTED", reason |-> reason]

VARIABLES
    state,                  \* ctx.state
    autoReconnect,          \* ctx.auto_reconnect_enabled
    selectedAp,             \* ctx.selected_ap
    selectedApValid,        \* ctx.selected_ap_valid
    reconnectAttempts,      \* ctx.reconnect_attempts
    sameApAttempts,         \* ctx.same_ap_reconnect_attempts, see SameApUp
    pending,                \* ctx.pending_recovery_action
    scanPurpose,            \* ctx.scan_purpose
    queue,                  \* ctx.queue
    timerArmed,             \* a period the timer was last given is running
    timerStale,             \* an earlier period may still expire: the command
                            \* that ends it waits in the timer task's queue
    drv,                    \* external: the driver's connection
    drvAp,                  \* external: BSSID in the driver's configuration
    drvScan,                \* external: the driver is scanning
    events,                 \* external: events the event loop still holds
    apiCalls,               \* API calls made so far
    lost                    \* a message of the driver or timer was dropped

ctx == <<state, autoReconnect, selectedAp, selectedApValid,
         reconnectAttempts, sameApAttempts, pending, scanPurpose>>
timer == <<timerArmed, timerStale>>
driver == <<drv, drvAp, drvScan, events>>
vars == <<ctx, queue, timer, driver, apiCalls, lost>>

CtxOK ==
    /\ state \in States
    /\ autoReconnect \in BOOLEAN
    /\ selectedAp \in Aps \cup {NoAp}
    /\ selectedApValid \in BOOLEAN
    /\ reconnectAttempts \in 0 .. MaxReconnectAttempts
    /\ sameApAttempts \in 0 .. SameApLimit
    /\ pending \in {"NONE", "DIRECT_RECONNECT", "RESCAN"}
    /\ scanPurpose \in {"NONE", "CONNECT", "USER"}

QueueOK(q) == q \in Seq(Message) /\ Len(q) <= QueueLength

TimerOK == timerArmed \in BOOLEAN /\ timerStale \in BOOLEAN

DriverOK ==
    /\ drv \in {"idle", "connecting", "associated", "up"}
    /\ drvAp \in Aps \cup {NoAp}
    /\ drvScan \in BOOLEAN
    /\ events \in Seq(Message)

\* What the variables may hold: attempts never pass their maximum, the queue
\* never its length.
TypeOK ==
    /\ CtxOK
    /\ QueueOK(queue)
    /\ TimerOK
    /\ DriverOK
    /\ apiCalls \in 0 .. MaxApiCalls
    /\ lost \in BOOLEAN

\* wifi_manager_init up to the return of esp_wifi_start: the task waits on
\* an empty queue and the driver has raised STA_START.
Init ==
    /\ state = "INIT"
    /\ autoReconnect = AutoConnect
    /\ selectedAp = NoAp
    /\ selectedApValid = FALSE
    /\ reconnectAttempts = 0
    /\ sameApAttempts = 0
    /\ pending = "NONE"
    /\ scanPurpose = "NONE"
    /\ queue = <<>>
    /\ timerArmed = FALSE
    /\ timerStale = FALSE
    /\ drv = "idle"
    /\ drvAp = NoAp
    /\ drvScan = FALSE
    /\ events = <<Msg("STA_START")>>
    /\ apiCalls = 0
    /\ lost = FALSE

-----------------------------------------------------------------------------
(* Senders.  xQueueSend with no waiting time: a full queue loses the       *)
(* message, and no caller acts on the failure.                             *)

Send(m) ==
    IF Len(queue) < QueueLength
    THEN queue' = Append(queue, m) /\ lost' = lost
    ELSE queue' = queue /\ lost' = TRUE

\* wifi_event_handler, called by the event loop task for its oldest event.
ForwardEvent ==
    /\ events # <<>>
    /\ events' = Tail(events)
    /\ Send(Head(events))
    /\ UNCHANGED <<ctx, timer, drv, drvAp, drvScan, apiCalls>>

\* wifi_reconnect_timer_callback, in the timer task.
TimerExpires ==
    /\ timerArmed
    /\ ~timerStale
    /\ timerArmed' = FALSE
    /\ Send(Msg("RECONNECT"))
    /\ UNCHANGED <<ctx, timerStale, driver, apiCalls>>

\* The same callback for a period the manager has stopped or replaced, in
\* the window before the timer task has executed that command.
StaleTimerExpires ==
    /\ timerStale
    /\ timerStale' = FALSE
    /\ Send(Msg("RECONNECT"))
    /\ UNCHANGED <<ctx, timerArmed, driver, apiCalls>>

\* The timer task executes the stop or change-period command.
TimerTaskCatchesUp ==
    /\ timerStale
    /\ timerStale' = FALSE
    /\ UNCHANGED <<ctx, queue, timerArmed, driver, apiCalls, lost>>

\* wifi_manager_connect, _disconnect, _scan.  With the queue full they tell
\* their caller so and change nothing.
ApiCall ==
    /\ apiCalls < MaxApiCalls
    /\ Len(queue) < QueueLength
    /\ \E c \in ApiCommands : queue' = Append(queue, Msg(c))
    /\ apiCalls' = apiCalls + 1
    /\ UNCHANGED <<ctx, timer, driver, lost>>

-----------------------------------------------------------------------------
(* External: the driver between two calls of the manager.                  *)

DriverScanDone ==
    /\ drvScan
    /\ drvScan' = FALSE
    /\ events' = Append(events, Msg("SCAN_DONE"))
    /\ UNCHANGED <<ctx, queue, timer, drv, drvAp, apiCalls, lost>>

DriverAssociates ==
    /\ drv = "connecting"
    /\ drv' = "associated"
    /\ events' = Append(events, Msg("CONNECTED"))
    /\ UNCHANGED <<ctx, queue, timer, drvAp, drvScan, apiCalls, lost>>

DriverGetsIp ==
    /\ drv = "associated"
    /\ drv' = "up"
    /\ events' = Append(events, Msg("GOT_IP"))
    /\ UNCHANGED <<ctx, queue, timer, drvAp, drvScan, apiCalls, lost>>

\* A connection attempt fails or an established link drops.
DriverDrops ==
    /\ drv # "idle"
    /\ drv' = "idle"
    /\ \E r \in DropReasons : events' = Append(events, Disconnected(r))
    /\ UNCHANGED <<ctx, queue, timer, drvAp, drvScan, apiCalls, lost>>

-----------------------------------------------------------------------------
(* Functions the manager's handlers call.                                  *)

\* wifi_get_recovery_action
RecoveryAction(reason) ==
    CASE reason = "BEACON_TIMEOUT" -> "DIRECT_RECONNECT"
      [] reason = "NO_AP_FOUND"    -> "RESCAN"
      [] reason = "ASSOC_LEAVE"    -> "STOP"
      [] reason = "TIMEOUT" ->
            IF sameApAttempts >= SameApLimit THEN "RESCAN" ELSE "DIRECT_RECONNECT"

\* ctx.same_ap_reconnect_attempts++.  The source only compares the counter
\* with the limit, so it saturates there.
SameApUp == IF sameApAttempts < SameApLimit THEN sameApAttempts + 1
                                            ELSE sameApAttempts

\* xTimerStop is a command to the timer task: until that task executes it a
\* running period may still expire.
StopTimer ==
    /\ timerArmed' = FALSE
    /\ timerStale' = (timerStale \/ timerArmed)

\* wifi_manager_schedule_recovery and wifi_manager_schedule_reconnect.
\* xTimerChangePeriod fails when the timer task's command queue is full; the
\* caller logs that and goes on.
ScheduleRecovery(action) ==
    /\ pending' = action
    /\ \/ /\ timerArmed' = TRUE
          /\ timerStale' = (timerStale \/ timerArmed)
       \/ /\ "arm" \in Faults
          /\ UNCHANGED timer

\* External: the driver refuses a scan while it is connecting.
ScanAccepted == scanPurpose = "NONE" /\ drv # "connecting"
ScanRefused == scanPurpose # "NONE" \/ drv = "connecting" \/ "scan" \in Faults

\* Mutant: scan_purpose stays set when esp_wifi_scan_start fails.
StartScan_KeepsPurpose(purpose) ==
    /\ ScanAccepted
    /\ scanPurpose' = purpose
    /\ drvScan' = TRUE \/ ("scan" \in Faults /\ UNCHANGED drvScan)

\* wifi_manager_start_scan when it returns ESP_OK.
StartScan(purpose) ==
    /\ ScanAccepted
    /\ scanPurpose' = purpose
    /\ drvScan' = TRUE

\* Mutant: selected_ap_valid survives the start of a new selection.
StartApSelection_KeepsAp ==
    /\ UNCHANGED selectedApValid
    /\ \/ StartScan("CONNECT") /\ state' = "SELECTING_AP"
       \/ ScanRefused /\ state' = "DISCONNECTED" /\ UNCHANGED <<scanPurpose, drvScan>>

\* wifi_manager_start_ap_selection.  Every caller has already checked that
\* the state is INIT or DISCONNECTED.
StartApSelection ==
    /\ selectedApValid' = FALSE
    /\ \/ /\ StartScan("CONNECT")
          /\ state' = "SELECTING_AP"
       \/ /\ ScanRefused
          /\ state' = "DISCONNECTED"
          /\ UNCHANGED <<scanPurpose, drvScan>>

\* esp_wifi_connect returning ESP_OK.  External: a driver that is not idle
\* keeps the connection it has.
DriverConnect == drv' = IF drv = "idle" THEN "connecting" ELSE drv
ConnectRefused == drv # "idle" \/ "connect" \in Faults

-----------------------------------------------------------------------------
(* wifi_manager_task: one action per message, the whole case with every    *)
(* call it makes.                                                          *)

Receive(id) ==
    /\ queue # <<>>
    /\ Head(queue).id = id
    /\ queue' = Tail(queue)

\* The driver raises STA_START once per esp_wifi_start, when the state is
\* still INIT, so the case's "ignored" branch is never taken.
HandleStaStart ==
    /\ Receive("STA_START")
    /\ state \in {"INIT", "DISCONNECTED"}
    /\ reconnectAttempts' = 0
    /\ sameApAttempts' = 0
    /\ pending' = "NONE"
    /\ autoReconnect' = AutoConnect
    /\ \/ /\ AutoConnect
          /\ StartApSelection
       \/ /\ ~AutoConnect
          /\ state' = "DISCONNECTED"
          /\ UNCHANGED <<selectedApValid, scanPurpose, drvScan>>
    /\ UNCHANGED <<selectedAp, timer, drv, drvAp, events, apiCalls, lost>>

HandleConnected ==
    /\ Receive("CONNECTED")
    /\ state' = IF state = "CONNECTING" THEN "CONNECTED" ELSE state
    /\ UNCHANGED <<autoReconnect, selectedAp, selectedApValid, reconnectAttempts,
                   sameApAttempts, pending, scanPurpose, timer, driver, apiCalls, lost>>

\* Mutant: an address makes the manager ONLINE in any state.
IpAwaited_Always == TRUE
IpAwaited == state = "CONNECTED"

HandleGotIp ==
    /\ Receive("GOT_IP")
    /\ \/ /\ IpAwaited
          /\ state' = "ONLINE"
          /\ reconnectAttempts' = 0
          /\ sameApAttempts' = 0
          /\ pending' = "NONE"
       \/ /\ ~IpAwaited
          /\ UNCHANGED <<state, reconnectAttempts, sameApAttempts, pending>>
    /\ UNCHANGED <<autoReconnect, selectedAp, selectedApValid, scanPurpose,
                   timer, driver, apiCalls, lost>>

\* What a DISCONNECTED message schedules, given the AP that is still valid.
ChosenRecovery(reason, valid) ==
    IF RecoveryAction(reason) = "DIRECT_RECONNECT" /\ ~valid
    THEN "RESCAN"
    ELSE RecoveryAction(reason)

HandleDisconnected ==
    /\ Receive("DISCONNECTED")
    /\ state' = "DISCONNECTED"
    /\ LET reason == Head(queue).reason
           valid == selectedApValid /\ ~(autoReconnect /\ reason = "NO_AP_FOUND")
           action == ChosenRecovery(reason, valid)
       IN  /\ selectedApValid' = valid
           /\ \/ /\ ~autoReconnect \/ action = "STOP"
                 /\ pending' = "NONE"
                 /\ UNCHANGED timer
              \/ /\ autoReconnect /\ action # "STOP"
                 /\ ScheduleRecovery(action)
    /\ UNCHANGED <<autoReconnect, selectedAp, reconnectAttempts, sameApAttempts,
                   scanPurpose, driver, apiCalls, lost>>

\* SCAN_DONE of a scan the user asked for (or of none): results are printed.
HandleUserScanDone ==
    /\ Receive("SCAN_DONE")
    /\ scanPurpose # "CONNECT"
    /\ scanPurpose' = "NONE"
    /\ UNCHANGED <<state, autoReconnect, selectedAp, selectedApValid, reconnectAttempts,
                   sameApAttempts, pending, timer, driver, apiCalls, lost>>

\* Mutant: no further scan once the attempts are used up.
RescansLater_WithinAttempts == autoReconnect /\ reconnectAttempts < MaxReconnectAttempts
RescansLater == autoReconnect

\* SCAN_DONE of a scan that was to select an AP, and no AP of our SSID in it
\* (or the results could not be read).
HandleScanFindsNothing ==
    /\ Receive("SCAN_DONE")
    /\ scanPurpose = "CONNECT"
    /\ scanPurpose' = "NONE"
    /\ state' = "DISCONNECTED"
    /\ \/ /\ RescansLater
          /\ ScheduleRecovery("RESCAN")
       \/ /\ ~RescansLater
          /\ UNCHANGED <<pending, timer>>
    /\ UNCHANGED <<autoReconnect, selectedAp, selectedApValid, reconnectAttempts,
                   sameApAttempts, driver, apiCalls, lost>>

\* Mutant: nobody asks whether DISCONNECT came while the scan ran.
StillWanted_Unasked == TRUE
StillWanted == autoReconnect

\* Mutant: the AP a cancelled scan selected stays valid.
HandleScanCancelled_KeepsAp(ap) ==
    /\ Receive("SCAN_DONE")
    /\ scanPurpose = "CONNECT"
    /\ ~StillWanted
    /\ scanPurpose' = "NONE"
    /\ selectedAp' = ap
    /\ selectedApValid' = TRUE
    /\ state' = "DISCONNECTED"
    /\ UNCHANGED <<autoReconnect, reconnectAttempts, sameApAttempts, pending,
                   timer, driver, apiCalls, lost>>

\* The scan selected ap, but DISCONNECT came while it ran.
HandleScanCancelled(ap) ==
    /\ Receive("SCAN_DONE")
    /\ scanPurpose = "CONNECT"
    /\ ~StillWanted
    /\ scanPurpose' = "NONE"
    /\ selectedAp' = ap
    /\ selectedApValid' = FALSE
    /\ state' = "DISCONNECTED"
    /\ UNCHANGED <<autoReconnect, reconnectAttempts, sameApAttempts, pending,
                   timer, driver, apiCalls, lost>>

\* The scan selected ap: wifi_manager_connect_selected_ap configures the
\* driver with its BSSID and connects.
HandleScanFinds(ap) ==
    /\ Receive("SCAN_DONE")
    /\ scanPurpose = "CONNECT"
    /\ StillWanted
    /\ scanPurpose' = "NONE"
    /\ selectedAp' = ap
    /\ \/ /\ DriverConnect
          /\ drvAp' = ap
          /\ sameApAttempts' = 0
          /\ selectedApValid' = TRUE
          /\ state' = "CONNECTING"
          /\ UNCHANGED <<pending, timer>>
       \/ /\ ConnectRefused
          /\ \/ drvAp' = ap /\ sameApAttempts' = 0
             \/ UNCHANGED <<drvAp, sameApAttempts>>  \* esp_wifi_set_config failed
          /\ selectedApValid' = FALSE
          /\ state' = "DISCONNECTED"
          /\ ScheduleRecovery("RESCAN")
          /\ UNCHANGED drv
    /\ UNCHANGED <<autoReconnect, reconnectAttempts, drvScan, events, apiCalls, lost>>

HandleCmdConnect ==
    /\ Receive("CMD_CONNECT")
    /\ \/ /\ state = "DISCONNECTED"
          /\ autoReconnect' = TRUE
          /\ pending' = "NONE"
          /\ reconnectAttempts' = 0
          /\ sameApAttempts' = 0
          /\ StopTimer
          /\ StartApSelection
       \/ /\ state # "DISCONNECTED"
          /\ UNCHANGED <<state, autoReconnect, pending, reconnectAttempts, sameApAttempts,
                         selectedApValid, scanPurpose, drvScan, timer>>
    /\ UNCHANGED <<selectedAp, drv, drvAp, events, apiCalls, lost>>

\* esp_wifi_disconnect.  External: a driver that is connecting or connected
\* gives the link up and reports ASSOC_LEAVE; an idle one reports nothing.
DriverDisconnect ==
    /\ drv' = "idle"
    /\ events' = IF drv = "idle" THEN events
                 ELSE Append(events, Disconnected("ASSOC_LEAVE"))

\* Mutant: a connection still being negotiated is not given up.
HasLink_OnceAssociated == state \in {"CONNECTED", "ONLINE"}
HasLink == state \in Linked

HandleCmdDisconnect ==
    /\ Receive("CMD_DISCONNECT")
    /\ autoReconnect' = FALSE
    /\ pending' = "NONE"
    /\ StopTimer
    /\ \/ /\ HasLink
          /\ DriverDisconnect
       \/ /\ ~HasLink \/ "disconnect" \in Faults
          /\ UNCHANGED <<drv, events>>
    /\ UNCHANGED <<state, selectedAp, selectedApValid, reconnectAttempts, sameApAttempts,
                   scanPurpose, drvAp, drvScan, apiCalls, lost>>

HandleCmdScan ==
    /\ Receive("CMD_SCAN")
    /\ \/ /\ state \in {"ONLINE", "DISCONNECTED"}
          /\ StartScan("USER")
       \/ /\ state \notin {"ONLINE", "DISCONNECTED"} \/ ScanRefused
          /\ UNCHANGED <<scanPurpose, drvScan>>
    /\ UNCHANGED <<state, autoReconnect, selectedAp, selectedApValid, reconnectAttempts,
                   sameApAttempts, pending, timer, drv, drvAp, events, apiCalls, lost>>

\* CMD_RECONNECT with recovery disabled, in another state than DISCONNECTED,
\* or with nothing pending.
HandleReconnectIgnored ==
    /\ Receive("RECONNECT")
    /\ ~autoReconnect \/ state # "DISCONNECTED" \/ pending = "NONE"
    /\ pending' = IF autoReconnect THEN pending ELSE "NONE"
    /\ UNCHANGED <<state, autoReconnect, selectedAp, selectedApValid, reconnectAttempts,
                   sameApAttempts, scanPurpose, timer, driver, apiCalls, lost>>

\* Mutant: reconnect_attempts grows past max_reconnect_attempts.
AttemptUp_Unbounded == reconnectAttempts + 1
AttemptUp == IF reconnectAttempts < MaxReconnectAttempts THEN reconnectAttempts + 1
                                                         ELSE reconnectAttempts

\* CMD_RECONNECT takes the pending recovery.
TakeRecovery ==
    /\ Receive("RECONNECT")
    /\ autoReconnect
    /\ state = "DISCONNECTED"
    /\ pending # "NONE"
    /\ reconnectAttempts' = AttemptUp

HandleReconnectRescan ==
    /\ TakeRecovery
    /\ pending = "RESCAN" \/ ~selectedApValid
    /\ pending' = "NONE"
    /\ StartApSelection
    /\ UNCHANGED <<autoReconnect, selectedAp, sameApAttempts, timer, drv, drvAp,
                   events, apiCalls, lost>>

\* Mutant: a refused esp_wifi_connect leaves the state CONNECTING.
HandleReconnectDirect_StaysConnecting ==
    /\ TakeRecovery
    /\ pending = "DIRECT_RECONNECT" /\ selectedApValid
    /\ sameApAttempts' = SameApUp
    /\ state' = "CONNECTING"
    /\ \/ DriverConnect /\ pending' = "NONE" /\ UNCHANGED <<selectedApValid, timer>>
       \/ ConnectRefused /\ ScheduleRecovery("RESCAN") /\ UNCHANGED <<selectedApValid, drv>>
    /\ UNCHANGED <<autoReconnect, selectedAp, scanPurpose, drvAp, drvScan, events,
                   apiCalls, lost>>

\* wifi_manager_reconnect_to_current_ap
HandleReconnectDirect ==
    /\ TakeRecovery
    /\ pending = "DIRECT_RECONNECT" /\ selectedApValid
    /\ sameApAttempts' = SameApUp
    /\ \/ /\ DriverConnect
          /\ state' = "CONNECTING"
          /\ pending' = "NONE"
          /\ UNCHANGED <<selectedApValid, timer>>
       \/ /\ ConnectRefused
          /\ selectedApValid' = FALSE
          /\ ScheduleRecovery("RESCAN")
          /\ UNCHANGED <<state, drv>>
    /\ UNCHANGED <<autoReconnect, selectedAp, scanPurpose, drvAp, drvScan, events,
                   apiCalls, lost>>

\* The manager task is blocked in xQueueReceive only when its queue is empty.
Manager ==
    \/ HandleStaStart
    \/ HandleConnected
    \/ HandleGotIp
    \/ HandleDisconnected
    \/ HandleUserScanDone
    \/ HandleScanFindsNothing
    \/ \E ap \in Aps : HandleScanCancelled(ap)
    \/ \E ap \in Aps : HandleScanFinds(ap)
    \/ HandleCmdConnect
    \/ HandleCmdDisconnect
    \/ HandleCmdScan
    \/ HandleReconnectIgnored
    \/ HandleReconnectRescan
    \/ HandleReconnectDirect

Driver ==
    \/ DriverScanDone
    \/ DriverAssociates
    \/ DriverGetsIp
    \/ DriverDrops

Next ==
    \/ Manager
    \/ ForwardEvent
    \/ TimerExpires
    \/ StaleTimerExpires
    \/ TimerTaskCatchesUp
    \/ ApiCall
    \/ Driver

Spec == Init /\ [][Next]_vars

\* Weak fairness: no task of the firmware is starved for ever by another, and
\* a running timer, scan or link negotiation comes to an end.  Strong
\* fairness is about the world: an AP of our SSID is in range often enough
\* that not every scan misses it and not every attempt with it fails.
FairSpec ==
    /\ Spec
    /\ WF_vars(Manager)
    /\ WF_vars(ForwardEvent)
    /\ WF_vars(TimerExpires)
    /\ WF_vars(TimerTaskCatchesUp)
    /\ WF_vars(DriverScanDone)
    /\ SF_vars(\E ap \in Aps : HandleScanFinds(ap))
    /\ SF_vars(DriverAssociates)
    /\ SF_vars(DriverGetsIp)

-----------------------------------------------------------------------------
(* Properties.                                                             *)

\* While the manager counts on a link, and whenever selected_ap is called
\* valid, the driver's configuration names the AP of the latest selection:
\* esp_wifi_connect without a new scan (reconnect_to_current_ap) reaches that
\* AP and no other, even when a cancelled scan selected another meanwhile.
ConfiguredApIsSelected ==
    /\ selectedApValid => drvAp = selectedAp /\ selectedAp \in Aps
    /\ state \in Linked => selectedApValid

\* A scan that selects an AP is under way in SELECTING_AP and in no other state,
\* with no AP the manager would reconnect to directly: no DISCONNECTED of an
\* earlier link comes late enough to move the state away under the scan, and
\* no answer overwrites the AP of a connection in progress.
SelectionOwnsTheScan ==
    /\ scanPurpose = "CONNECT" <=> state = "SELECTING_AP"
    /\ scanPurpose = "CONNECT" => ~selectedApValid

\* With nothing in flight and no message ever lost, the manager's state is
\* what the driver's connection is: no interleaving of commands, late events
\* and timer expiries leaves ONLINE without a link or a link nobody knows of.
AgreesWhenQuiet ==
    queue = <<>> /\ events = <<>> /\ ~lost =>
        CASE state = "CONNECTING" -> drv = "connecting"
          [] state = "CONNECTED"  -> drv = "associated"
          [] state = "ONLINE"     -> drv = "up"
          [] OTHER                -> drv = "idle"

\* While recovery is enabled a manager without a link has something that will
\* wake it and do more: an armed timer (or its RECONNECT) with a recovery
\* pending, or a scan that selects an AP.
RecoveryUnderway ==
    \/ scanPurpose = "CONNECT"
    \/ /\ pending # "NONE"
       /\ timerArmed \/ timerStale \/ \E i \in DOMAIN queue : queue[i].id = "RECONNECT"

NeverStranded ==
    autoReconnect /\ state = "DISCONNECTED" /\ ~lost => RecoveryUnderway

\* A connection attempt or an AP selection is started only while the user
\* wants a connection: a RECONNECT that was already queued, or a scan that was
\* already running, does not undo wifi_manager_disconnect.
ConnectsOnlyWhenWanted ==
    [][ \/ drv = "idle" /\ drv' = "connecting"
        \/ state # "SELECTING_AP" /\ state' = "SELECTING_AP"
        => autoReconnect' ]_vars

\* One message moves the state along Moves only: ONLINE is reached
\* through CONNECTED and CONNECTED through CONNECTING, however late a CONNECTED,
\* GOT_IP or SCAN_DONE of an earlier attempt arrives.
FollowsMoves == [][state' \in Moves[state]]_vars

\* SCAN_DONE is what leads out of SELECTING_AP, and scan_purpose blocks every
\* later scan until it comes: without a lost message a purpose always has its
\* running scan or its SCAN_DONE on the way.
Waiting(id) == \/ \E i \in DOMAIN queue : queue[i].id = id
               \/ \E i \in DOMAIN events : events[i].id = id
ScanAnswered ==
    scanPurpose # "NONE" /\ ~lost => drvScan \/ Waiting("SCAN_DONE")

\* A manager that is to be connected gets online, whatever failed before and
\* however often, unless the user calls wifi_manager_disconnect.
EventuallyOnline == autoReconnect ~> (state = "ONLINE" \/ ~autoReconnect)

\* wifi_manager_disconnect takes effect in whatever state it is handled.
DisconnectTakesEffect ==
    ~autoReconnect ~> (state = "DISCONNECTED" \/ autoReconnect)

=============================================================================
