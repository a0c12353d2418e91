------------------------ MODULE WifiManager_proofs ------------------------
(***************************************************************************)
(* Theorems about WifiManager for every set of access points, queue        *)
(* length, limit and set of faults.                                        *)
(***************************************************************************)
EXTENDS WifiManager, TLAPS

\* What Msg and Disconnected build is a message.
LEMMA MsgType ==
    /\ Msg("STA_START") \in Message /\ Msg("CONNECTED") \in Message
    /\ Msg("GOT_IP") \in Message /\ Msg("SCAN_DONE") \in Message
    /\ Msg("RECONNECT") \in Message
    /\ \A c \in Commands : Msg(c) \in Message
    /\ \A r \in Reasons : Disconnected(r) \in Message
BY DEF Msg, Disconnected, Message

\* The event loop's queue has no bound that the source states.
LEMMA EventOK ==
    ASSUME NEW q \in Seq(Message), NEW m \in Message
    PROVE  Append(q, m) \in Seq(Message)
OBVIOUS

\* A message sent to a queue that is not full leaves a legal queue.
LEMMA AppendOK ==
    ASSUME NEW q, QueueOK(q), Len(q) < QueueLength, NEW m \in Message
    PROVE  QueueOK(Append(q, m))
BY LimitAssumption DEF QueueOK

\* Receiving leaves a legal queue and yields a message.
LEMMA TailOK ==
    ASSUME NEW q, QueueOK(q), q # <<>>
    PROVE  QueueOK(Tail(q)) /\ Head(q) \in Message
BY LimitAssumption DEF QueueOK

\* A sender leaves a queue of messages no longer than the queue may be.
LEMMA SendType ==
    ASSUME QueueOK(queue), lost \in BOOLEAN, NEW m \in Message, Send(m)
    PROVE  QueueOK(queue') /\ lost' \in BOOLEAN
<1>1. CASE Len(queue) < QueueLength
  BY <1>1, AppendOK DEF Send
<1>2. CASE ~(Len(queue) < QueueLength)
  BY <1>2 DEF Send
<1> QED BY <1>1, <1>2

\* A handler takes a message out of a queue of messages.
LEMMA ReceiveType ==
    ASSUME QueueOK(queue), NEW id, Receive(id)
    PROVE  QueueOK(queue') /\ Head(queue) \in Message
BY TailOK DEF Receive

\* wifi_manager_schedule_recovery: the timer armed or not, an action pending.
LEMMA SchedulingType ==
    ASSUME TimerOK, NEW action \in {"DIRECT_RECONNECT", "RESCAN"}, ScheduleRecovery(action)
    PROVE  TimerOK' /\ pending' \in {"DIRECT_RECONNECT", "RESCAN"}
BY DEF TimerOK, ScheduleRecovery, timer

\* wifi_manager_start_ap_selection, accepted or refused, keeps the types.
LEMMA SelectionType ==
    ASSUME CtxOK, DriverOK, StartApSelection
    PROVE  /\ selectedApValid' \in BOOLEAN /\ state' \in States
           /\ scanPurpose' \in {"NONE", "CONNECT", "USER"} /\ drvScan' \in BOOLEAN
BY DEF CtxOK, DriverOK, StartApSelection, StartScan, States

\* Every variable keeps its type, whatever is lost, refused or late.
THEOREM TypeCorrect == Spec => []TypeOK
<1>1. Init => TypeOK
  <2> SUFFICES ASSUME Init PROVE TypeOK
    OBVIOUS
  <2>1. reconnectAttempts \in 0 .. MaxReconnectAttempts /\ sameApAttempts \in 0 .. SameApLimit
    BY LimitAssumption DEF Init
  <2>2. CtxOK
    BY <2>1, AutoConnectAssumption, Zenon DEF Init, CtxOK, States
  <2>3. QueueOK(queue)
    BY LimitAssumption DEF Init, QueueOK
  <2>4. events \in Seq(Message)
    BY MsgType DEF Init
  <2>5. TimerOK /\ DriverOK /\ lost \in BOOLEAN
    BY <2>4, Zenon DEF Init, TimerOK, DriverOK
  <2>6. apiCalls \in 0 .. MaxApiCalls
    BY LimitAssumption DEF Init
  <2> QED BY <2>2, <2>3, <2>5, <2>6 DEF TypeOK
<1>2. TypeOK /\ [Next]_vars => TypeOK'
  <2> SUFFICES ASSUME TypeOK, [Next]_vars PROVE TypeOK'
    OBVIOUS
  <2> USE LimitAssumption DEF TypeOK
  <2>1. CASE HandleStaStart
    <3>1. CtxOK'
      BY <2>1, SelectionType, AutoConnectAssumption DEF HandleStaStart, CtxOK, States, driver
    <3>2. DriverOK'
      BY <2>1, SelectionType DEF HandleStaStart, DriverOK
    <3> QED BY <2>1, <3>1, <3>2, ReceiveType DEF HandleStaStart, TimerOK, timer
  <2>2. CASE HandleConnected
    BY <2>2, ReceiveType DEF HandleConnected, CtxOK, States, TimerOK, timer, DriverOK, driver
  <2>3. CASE HandleGotIp
    BY <2>3, ReceiveType DEF HandleGotIp, CtxOK, States, TimerOK, timer, DriverOK, driver
  <2>5. CASE HandleUserScanDone
    BY <2>5, ReceiveType DEF HandleUserScanDone, CtxOK, TimerOK, timer, DriverOK, driver
  <2>6. CASE HandleScanFindsNothing
    <3>1. TimerOK' /\ pending' \in {"NONE", "DIRECT_RECONNECT", "RESCAN"}
      BY <2>6, SchedulingType DEF HandleScanFindsNothing, TimerOK, timer, CtxOK
    <3> QED BY <2>6, <3>1, ReceiveType DEF HandleScanFindsNothing, CtxOK, States, DriverOK, driver
  <2>4. CASE HandleDisconnected
    <3>1. TimerOK' /\ pending' \in {"NONE", "DIRECT_RECONNECT", "RESCAN"}
      <4>1. Head(queue).reason \in Reasons
        BY <2>4, ReceiveType DEF HandleDisconnected, Receive, Message, Commands
      <4>2. \A valid : ChosenRecovery(Head(queue).reason, valid)
                        \in {"DIRECT_RECONNECT", "RESCAN", "STOP"}
        BY <4>1 DEF ChosenRecovery, RecoveryAction, Reasons
      <4> QED BY <2>4, <4>2, SchedulingType DEF HandleDisconnected, TimerOK, timer
    <3>2. selectedApValid' \in BOOLEAN
      BY <2>4 DEF HandleDisconnected
    <3> QED BY <2>4, <3>1, <3>2, ReceiveType DEF HandleDisconnected, CtxOK, States, DriverOK, driver
  <2>7. CASE \E ap \in Aps : HandleScanCancelled(ap)
    BY <2>7, ReceiveType DEF HandleScanCancelled, CtxOK, States, TimerOK, timer, DriverOK, driver
  <2>8. CASE \E ap \in Aps : HandleScanFinds(ap)
    <3> PICK ap \in Aps : HandleScanFinds(ap)
      BY <2>8
    <3>1. TimerOK' /\ pending' \in {"NONE", "DIRECT_RECONNECT", "RESCAN"}
      BY SchedulingType DEF HandleScanFinds, TimerOK, timer, CtxOK
    <3>2. DriverOK'
      BY DEF HandleScanFinds, DriverConnect, DriverOK
    <3>3. sameApAttempts' \in 0 .. SameApLimit
      BY DEF HandleScanFinds, CtxOK
    <3>4. state' \in States /\ selectedAp' \in Aps /\ selectedApValid' \in BOOLEAN
      BY Zenon DEF HandleScanFinds, States
    <3>5. CtxOK'
      BY <3>1, <3>3, <3>4 DEF HandleScanFinds, CtxOK
    <3> QED BY <3>1, <3>2, <3>5, ReceiveType DEF HandleScanFinds
  <2>9. CASE HandleCmdConnect
    <3>1. CtxOK'
      <4>1. CASE state = "DISCONNECTED"
        <5>1. /\ reconnectAttempts' = 0 /\ sameApAttempts' = 0 /\ pending' = "NONE"
              /\ autoReconnect' = TRUE /\ selectedAp' = selectedAp
          BY <2>9, <4>1, Zenon DEF HandleCmdConnect
        <5>2. /\ selectedApValid' \in BOOLEAN /\ state' \in States
              /\ scanPurpose' \in {"NONE", "CONNECT", "USER"}
          BY <2>9, <4>1, SelectionType DEF HandleCmdConnect
        <5> QED BY <5>1, <5>2 DEF CtxOK
      <4>2. CASE state # "DISCONNECTED"
        BY <2>9, <4>2 DEF HandleCmdConnect, CtxOK
      <4> QED BY <4>1, <4>2
    <3>2. DriverOK' /\ TimerOK'
      BY <2>9, SelectionType DEF HandleCmdConnect, StopTimer, DriverOK, TimerOK, timer
    <3> QED BY <2>9, <3>1, <3>2, ReceiveType DEF HandleCmdConnect
  <2>10. CASE HandleCmdDisconnect
    <3>1. DriverOK'
      BY <2>10, MsgType, EventOK DEF HandleCmdDisconnect, DriverDisconnect, DriverOK, Reasons
    <3>2. TimerOK'
      BY <2>10 DEF HandleCmdDisconnect, StopTimer, TimerOK
    <3> QED BY <2>10, <3>1, <3>2, ReceiveType DEF HandleCmdDisconnect, CtxOK
  <2>11. CASE HandleCmdScan
    <3>1. DriverOK' /\ scanPurpose' \in {"NONE", "CONNECT", "USER"}
      BY <2>11 DEF HandleCmdScan, StartScan, DriverOK, CtxOK
    <3> QED BY <2>11, <3>1, ReceiveType DEF HandleCmdScan, CtxOK, TimerOK, timer
  <2>12. CASE HandleReconnectIgnored
    BY <2>12, ReceiveType DEF HandleReconnectIgnored, CtxOK, TimerOK, timer, DriverOK, driver
  <2>13. CASE HandleReconnectRescan
    <3>1. CtxOK'
      BY <2>13, SelectionType DEF HandleReconnectRescan, TakeRecovery, AttemptUp, CtxOK
    <3>2. DriverOK' /\ TimerOK'
      BY <2>13, SelectionType DEF HandleReconnectRescan, DriverOK, TimerOK, timer
    <3> QED BY <2>13, <3>1, <3>2, ReceiveType DEF HandleReconnectRescan, TakeRecovery
  <2>14. CASE HandleReconnectDirect
    <3>1. TimerOK' /\ pending' \in {"NONE", "DIRECT_RECONNECT", "RESCAN"}
      BY <2>14, SchedulingType DEF HandleReconnectDirect, TimerOK, timer
    <3>2. /\ reconnectAttempts' \in 0 .. MaxReconnectAttempts
          /\ sameApAttempts' \in 0 .. SameApLimit
      BY <2>14 DEF HandleReconnectDirect, TakeRecovery, AttemptUp, SameApUp, CtxOK
    <3>3. DriverOK'
      BY <2>14 DEF HandleReconnectDirect, DriverConnect, DriverOK
    <3>4. state' \in States /\ selectedApValid' \in BOOLEAN
      BY <2>14 DEF HandleReconnectDirect, CtxOK, States
    <3>5. CtxOK'
      BY <2>14, <3>1, <3>2, <3>4 DEF HandleReconnectDirect, TakeRecovery, CtxOK
    <3> QED BY <2>14, <3>1, <3>3, <3>5, ReceiveType DEF HandleReconnectDirect, TakeRecovery
  <2>15. CASE ForwardEvent
    <3>1. Head(events) \in Message /\ events' \in Seq(Message)
      BY <2>15 DEF ForwardEvent, DriverOK
    <3> QED BY <2>15, <3>1, SendType DEF ForwardEvent, ctx, CtxOK, timer, TimerOK, DriverOK
  <2>16. CASE TimerExpires \/ StaleTimerExpires
    BY <2>16, SendType, MsgType
       DEF TimerExpires, StaleTimerExpires, ctx, CtxOK, TimerOK, driver, DriverOK
  <2>17. CASE TimerTaskCatchesUp
    <3>1. TimerOK'
      BY <2>17 DEF TimerTaskCatchesUp, TimerOK
    <3> QED BY <2>17, <3>1 DEF TimerTaskCatchesUp, ctx, CtxOK, driver, DriverOK
  <2>18. CASE ApiCall
    <3>1. PICK c \in ApiCommands : queue' = Append(queue, Msg(c))
      BY <2>18 DEF ApiCall
    <3>2. QueueOK(queue')
      BY <2>18, <3>1, AppendOK, MsgType, CommandAssumption DEF ApiCall
    <3> QED BY <2>18, <3>2 DEF ApiCall, ctx, CtxOK, timer, TimerOK, driver, DriverOK
  <2>19. CASE Driver
    <3>1. DriverOK'
      <4>1. CASE DriverScanDone
        BY <4>1, MsgType, EventOK DEF DriverScanDone, DriverOK
      <4>2. CASE DriverAssociates
        BY <4>2, MsgType, EventOK DEF DriverAssociates, DriverOK
      <4>3. CASE DriverGetsIp
        BY <4>3, MsgType, EventOK DEF DriverGetsIp, DriverOK
      <4>4. CASE DriverDrops
        BY <4>4, MsgType, EventOK, ReasonAssumption DEF DriverDrops, DriverOK
      <4> QED BY <2>19, <4>1, <4>2, <4>3, <4>4 DEF Driver
    <3> QED BY <2>19, <3>1 DEF Driver, DriverScanDone, DriverAssociates, DriverGetsIp,
                               DriverDrops, ctx, CtxOK, timer, TimerOK
  <2>20. CASE UNCHANGED vars
    BY <2>20 DEF vars, ctx, CtxOK, timer, TimerOK, driver, DriverOK
  <2> QED
    BY <2>1, <2>2, <2>3, <2>4, <2>5, <2>6, <2>7, <2>8, <2>9, <2>10, <2>11, <2>12, <2>13,
       <2>14, <2>15, <2>16, <2>17, <2>18, <2>19, <2>20 DEF Next, Manager
<1> QED BY <1>1, <1>2, PTL DEF Spec

-----------------------------------------------------------------------------
(* Which AP the driver will be told to join, and whose scan it is.  The two *)
(* properties are inductive only together: that selected_ap is valid is what *)
(* keeps a selecting scan from running under a direct reconnect, and the scan *)
(* is what makes the next selected_ap the one the driver is given.           *)

SelectingScan ==
    /\ scanPurpose = "CONNECT" => /\ state \in {"SELECTING_AP", "DISCONNECTED"}
                                  /\ ~selectedApValid
    /\ state = "SELECTING_AP" => scanPurpose = "CONNECT"
SelectionInv == ConfiguredApIsSelected /\ SelectingScan

\* A refused or accepted start of an AP selection leaves no AP valid.
LEMMA SelectionStarts ==
    ASSUME StartApSelection, scanPurpose \in {"NONE", "CONNECT", "USER"}
    PROVE  /\ ~selectedApValid'
           /\ state' \in {"SELECTING_AP", "DISCONNECTED"}
           /\ state' = "SELECTING_AP" => scanPurpose' = "CONNECT"
BY DEF StartApSelection, StartScan

\* A step of anything but the manager, and a handler that leaves these
\* variables alone, preserves the invariant.
LEMMA SelectionUntouched ==
    ASSUME SelectionInv,
           UNCHANGED <<state, selectedAp, selectedApValid, scanPurpose, drvAp>>
    PROVE  SelectionInv'
BY DEF SelectionInv, ConfiguredApIsSelected, SelectingScan, Linked

\* The driver is configured for the AP the manager believes it selected, and
\* no selecting scan runs under a connection, in every reachable state.
THEOREM SelectionIsConsistent == Spec => []SelectionInv
<1>1. Init => SelectionInv
  BY DEF Init, SelectionInv, ConfiguredApIsSelected, SelectingScan, Linked
<1>2. TypeOK /\ SelectionInv /\ [Next]_vars => SelectionInv'
  <2> SUFFICES ASSUME TypeOK, SelectionInv, [Next]_vars PROVE SelectionInv'
    OBVIOUS
  <2>0. scanPurpose \in {"NONE", "CONNECT", "USER"}
    BY DEF TypeOK, CtxOK
  <2> USE DEF SelectionInv, ConfiguredApIsSelected, SelectingScan, Linked
  <2>1. CASE HandleStaStart
    <3>1. CASE StartApSelection
      BY <2>0, <2>1, <3>1, SelectionStarts DEF HandleStaStart
    <3>2. CASE state' = "DISCONNECTED" /\ UNCHANGED <<selectedApValid, scanPurpose, drvScan>>
      BY <2>1, <3>2 DEF HandleStaStart
    <3> QED BY <2>1, <3>1, <3>2 DEF HandleStaStart
  <2>2. CASE HandleConnected
    BY <2>2 DEF HandleConnected, driver
  <2>3. CASE HandleGotIp
    BY <2>3 DEF HandleGotIp, IpAwaited, driver
  <2>4. CASE HandleDisconnected
    BY <2>4 DEF HandleDisconnected, driver
  <2>5. CASE HandleUserScanDone
    BY <2>5 DEF HandleUserScanDone, driver
  <2>6. CASE HandleScanFindsNothing
    BY <2>6 DEF HandleScanFindsNothing, driver
  <2>7. CASE \E ap \in Aps : HandleScanCancelled(ap)
    BY <2>7 DEF HandleScanCancelled, driver
  <2>8. CASE \E ap \in Aps : HandleScanFinds(ap)
    BY <2>8 DEF HandleScanFinds
  <2>9. CASE HandleCmdConnect
    <3>1. CASE StartApSelection
      BY <2>0, <2>9, <3>1, SelectionStarts DEF HandleCmdConnect
    <3>2. CASE UNCHANGED <<state, selectedApValid, scanPurpose>>
      BY <2>9, <3>2, SelectionUntouched DEF HandleCmdConnect
    <3> QED BY <2>9, <3>1, <3>2 DEF HandleCmdConnect
  <2>10. CASE HandleCmdDisconnect
    BY <2>10, SelectionUntouched DEF HandleCmdDisconnect
  <2>11. CASE HandleCmdScan
    BY <2>11 DEF HandleCmdScan, StartScan, ScanAccepted
  <2>12. CASE HandleReconnectIgnored
    BY <2>12, SelectionUntouched DEF HandleReconnectIgnored, driver
  <2>13. CASE HandleReconnectRescan
    BY <2>0, <2>13, SelectionStarts DEF HandleReconnectRescan, TakeRecovery
  <2>14. CASE HandleReconnectDirect
    BY <2>14 DEF HandleReconnectDirect, TakeRecovery
  <2>15. CASE ForwardEvent \/ TimerExpires \/ StaleTimerExpires \/ TimerTaskCatchesUp \/ ApiCall
    BY <2>15, SelectionUntouched DEF ForwardEvent, TimerExpires, StaleTimerExpires,
       TimerTaskCatchesUp, ApiCall, ctx, driver
  <2>16. CASE Driver
    BY <2>16, SelectionUntouched DEF Driver, DriverScanDone, DriverAssociates, DriverGetsIp,
       DriverDrops, ctx
  <2>17. CASE UNCHANGED vars
    BY <2>17, SelectionUntouched DEF vars, ctx, driver
  <2> QED
    BY <2>1, <2>2, <2>3, <2>4, <2>5, <2>6, <2>7, <2>8, <2>9, <2>10, <2>11, <2>12, <2>13,
       <2>14, <2>15, <2>16, <2>17 DEF Next, Manager
<1> QED BY <1>1, <1>2, TypeCorrect, PTL DEF Spec

\* The AP that esp_wifi_connect will join is the selected one.
THEOREM ConfiguredApCorrect == Spec => []ConfiguredApIsSelected
<1>1. SelectionInv => ConfiguredApIsSelected
  BY DEF SelectionInv
<1> QED BY <1>1, SelectionIsConsistent, PTL

-----------------------------------------------------------------------------
(* What a step may do to the connection.                                   *)

\* A start of an AP selection enters SELECTING_AP or gives up.
LEMMA SelectionMoves ==
    ASSUME StartApSelection
    PROVE  state' \in {"SELECTING_AP", "DISCONNECTED"}
BY DEF StartApSelection

\* No message moves the state anywhere but along Moves.  The answer to a
\* selecting scan is what needs the invariant: it may only come while the
\* manager has no link.
THEOREM StateFollowsMoves == Spec => FollowsMoves
<1>1. TypeOK /\ SelectionInv /\ [Next]_vars => [state' \in Moves[state]]_vars
  <2> SUFFICES ASSUME TypeOK, SelectionInv, Next PROVE state' \in Moves[state]
    BY DEF vars, ctx, TypeOK, CtxOK, Moves
  <2>0. state \in States
    BY DEF TypeOK, CtxOK
  <2> DEFINE Stay == state' = state
  <2>s. Stay => state' \in Moves[state]
    BY <2>0 DEF Moves, States
  <2>d. state' = "DISCONNECTED" => state' \in Moves[state]
    BY <2>0 DEF Moves, States
  <2>a. state \in {"INIT", "DISCONNECTED"} /\ state' \in {"SELECTING_AP", "DISCONNECTED"}
        => state' \in Moves[state]
    BY DEF Moves, States
  <2>c. state \in {"SELECTING_AP", "DISCONNECTED"} /\ state' = "CONNECTING"
        => state' \in Moves[state]
    BY DEF Moves, States
  <2>1. CASE HandleStaStart
    BY <2>1, <2>a, SelectionMoves DEF HandleStaStart
  <2>2. CASE HandleConnected
    BY <2>0, <2>2 DEF HandleConnected, Moves, States
  <2>3. CASE HandleGotIp
    BY <2>0, <2>3 DEF HandleGotIp, IpAwaited, Moves, States
  <2>4. CASE HandleDisconnected
    BY <2>4, <2>d DEF HandleDisconnected
  <2>5. CASE HandleUserScanDone
    BY <2>5, <2>s DEF HandleUserScanDone
  <2>6. CASE HandleScanFindsNothing
    BY <2>6, <2>d DEF HandleScanFindsNothing
  <2>7. CASE \E ap \in Aps : HandleScanCancelled(ap)
    BY <2>7, <2>d DEF HandleScanCancelled
  <2>8. CASE \E ap \in Aps : HandleScanFinds(ap)
    <3> PICK ap \in Aps : HandleScanFinds(ap)
      BY <2>8
    <3>1. state \in {"SELECTING_AP", "DISCONNECTED"}
      BY DEF HandleScanFinds, SelectionInv, SelectingScan
    <3>2. state' \in {"CONNECTING", "DISCONNECTED"}
      BY DEF HandleScanFinds
    <3> QED BY <3>1, <3>2, <2>c, <2>d
  <2>9. CASE HandleCmdConnect
    BY <2>9, <2>a, <2>s, SelectionMoves DEF HandleCmdConnect
  <2>10. CASE HandleCmdDisconnect
    BY <2>10, <2>s DEF HandleCmdDisconnect
  <2>11. CASE HandleCmdScan
    BY <2>11, <2>s DEF HandleCmdScan
  <2>12. CASE HandleReconnectIgnored
    BY <2>12, <2>s DEF HandleReconnectIgnored
  <2>13. CASE HandleReconnectRescan
    BY <2>13, <2>a, SelectionMoves DEF HandleReconnectRescan, TakeRecovery
  <2>14. CASE HandleReconnectDirect
    BY <2>14, <2>c, <2>s DEF HandleReconnectDirect, TakeRecovery
  <2>15. CASE ForwardEvent \/ TimerExpires \/ StaleTimerExpires \/ TimerTaskCatchesUp \/ ApiCall
    BY <2>15, <2>s DEF ForwardEvent, TimerExpires, StaleTimerExpires, TimerTaskCatchesUp,
       ApiCall, ctx
  <2>16. CASE Driver
    BY <2>16, <2>s DEF Driver, DriverScanDone, DriverAssociates, DriverGetsIp, DriverDrops, ctx
  <2> QED
    BY <2>1, <2>2, <2>3, <2>4, <2>5, <2>6, <2>7, <2>8, <2>9, <2>10, <2>11, <2>12, <2>13,
       <2>14, <2>15, <2>16 DEF Next, Manager
<1> QED BY <1>1, TypeCorrect, SelectionIsConsistent, PTL DEF FollowsMoves, Spec

\* Nothing connects or starts to select an AP after wifi_manager_disconnect
\* was handled and before the next wifi_manager_connect: no late timer, scan
\* answer or retry does, for any queue length and any set of faults.
THEOREM ConnectionIsWanted == Spec => ConnectsOnlyWhenWanted
<1> DEFINE Starts == \/ drv = "idle" /\ drv' = "connecting"
                     \/ state # "SELECTING_AP" /\ state' = "SELECTING_AP"
<1>1. [Next]_vars => [Starts => autoReconnect']_vars
  <2> SUFFICES ASSUME Next, Starts PROVE autoReconnect'
    BY Zenon DEF vars
  <2>1. CASE HandleStaStart
    BY <2>1, Zenon DEF HandleStaStart
  <2>2. CASE HandleConnected \/ HandleGotIp
    BY <2>2 DEF HandleConnected, HandleGotIp, driver
  <2>4. CASE HandleDisconnected \/ HandleUserScanDone \/ HandleScanFindsNothing
    BY <2>4 DEF HandleDisconnected, HandleUserScanDone, HandleScanFindsNothing, driver
  <2>7. CASE \E ap \in Aps : HandleScanCancelled(ap)
    BY <2>7 DEF HandleScanCancelled, driver
  <2>8. CASE \E ap \in Aps : HandleScanFinds(ap)
    <3>1. autoReconnect
      BY <2>8, Zenon DEF HandleScanFinds, StillWanted
    <3>2. autoReconnect' = autoReconnect
      BY <2>8 DEF HandleScanFinds
    <3> QED BY <3>1, <3>2, Zenon
  <2>9. CASE HandleCmdConnect
    BY <2>9, Zenon DEF HandleCmdConnect
  <2>10. CASE HandleCmdDisconnect
    BY <2>10 DEF HandleCmdDisconnect, DriverDisconnect
  <2>11. CASE HandleCmdScan \/ HandleReconnectIgnored
    BY <2>11 DEF HandleCmdScan, HandleReconnectIgnored, driver
  <2>13. CASE HandleReconnectRescan \/ HandleReconnectDirect
    <3>1. autoReconnect
      BY <2>13, Zenon DEF HandleReconnectRescan, HandleReconnectDirect, TakeRecovery
    <3>2. autoReconnect' = autoReconnect
      BY <2>13 DEF HandleReconnectRescan, HandleReconnectDirect
    <3> QED BY <3>1, <3>2, Zenon
  <2>15. CASE ForwardEvent \/ TimerExpires \/ StaleTimerExpires \/ TimerTaskCatchesUp \/ ApiCall
    BY <2>15 DEF ForwardEvent, TimerExpires, StaleTimerExpires, TimerTaskCatchesUp, ApiCall,
       ctx, driver
  <2>16. CASE Driver
    BY <2>16 DEF Driver, DriverScanDone, DriverAssociates, DriverGetsIp, DriverDrops, ctx
  <2> QED
    BY <2>1, <2>2, <2>4, <2>7, <2>8, <2>9, <2>10, <2>11, <2>13, <2>15, <2>16
       DEF Next, Manager
<1> QED BY <1>1, PTL DEF ConnectsOnlyWhenWanted, Spec

-----------------------------------------------------------------------------
(* Messages in flight: what the event loop and the queue hold, and in which *)
(* order.                                                                  *)

\* A message with this id is in q.
Holds(q, id) == \E i \in DOMAIN q : q[i].id = id

\* A message a is in q behind a message b.
Within(q, a, b) == \E i, j \in DOMAIN q : i < j /\ q[i].id = b /\ q[j].id = a

\* A message a is in flight behind a message b: it will be received later.
Behind(a, b) == \/ Within(queue, a, b)
                \/ Within(events, a, b)
                \/ Holds(queue, b) /\ Holds(events, a)

\* Every handler receives one message,
LEMMA HandlerReceives == Manager => \E id : Receive(id)
BY DEF Manager, HandleStaStart, HandleConnected, HandleGotIp, HandleDisconnected,
   HandleUserScanDone, HandleScanFindsNothing, HandleScanCancelled, HandleScanFinds,
   HandleCmdConnect, HandleCmdDisconnect, HandleCmdScan, HandleReconnectIgnored,
   HandleReconnectRescan, HandleReconnectDirect, TakeRecovery

\* only esp_wifi_disconnect makes the driver raise an event at once,
LEMMA HandlerRaises ==
    Manager => \/ events' = events
               \/ HandleCmdDisconnect /\ events' = Append(events, Disconnected("ASSOC_LEAVE"))
BY DEF Manager, HandleStaStart, HandleConnected, HandleGotIp, HandleDisconnected,
   HandleUserScanDone, HandleScanFindsNothing, HandleScanCancelled, HandleScanFinds,
   HandleCmdConnect, HandleCmdDisconnect, DriverDisconnect, HandleCmdScan,
   HandleReconnectIgnored, HandleReconnectRescan, HandleReconnectDirect, driver

\* and nobody else writes ctx.
LEMMA OnlyHandlersWrite == [Next]_vars /\ ~Manager => UNCHANGED ctx
BY DEF Next, ForwardEvent, TimerExpires, StaleTimerExpires, TimerTaskCatchesUp, ApiCall, Driver,
   DriverScanDone, DriverAssociates, DriverGetsIp, DriverDrops, vars

\* What an appended message adds to a queue.
LEMMA AppendAdds ==
    ASSUME NEW q \in Seq(Message), NEW m \in Message, NEW r, r = Append(q, m)
    PROVE  /\ \A a : Holds(r, a) <=> Holds(q, a) \/ m.id = a
           /\ \A a, b : Within(r, a, b) <=> Within(q, a, b) \/ (m.id = a /\ Holds(q, b))
<1>1. /\ DOMAIN r = DOMAIN q \cup {Len(q) + 1}
      /\ r[Len(q) + 1] = m
      /\ \A i \in DOMAIN q : r[i] = q[i] /\ i \in Nat /\ i < Len(q) + 1
  OBVIOUS
<1>2. \A a : Holds(r, a) <=> Holds(q, a) \/ m.id = a
  BY <1>1 DEF Holds
<1>3. \A a, b : Within(r, a, b) <=> Within(q, a, b) \/ (m.id = a /\ Holds(q, b))
  <2> TAKE a, b
  <2>1. Within(r, a, b) => Within(q, a, b) \/ (m.id = a /\ Holds(q, b))
    BY <1>1 DEF Within, Holds
  <2>2. Within(q, a, b) => Within(r, a, b)
    BY <1>1 DEF Within
  <2>3. m.id = a /\ Holds(q, b) => Within(r, a, b)
    BY <1>1 DEF Within, Holds
  <2> QED BY <2>1, <2>2, <2>3
<1> QED BY <1>2, <1>3

\* What the oldest message of a queue was to the rest of it.
LEMMA HeadAdds ==
    ASSUME NEW q \in Seq(Message), q # <<>>, NEW r, r = Tail(q), NEW id, Head(q).id = id
    PROVE  /\ Holds(q, id)
           /\ \A a : Holds(q, a) <=> Holds(r, a) \/ a = id
           /\ \A a, b : Within(q, a, b) <=> Within(r, a, b) \/ (b = id /\ Holds(r, a))
<1>1. /\ Len(q) \in Nat /\ Len(q) > 0 /\ DOMAIN q = 1 .. Len(q)
      /\ DOMAIN r = 1 .. Len(q) - 1
      /\ q[1].id = id
      /\ \A i \in DOMAIN r : r[i] = q[i + 1]
  OBVIOUS
<1>2. \A a : Holds(q, a) <=> Holds(r, a) \/ a = id
  <2> TAKE a
  <2>1. ASSUME NEW i \in DOMAIN q, q[i].id = a PROVE Holds(r, a) \/ a = id
    <3>1. CASE i = 1
      BY <1>1, <2>1, <3>1
    <3>2. CASE i # 1
      <4>1. i - 1 \in DOMAIN r /\ r[i - 1] = q[i]
        BY <1>1, <3>2
      <4> QED BY <2>1, <4>1 DEF Holds
    <3> QED BY <3>1, <3>2
  <2>2. Holds(r, a) => Holds(q, a)
    <3>1. \A i \in DOMAIN r : i + 1 \in DOMAIN q /\ r[i] = q[i + 1]
      BY <1>1
    <3> QED BY <3>1 DEF Holds
  <2>3. Holds(q, id)
    BY <1>1 DEF Holds
  <2> QED BY <2>1, <2>2, <2>3 DEF Holds
<1>3. \A a, b : Within(q, a, b) <=> Within(r, a, b) \/ (b = id /\ Holds(r, a))
  <2> TAKE a, b
  <2>1. ASSUME NEW i \in DOMAIN q, NEW j \in DOMAIN q, i < j, q[i].id = b, q[j].id = a
        PROVE  Within(r, a, b) \/ (b = id /\ Holds(r, a))
    <3>1. j - 1 \in DOMAIN r /\ r[j - 1] = q[j]
      BY <1>1, <2>1
    <3>2. CASE i = 1
      BY <1>1, <2>1, <3>1, <3>2 DEF Holds
    <3>3. CASE i # 1
      <4>1. i - 1 \in DOMAIN r /\ r[i - 1] = q[i] /\ i - 1 < j - 1
        BY <1>1, <2>1, <3>3
      <4> QED BY <2>1, <3>1, <4>1 DEF Within
    <3> QED BY <3>2, <3>3
  <2>2. \A i \in DOMAIN r : i + 1 \in DOMAIN q /\ 1 < i + 1 /\ 1 \in DOMAIN q /\ r[i] = q[i + 1]
    BY <1>1
  <2>3. Within(r, a, b) => Within(q, a, b)
    <3>1. ASSUME NEW i \in DOMAIN r, NEW j \in DOMAIN r, i < j, r[i].id = b, r[j].id = a
          PROVE  Within(q, a, b)
      <4>1. i + 1 < j + 1
        BY <1>1, <3>1
      <4> QED BY <2>2, <3>1, <4>1 DEF Within
    <3> QED BY <3>1 DEF Within
  <2>4. b = id /\ Holds(r, a) => Within(q, a, b)
    BY <1>1, <2>2 DEF Within, Holds
  <2> QED BY <2>1, <2>3, <2>4 DEF Within
<1>4. Holds(q, id)
  BY <1>2
<1> QED BY <1>2, <1>3, <1>4

\* A message in flight is in the queue or still with the event loop.
LEMMA WaitingSplit == \A id : Waiting(id) <=> Holds(queue, id) \/ Holds(events, id)
BY DEF Waiting, Holds

\* What a handler takes out of the queue.
LEMMA ReceiveTakes ==
    ASSUME TypeOK, NEW id, Receive(id)
    PROVE  /\ Holds(queue, id)
           /\ \A a : Holds(queue, a) <=> Holds(queue', a) \/ a = id
           /\ \A a, b : Within(queue, a, b) <=> Within(queue', a, b) \/ (b = id /\ Holds(queue', a))
<1>1. queue \in Seq(Message) /\ queue # <<>> /\ queue' = Tail(queue) /\ Head(queue).id = id
  BY DEF TypeOK, QueueOK, Receive
<1> QED BY <1>1, HeadAdds

\* A message nobody lost is at the end of the queue.
LEMMA SendAdds ==
    ASSUME TypeOK, NEW m \in Message, Send(m), ~lost'
    PROVE  /\ \A a : Holds(queue', a) <=> Holds(queue, a) \/ m.id = a
           /\ \A a, b : Within(queue', a, b) <=> Within(queue, a, b) \/ (m.id = a /\ Holds(queue, b))
<1>1. queue \in Seq(Message) /\ queue' = Append(queue, m)
  BY DEF TypeOK, QueueOK, Send
<1> QED BY <1>1, AppendAdds

\* An event the driver raises is the last of those the event loop holds.
LEMMA RaiseAdds ==
    ASSUME TypeOK, NEW m \in Message, events' = Append(events, m)
    PROVE  /\ \A a : Holds(events', a) <=> Holds(events, a) \/ m.id = a
           /\ \A a, b : Within(events', a, b) <=> Within(events, a, b) \/ (m.id = a /\ Holds(events, b))
BY AppendAdds DEF TypeOK, DriverOK

\* Forwarding an event changes what is in flight, and in which order, not at
\* all, unless the queue is full.
LEMMA ForwardKeeps ==
    ASSUME TypeOK, ForwardEvent, ~lost'
    PROVE  /\ \A a : Waiting(a)' <=> Waiting(a)
           /\ \A a, b : Behind(a, b)' <=> Behind(a, b)
<1> DEFINE m == Head(events)
<1>1. events \in Seq(Message) /\ events # <<>> /\ events' = Tail(events) /\ m \in Message /\ Send(m)
  BY DEF TypeOK, DriverOK, ForwardEvent
<1>2. /\ \A a : Holds(queue', a) <=> Holds(queue, a) \/ m.id = a
      /\ \A a, b : Within(queue', a, b) <=> Within(queue, a, b) \/ (m.id = a /\ Holds(queue, b))
  BY <1>1, SendAdds
<1>3. /\ \A a : Holds(events, a) <=> Holds(events', a) \/ a = m.id
      /\ \A a, b : Within(events, a, b) <=> Within(events', a, b) \/ (b = m.id /\ Holds(events', a))
  BY <1>1, HeadAdds
<1>4. \A a : Waiting(a)' <=> Holds(queue', a) \/ Holds(events', a)
  BY DEF Waiting, Holds
<1>5. \A a, b : Behind(a, b)' <=> \/ Within(queue', a, b) \/ Within(events', a, b)
                                  \/ Holds(queue', b) /\ Holds(events', a)
  BY DEF Behind, Within, Holds
<1> QED BY <1>2, <1>3, <1>4, <1>5, WaitingSplit DEF Behind

\* lost is never taken back.
LEMMA LostStays == TypeOK /\ [Next]_vars /\ ~lost' => ~lost
<1> SUFFICES ASSUME TypeOK, [Next]_vars, lost PROVE lost'
  BY DEF TypeOK
<1> USE DEF TypeOK
<1>1. CASE Manager
  BY <1>1 DEF Manager, HandleStaStart, HandleConnected, HandleGotIp, HandleDisconnected,
     HandleUserScanDone, HandleScanFindsNothing, HandleScanCancelled, HandleScanFinds,
     HandleCmdConnect, HandleCmdDisconnect, HandleCmdScan, HandleReconnectIgnored,
     HandleReconnectRescan, HandleReconnectDirect
<1>2. CASE ForwardEvent \/ TimerExpires \/ StaleTimerExpires \/ TimerTaskCatchesUp \/ ApiCall
  BY <1>2 DEF ForwardEvent, TimerExpires, StaleTimerExpires, TimerTaskCatchesUp, ApiCall, Send
<1>3. CASE Driver
  BY <1>3 DEF Driver, DriverScanDone, DriverAssociates, DriverGetsIp, DriverDrops
<1>4. CASE UNCHANGED vars
  BY <1>4 DEF vars
<1> QED BY <1>1, <1>2, <1>3, <1>4 DEF Next

\* A message in flight stays in flight until it is received, unless one is lost.
LEMMA MessagesKept ==
    ASSUME TypeOK, [Next]_vars, ~lost', NEW id, Waiting(id), Manager => ~Receive(id)
    PROVE  Waiting(id)'
<1>w. Waiting(id)' <=> Holds(queue', id) \/ Holds(events', id)
  BY DEF Waiting, Holds
<1>h. Holds(queue, id) \/ Holds(events, id)
  BY WaitingSplit
<1>r. ASSUME Manager, NEW other, Receive(other), Holds(events, id) => Holds(events', id)
      PROVE  Waiting(id)'
  <2>1. Holds(queue, id) => Holds(queue', id)
    BY <1>r, ReceiveTakes
  <2> QED BY <1>h, <1>r, <1>w, <2>1
<1>q. ASSUME NEW m \in Message, queue' = Append(queue, m), events' = events PROVE Waiting(id)'
  <2>1. Holds(queue, id) => Holds(queue', id)
    BY <1>q, AppendAdds DEF TypeOK, QueueOK
  <2> QED BY <1>h, <1>q, <1>w, <2>1
<1>e. ASSUME NEW m \in Message, events' = Append(events, m), queue' = queue PROVE Waiting(id)'
  <2>1. Holds(events, id) => Holds(events', id)
    BY <1>e, RaiseAdds
  <2> QED BY <1>h, <1>e, <1>w, <2>1
<1>1. CASE Manager
  <2>1. Holds(events, id) => Holds(events', id)
    BY <1>1, HandlerRaises, RaiseAdds, MsgType DEF Reasons
  <2> QED BY <1>1, <1>r, <2>1, HandlerReceives
<1>2. CASE ForwardEvent
  BY <1>2, ForwardKeeps
<1>3. CASE TimerExpires \/ StaleTimerExpires
  <2>1. queue' = Append(queue, Msg("RECONNECT"))
    BY <1>3 DEF TimerExpires, StaleTimerExpires, Send
  <2>2. events' = events
    BY <1>3 DEF TimerExpires, StaleTimerExpires, driver
  <2> QED BY <2>1, <2>2, <1>q, MsgType
<1>4. CASE ApiCall
  <2>1. PICK c \in ApiCommands : queue' = Append(queue, Msg(c))
    BY <1>4 DEF ApiCall
  <2> QED BY <1>4, <2>1, <1>q, MsgType, CommandAssumption DEF ApiCall, driver
<1>5. CASE TimerTaskCatchesUp \/ UNCHANGED vars
  <2>1. queue' = queue /\ events' = events
    BY <1>5 DEF TimerTaskCatchesUp, vars, driver
  <2> QED BY <2>1, <1>h, <1>w
<1>6. CASE Driver
  <2>1. queue' = queue
    BY <1>6 DEF Driver, DriverScanDone, DriverAssociates, DriverGetsIp, DriverDrops
  <2>2. \E m \in Message : events' = Append(events, m)
    BY <1>6, MsgType, ReasonAssumption
       DEF Driver, DriverScanDone, DriverAssociates, DriverGetsIp, DriverDrops
  <2> QED BY <2>1, <2>2, <1>e
<1> QED BY <1>1, <1>2, <1>3, <1>4, <1>5, <1>6 DEF Next

\* scan_purpose never blocks later scans for nothing: while it is set the scan
\* it stands for runs or its SCAN_DONE is on the way, for any queue length, any
\* commands and any set of faults, as long as no message was lost.
THEOREM ScanIsAnswered == Spec => []ScanAnswered
<1>1. Init => ScanAnswered
  BY DEF Init, ScanAnswered
<1>2. TypeOK /\ ScanAnswered /\ [Next]_vars => ScanAnswered'
  <2> SUFFICES ASSUME TypeOK, ScanAnswered, [Next]_vars, scanPurpose' # "NONE", ~lost'
               PROVE  drvScan' \/ Waiting("SCAN_DONE")'
    BY DEF ScanAnswered
  <2>l. ~lost
    BY LostStays
  <2>k. Waiting("SCAN_DONE") /\ (Manager => ~Receive("SCAN_DONE")) => Waiting("SCAN_DONE")'
    BY MessagesKept
  <2>u. ASSUME UNCHANGED <<scanPurpose, drvScan>>, Manager => ~Receive("SCAN_DONE")
        PROVE  drvScan' \/ Waiting("SCAN_DONE")'
    BY <2>l, <2>k, <2>u DEF ScanAnswered
  <2>s. ASSUME NEW id, id # "SCAN_DONE", Receive(id),
               drvScan' \/ UNCHANGED <<scanPurpose, drvScan>>
        PROVE  drvScan' \/ Waiting("SCAN_DONE")'
    BY <2>s, <2>u DEF Receive
  <2>1. CASE HandleStaStart \/ HandleCmdConnect \/ HandleCmdScan \/ HandleReconnectRescan
    <3>1. drvScan' \/ UNCHANGED <<scanPurpose, drvScan>>
      BY <2>1 DEF HandleStaStart, HandleCmdConnect, HandleCmdScan, HandleReconnectRescan,
         StartApSelection, StartScan
    <3> QED BY <2>1, <3>1, <2>s DEF HandleStaStart, HandleCmdConnect, HandleCmdScan,
            HandleReconnectRescan, TakeRecovery
  <2>2. CASE HandleUserScanDone \/ HandleScanFindsNothing
             \/ \E ap \in Aps : HandleScanCancelled(ap) \/ HandleScanFinds(ap)
    BY <2>2 DEF HandleUserScanDone, HandleScanFindsNothing, HandleScanCancelled, HandleScanFinds
  <2>3. CASE HandleConnected \/ HandleGotIp \/ HandleDisconnected \/ HandleCmdDisconnect
    BY <2>3, <2>s DEF HandleConnected, HandleGotIp, HandleDisconnected, HandleCmdDisconnect, driver
  <2>4. CASE HandleReconnectIgnored \/ HandleReconnectDirect
    BY <2>4, <2>s DEF HandleReconnectIgnored, HandleReconnectDirect, TakeRecovery, driver
  <2>5. CASE ~Manager /\ ~DriverScanDone
    <3>1. UNCHANGED <<scanPurpose, drvScan>>
      BY <2>5 DEF Next, ForwardEvent, TimerExpires, StaleTimerExpires, TimerTaskCatchesUp, ApiCall,
         Driver, DriverAssociates, DriverGetsIp, DriverDrops, vars, ctx, driver
    <3> QED BY <2>5, <3>1, <2>u
  <2>6. CASE DriverScanDone
    <3>1. Holds(events', "SCAN_DONE")
      BY <2>6, RaiseAdds, MsgType DEF DriverScanDone, Msg
    <3> QED BY <3>1 DEF Waiting, Holds
  <2> QED BY <2>1, <2>2, <2>3, <2>4, <2>5, <2>6 DEF Manager
<1> QED BY <1>1, <1>2, TypeCorrect, PTL DEF Spec

-----------------------------------------------------------------------------
(* The manager's state and the driver's connection.  The two differ by what *)
(* is in flight, so the invariant says which of CONNECTED, GOT_IP and        *)
(* DISCONNECTED are, for each pair of a state and a connection, and that     *)
(* they are in the order in which a connection raises them.                  *)

LinkIds == {"CONNECTED", "GOT_IP", "DISCONNECTED"}
Rank == [id \in LinkIds |-> CASE id = "CONNECTED" -> 0
                              [] id = "GOT_IP" -> 1
                              [] id = "DISCONNECTED" -> 2]

\* Every connection raises its messages in this order, and there are never
\* messages of two connections in flight.
InOrder == \A a, b \in LinkIds : Behind(a, b) => Rank[b] < Rank[a]

\* The manager believes in no link: there is none, and none is reported.
NoLinkKnown == state \notin Linked => drv = "idle" /\ \A id \in LinkIds : ~Waiting(id)

\* The manager believes in a link: either its end is reported, or what the
\* manager does not know of it yet is.
LinkReported ==
    state \in Linked =>
        /\ drv = "idle" <=> Waiting("DISCONNECTED")
        /\ drv # "idle" =>
              /\ Waiting("CONNECTED") <=> state = "CONNECTING" /\ drv # "connecting"
              /\ Waiting("GOT_IP") <=> state # "ONLINE" /\ drv = "up"
              /\ state # "CONNECTING" => drv # "connecting"
              /\ state = "ONLINE" => drv = "up"

LinkInv == ~lost => InOrder /\ NoLinkKnown /\ LinkReported

\* The step neither adds, takes nor reorders a message about a link.
LinksUntouched ==
    /\ \A id \in LinkIds : Waiting(id)' <=> Waiting(id)
    /\ \A a, b \in LinkIds : Behind(a, b)' => Behind(a, b)

\* Such a step preserves the invariant if neither side of it changes.
LEMMA LinkPreserved ==
    ASSUME LinkInv, ~lost, LinksUntouched, drv' = drv,
           state' = state \/ (state \notin Linked /\ state' \notin Linked)
    PROVE  LinkInv'
BY DEF LinkInv, InOrder, NoLinkKnown, LinkReported, LinksUntouched, LinkIds, Linked

\* What is in flight, and in which order, after a step.
LEMMA BehindPrime ==
    \A a, b : Behind(a, b)' <=> \/ Within(queue', a, b) \/ Within(events', a, b)
                                \/ Holds(queue', b) /\ Holds(events', a)
BY DEF Behind, Within, Holds

\* The same for a single message.
LEMMA WaitingPrime == \A id : Waiting(id)' <=> Holds(queue', id) \/ Holds(events', id)
BY DEF Waiting, Holds

\* A handler that takes another message, a sender of another message and an
\* event of another kind leave the messages about links alone.
LEMMA OtherReceived ==
    ASSUME TypeOK, NEW id, id \notin LinkIds, Receive(id), events' = events
    PROVE  LinksUntouched
BY ReceiveTakes, BehindPrime, WaitingPrime, WaitingSplit DEF LinksUntouched, Behind

\* The same for a message sent ...
LEMMA OtherSent ==
    ASSUME TypeOK, NEW m \in Message, m.id \notin LinkIds, queue' = Append(queue, m),
           events' = events
    PROVE  LinksUntouched
<1>1. /\ \A a : Holds(queue', a) <=> Holds(queue, a) \/ m.id = a
      /\ \A a, b : Within(queue', a, b) <=> Within(queue, a, b) \/ (m.id = a /\ Holds(queue, b))
  BY AppendAdds DEF TypeOK, QueueOK
<1> QED BY <1>1, BehindPrime, WaitingPrime, WaitingSplit DEF LinksUntouched, Behind

\* ... and an event raised that is not about a link.
LEMMA OtherRaised ==
    ASSUME TypeOK, NEW m \in Message, m.id \notin LinkIds, events' = Append(events, m),
           queue' = queue
    PROVE  LinksUntouched
BY RaiseAdds, BehindPrime, WaitingPrime, WaitingSplit DEF LinksUntouched, Behind

\* A message about a link joins the messages in flight as the last of them.
LEMMA LinkRaised ==
    ASSUME TypeOK, NEW m \in Message, events' = Append(events, m),
           \/ queue' = queue
           \/ \E other : other \notin LinkIds /\ Receive(other)
    PROVE  /\ \A a \in LinkIds : Waiting(a)' <=> Waiting(a) \/ m.id = a
           /\ \A a, b \in LinkIds : Behind(a, b)' => Behind(a, b) \/ (m.id = a /\ Waiting(b))
<1>1. \A a \in LinkIds : Holds(queue', a) <=> Holds(queue, a)
  BY ReceiveTakes
<1>2. \A a, b \in LinkIds : Within(queue', a, b) => Within(queue, a, b)
  BY ReceiveTakes
<1> QED BY <1>1, <1>2, RaiseAdds, BehindPrime, WaitingPrime, WaitingSplit DEF Behind

\* A received message about a link was in flight before all others.
LEMMA LinkReceived ==
    ASSUME TypeOK, NEW id, Receive(id), events' = events
    PROVE  /\ Waiting(id)
           /\ \A a : Waiting(a) => Waiting(a)' \/ a = id
           /\ \A a : Waiting(a)' => Waiting(a) /\ Behind(a, id)
           /\ \A a, b : Behind(a, b)' => Behind(a, b)
BY ReceiveTakes, BehindPrime, WaitingPrime, WaitingSplit DEF Behind

\* Nothing about a link is in flight at the start.
LEMMA LinkInit == Init => LinkInv
<1> SUFFICES ASSUME Init PROVE LinkInv
  OBVIOUS
<1>1. /\ \A a, b \in LinkIds : ~Behind(a, b)
      /\ \A a \in LinkIds : ~Waiting(a)
  BY DEF Init, Behind, Within, Holds, Waiting, Msg, LinkIds
<1>2. state \notin Linked /\ drv = "idle"
  BY DEF Init, Linked
<1> QED BY <1>1, <1>2 DEF LinkInv, InOrder, NoLinkKnown, LinkReported

\* What the driver does with a link and what the manager is told of it.
LEMMA LinkByDriver ==
    ASSUME TypeOK, LinkInv, Driver, ~lost
    PROVE  LinkInv'
<1> USE DEF LinkIds, Rank, Linked
<1>a. InOrder /\ NoLinkKnown /\ LinkReported
  BY DEF LinkInv
<1>1. CASE DriverScanDone
  <2>1. LinksUntouched
    BY <1>1, OtherRaised, MsgType DEF DriverScanDone, Msg
  <2> QED BY <1>1, <2>1, LinkPreserved DEF DriverScanDone, ctx
<1>l. ASSUME NEW m \in Message, events' = Append(events, m), queue' = queue
      PROVE  /\ \A a \in LinkIds : Waiting(a)' <=> Waiting(a) \/ m.id = a
             /\ \A a, b \in LinkIds : Behind(a, b)' => Behind(a, b) \/ (m.id = a /\ Waiting(b))
  BY <1>l, LinkRaised
<1>2. CASE DriverAssociates
  <2>1. /\ \A a \in LinkIds : Waiting(a)' <=> Waiting(a) \/ "CONNECTED" = a
        /\ \A a, b \in LinkIds : Behind(a, b)' => Behind(a, b) \/ ("CONNECTED" = a /\ Waiting(b))
    BY <1>2, <1>l, MsgType DEF DriverAssociates, Msg
  <2>2. state \in Linked /\ drv = "connecting" /\ drv' = "associated" /\ state' = state
    BY <1>2, <1>a DEF DriverAssociates, NoLinkKnown, ctx
  <2>3. state = "CONNECTING" /\ \A a \in LinkIds : ~Waiting(a)
    BY <1>a, <2>2 DEF LinkReported
  <2> QED BY <1>a, <2>1, <2>2, <2>3 DEF LinkInv, InOrder, NoLinkKnown, LinkReported
<1>3. CASE DriverGetsIp
  <2>1. /\ \A a \in LinkIds : Waiting(a)' <=> Waiting(a) \/ "GOT_IP" = a
        /\ \A a, b \in LinkIds : Behind(a, b)' => Behind(a, b) \/ ("GOT_IP" = a /\ Waiting(b))
    BY <1>3, <1>l, MsgType DEF DriverGetsIp, Msg
  <2>2. state \in Linked /\ drv = "associated" /\ drv' = "up" /\ state' = state
    BY <1>3, <1>a DEF DriverGetsIp, NoLinkKnown, ctx
  <2>3. state # "ONLINE" /\ ~Waiting("GOT_IP") /\ ~Waiting("DISCONNECTED")
    BY <1>a, <2>2 DEF LinkReported
  <2> QED BY <1>a, <2>1, <2>2, <2>3 DEF LinkInv, InOrder, NoLinkKnown, LinkReported
<1>4. CASE DriverDrops
  <2>0. PICK r \in DropReasons : events' = Append(events, Disconnected(r))
    BY <1>4 DEF DriverDrops
  <2>1. /\ \A a \in LinkIds : Waiting(a)' <=> Waiting(a) \/ "DISCONNECTED" = a
        /\ \A a, b \in LinkIds : Behind(a, b)' => Behind(a, b) \/ ("DISCONNECTED" = a /\ Waiting(b))
    BY <1>4, <2>0, <1>l, MsgType, ReasonAssumption DEF DriverDrops, Disconnected
  <2>2. state \in Linked /\ drv # "idle" /\ drv' = "idle" /\ state' = state
    BY <1>4, <1>a DEF DriverDrops, NoLinkKnown, ctx
  <2>3. ~Waiting("DISCONNECTED")
    BY <1>a, <2>2 DEF LinkReported
  <2> QED BY <1>a, <2>1, <2>2, <2>3 DEF LinkInv, InOrder, NoLinkKnown, LinkReported
<1> QED BY <1>1, <1>2, <1>3, <1>4 DEF Driver

\* CONNECTED, GOT_IP and DISCONNECTED as the manager handles them.
LEMMA LinkByHandler ==
    ASSUME TypeOK, LinkInv, ~lost, HandleConnected \/ HandleGotIp \/ HandleDisconnected
    PROVE  LinkInv'
<1> USE DEF LinkIds, Rank, Linked
<1>a. InOrder /\ NoLinkKnown /\ LinkReported
  BY DEF LinkInv
<1>d. drv' = drv /\ events' = events
  BY DEF HandleConnected, HandleGotIp, HandleDisconnected, driver
<1>o. InOrder'
  <2>1. \A a, b : Behind(a, b)' => Behind(a, b)
    BY <1>d, LinkReceived DEF HandleConnected, HandleGotIp, HandleDisconnected
  <2> QED BY <1>a, <2>1 DEF InOrder
<1>1. CASE HandleConnected
  <2>1. /\ Waiting("CONNECTED")
        /\ \A a : Waiting(a) => Waiting(a)' \/ a = "CONNECTED"
        /\ \A a : Waiting(a)' => Waiting(a) /\ Behind(a, "CONNECTED")
    BY <1>1, <1>d, LinkReceived DEF HandleConnected
  <2>2. ~Waiting("CONNECTED")'
    BY <1>a, <2>1 DEF InOrder
  <2>3. state \in Linked
    BY <1>a, <2>1 DEF NoLinkKnown
  <2>4. state' = IF state = "CONNECTING" THEN "CONNECTED" ELSE state
    BY <1>1 DEF HandleConnected
  <2> QED BY <1>a, <1>d, <1>o, <2>1, <2>2, <2>3, <2>4 DEF LinkInv, NoLinkKnown, LinkReported
<1>2. CASE HandleGotIp
  <2>1. /\ Waiting("GOT_IP")
        /\ \A a : Waiting(a) => Waiting(a)' \/ a = "GOT_IP"
        /\ \A a : Waiting(a)' => Waiting(a) /\ Behind(a, "GOT_IP")
    BY <1>2, <1>d, LinkReceived DEF HandleGotIp
  <2>2. ~Waiting("GOT_IP")' /\ ~Waiting("CONNECTED")
    BY <1>a, <2>1 DEF InOrder
  <2>3. state \in Linked
    BY <1>a, <2>1 DEF NoLinkKnown
  <2>4. state' = IF state = "CONNECTED" THEN "ONLINE" ELSE state
    BY <1>2 DEF HandleGotIp, IpAwaited
  <2> QED BY <1>a, <1>d, <1>o, <2>1, <2>2, <2>3, <2>4 DEF LinkInv, NoLinkKnown, LinkReported
<1>3. CASE HandleDisconnected
  <2>1. /\ Waiting("DISCONNECTED")
        /\ \A a : Waiting(a)' => Behind(a, "DISCONNECTED")
    BY <1>3, <1>d, LinkReceived DEF HandleDisconnected
  <2>2. \A a \in LinkIds : ~Waiting(a)'
    BY <1>a, <2>1 DEF InOrder
  <2>3. drv = "idle"
    BY <1>a, <2>1 DEF NoLinkKnown, LinkReported
  <2>4. state' = "DISCONNECTED"
    BY <1>3 DEF HandleDisconnected
  <2> QED BY <1>d, <1>o, <2>2, <2>3, <2>4 DEF LinkInv, NoLinkKnown, LinkReported
<1> QED BY <1>1, <1>2, <1>3

\* A connection begins: nothing of an earlier one is in flight.
LEMMA LinkBegins ==
    ASSUME LinkInv, ~lost, LinksUntouched, state \notin Linked,
           DriverConnect, state' = "CONNECTING"
    PROVE  LinkInv'
<1> USE DEF LinkIds, Linked
<1>1. InOrder /\ NoLinkKnown
  BY DEF LinkInv
<1>2. InOrder' /\ \A id \in LinkIds : ~Waiting(id)'
  BY <1>1 DEF InOrder, NoLinkKnown, LinksUntouched
<1>3. drv' = "connecting"
  BY <1>1 DEF NoLinkKnown, DriverConnect
<1> QED BY <1>2, <1>3 DEF LinkInv, NoLinkKnown, LinkReported

\* wifi_manager_disconnect with a link: the driver gives it up and says so,
\* unless it has already lost it.
LEMMA LinkGivenUp ==
    ASSUME TypeOK, LinkInv, ~lost, HandleCmdDisconnect
    PROVE  LinkInv'
<1> USE DEF LinkIds, Rank, Linked
<1>a. InOrder /\ NoLinkKnown /\ LinkReported
  BY DEF LinkInv
<1>r. Receive("CMD_DISCONNECT") /\ state' = state
  BY DEF HandleCmdDisconnect
<1>1. CASE events' = events /\ drv' = drv
  <2>1. LinksUntouched
    BY <1>1, <1>r, OtherReceived
  <2> QED BY <1>1, <1>r, <2>1, LinkPreserved
<1>2. CASE /\ drv # "idle" /\ drv' = "idle" /\ state \in Linked
           /\ events' = Append(events, Disconnected("ASSOC_LEAVE"))
  <2>1. /\ \A a \in LinkIds : Waiting(a)' <=> Waiting(a) \/ "DISCONNECTED" = a
        /\ \A a, b \in LinkIds : Behind(a, b)' => Behind(a, b) \/ ("DISCONNECTED" = a /\ Waiting(b))
    BY <1>2, <1>r, LinkRaised, MsgType DEF Disconnected, Reasons
  <2>2. ~Waiting("DISCONNECTED")
    BY <1>a, <1>2 DEF LinkReported
  <2> QED BY <1>a, <1>r, <1>2, <2>1, <2>2 DEF LinkInv, InOrder, NoLinkKnown, LinkReported
<1> QED BY <1>1, <1>2 DEF HandleCmdDisconnect, HasLink, DriverDisconnect

\* Every step, as long as no message is lost.
LEMMA LinkNext == TypeOK /\ SelectionInv /\ LinkInv /\ [Next]_vars => LinkInv'
<1> SUFFICES ASSUME TypeOK, SelectionInv, LinkInv, [Next]_vars, ~lost'
             PROVE  LinkInv'
  BY DEF LinkInv
<1>l. ~lost
  BY LostStays
<1>r. ASSUME NEW id, id \notin LinkIds, Receive(id), events' = events, drv' = drv,
             state' = state \/ (state \notin Linked /\ state' \notin Linked)
      PROVE  LinkInv'
  BY <1>l, <1>r, OtherReceived, LinkPreserved
<1>s. ASSUME NEW m \in Message, m.id \notin LinkIds, queue' = Append(queue, m),
             UNCHANGED <<events, drv, state>>
      PROVE  LinkInv'
  BY <1>l, <1>s, OtherSent, LinkPreserved
<1>n. state' \in {"SELECTING_AP", "DISCONNECTED"} => state' \notin Linked
  BY DEF Linked
<1>1. CASE HandleStaStart
  <2>1. state \notin Linked /\ state' \notin Linked
    BY <1>1, <1>n, SelectionMoves DEF HandleStaStart, Linked
  <2> QED BY <1>1, <1>r, <2>1 DEF HandleStaStart, LinkIds
<1>2. CASE HandleConnected \/ HandleGotIp \/ HandleDisconnected
  BY <1>l, <1>2, LinkByHandler
<1>3. CASE HandleUserScanDone \/ HandleCmdScan \/ HandleReconnectIgnored
  BY <1>3, <1>r DEF HandleUserScanDone, HandleCmdScan, HandleReconnectIgnored, driver, LinkIds
<1>c. Receive("SCAN_DONE") /\ scanPurpose = "CONNECT" => state \notin Linked
  BY DEF SelectionInv, SelectingScan, Linked
<1>4. CASE HandleScanFindsNothing
  BY <1>4, <1>c, <1>n, <1>r DEF HandleScanFindsNothing, driver, LinkIds
<1>5. CASE \E ap \in Aps : HandleScanCancelled(ap)
  BY <1>5, <1>c, <1>n, <1>r DEF HandleScanCancelled, driver, LinkIds
<1>6. CASE \E ap \in Aps : HandleScanFinds(ap)
  <2>1. Receive("SCAN_DONE") /\ state \notin Linked /\ events' = events
    BY <1>6, <1>c DEF HandleScanFinds
  <2>2. CASE DriverConnect /\ state' = "CONNECTING"
    <3>1. LinksUntouched
      BY <2>1, OtherReceived DEF LinkIds
    <3> QED BY <1>l, <2>1, <2>2, <3>1, LinkBegins
  <2>3. CASE state' = "DISCONNECTED" /\ drv' = drv
    BY <1>n, <1>r, <2>1, <2>3 DEF LinkIds
  <2> QED BY <1>6, <2>2, <2>3 DEF HandleScanFinds
<1>7. CASE HandleCmdConnect
  <2>1. state' = state \/ (state \notin Linked /\ state' \notin Linked)
    BY <1>7, <1>n, SelectionMoves DEF HandleCmdConnect, Linked
  <2> QED BY <1>7, <1>r, <2>1 DEF HandleCmdConnect, LinkIds
<1>8. CASE HandleCmdDisconnect
  BY <1>l, <1>8, LinkGivenUp
<1>9. CASE HandleReconnectRescan
  <2>1. state \notin Linked /\ state' \notin Linked
    BY <1>9, <1>n, SelectionMoves DEF HandleReconnectRescan, TakeRecovery, Linked
  <2> QED BY <1>9, <1>r, <2>1 DEF HandleReconnectRescan, TakeRecovery, LinkIds
<1>10. CASE HandleReconnectDirect
  <2>1. Receive("RECONNECT") /\ state \notin Linked /\ events' = events
    BY <1>10 DEF HandleReconnectDirect, TakeRecovery, Linked
  <2>2. CASE DriverConnect /\ state' = "CONNECTING"
    <3>1. LinksUntouched
      BY <2>1, OtherReceived DEF LinkIds
    <3> QED BY <1>l, <2>1, <2>2, <3>1, LinkBegins
  <2>3. CASE state' = state /\ drv' = drv
    BY <1>r, <2>1, <2>3 DEF LinkIds
  <2> QED BY <1>10, <2>2, <2>3 DEF HandleReconnectDirect
<1>11. CASE ForwardEvent
  <2>1. LinksUntouched
    BY <1>11, ForwardKeeps DEF LinksUntouched
  <2> QED BY <1>l, <1>11, <2>1, LinkPreserved DEF ForwardEvent, ctx
<1>12. CASE TimerExpires \/ StaleTimerExpires
  <2>1. queue' = Append(queue, Msg("RECONNECT")) /\ UNCHANGED <<events, drv, state>>
    BY <1>12 DEF TimerExpires, StaleTimerExpires, Send, ctx, driver
  <2> QED BY <2>1, <1>s, MsgType DEF Msg, LinkIds
<1>13. CASE ApiCall
  <2>1. PICK c \in ApiCommands : queue' = Append(queue, Msg(c))
    BY <1>13 DEF ApiCall
  <2>2. UNCHANGED <<events, drv, state>>
    BY <1>13 DEF ApiCall, ctx, driver
  <2> QED BY <2>1, <2>2, <1>s, MsgType, CommandAssumption DEF Msg, Commands, LinkIds
<1>14. CASE TimerTaskCatchesUp \/ UNCHANGED vars
  <2>1. UNCHANGED <<queue, events, drv, state>>
    BY <1>14 DEF TimerTaskCatchesUp, vars, ctx, driver
  <2>2. LinksUntouched
    BY <2>1, BehindPrime, WaitingPrime, WaitingSplit DEF LinksUntouched, Behind
  <2> QED BY <1>l, <2>1, <2>2, LinkPreserved
<1>15. CASE Driver
  BY <1>l, <1>15, LinkByDriver
<1> QED BY <1>1, <1>2, <1>3, <1>4, <1>5, <1>6, <1>7, <1>8, <1>9, <1>10, <1>11, <1>12, <1>13,
        <1>14, <1>15 DEF Next, Manager

\* The invariant holds for any queue length, set of commands and set of faults.
LEMMA LinkIsReported == Spec => []LinkInv
BY LinkInit, LinkNext, TypeCorrect, SelectionIsConsistent, PTL DEF Spec

-----------------------------------------------------------------------------
(* A DISCONNECTED finds the manager in a state that counts on a link, even  *)
(* when messages are lost: a link that ends reports it once, and no other   *)
(* begins before the manager has taken the report.                          *)

DropInv ==
    /\ state \notin Linked => drv = "idle" /\ ~Waiting("DISCONNECTED")
    /\ drv # "idle" => ~Waiting("DISCONNECTED")
    /\ ~Behind("DISCONNECTED", "DISCONNECTED")

\* The step adds no DISCONNECTED.
NoDropAdded ==
    /\ Waiting("DISCONNECTED")' => Waiting("DISCONNECTED")
    /\ Behind("DISCONNECTED", "DISCONNECTED")' => Behind("DISCONNECTED", "DISCONNECTED")

LEMMA DropPreserved ==
    ASSUME DropInv, NoDropAdded,
           \/ state \notin Linked /\ (drv' = drv \/ state' \in Linked)
           \/ drv' \in {drv, "idle"} /\ (state' = state \/ state' \in Linked)
    PROVE  DropInv'
BY DEF DropInv, NoDropAdded

\* A handler that raises no event takes a message, and adds none.
LEMMA ReceivedAddsNone ==
    ASSUME TypeOK, NEW id, Receive(id), events' = events
    PROVE  NoDropAdded
BY LinkReceived DEF NoDropAdded

\* Another message joins the queue, or is lost.
LEMMA SentAddsNone ==
    ASSUME TypeOK, NEW m \in Message, m.id # "DISCONNECTED", events' = events,
           queue' = queue \/ queue' = Append(queue, m)
    PROVE  NoDropAdded
<1>1. \/ queue' = queue
      \/ /\ \A a : Holds(queue', a) <=> Holds(queue, a) \/ m.id = a
         /\ \A a, b : Within(queue', a, b) <=> Within(queue, a, b) \/ (m.id = a /\ Holds(queue, b))
  BY AppendAdds DEF TypeOK, QueueOK
<1> QED BY <1>1, BehindPrime, WaitingPrime, WaitingSplit DEF NoDropAdded, Behind

\* An event is forwarded, or lost.
LEMMA ForwardAddsNone ==
    ASSUME TypeOK, ForwardEvent
    PROVE  NoDropAdded
<1> DEFINE m == Head(events)
<1>1. events \in Seq(Message) /\ events # <<>> /\ events' = Tail(events) /\ m \in Message /\ Send(m)
  BY DEF TypeOK, DriverOK, ForwardEvent
<1>2. CASE queue' = Append(queue, m)
  <2>1. /\ \A a : Holds(queue', a) <=> Holds(queue, a) \/ m.id = a
        /\ \A a, b : Within(queue', a, b) <=> Within(queue, a, b) \/ (m.id = a /\ Holds(queue, b))
    BY <1>1, <1>2, AppendAdds DEF TypeOK, QueueOK
  <2>2. /\ \A a : Holds(events, a) <=> Holds(events', a) \/ a = m.id
        /\ \A a, b : Within(events, a, b) <=> Within(events', a, b) \/ (b = m.id /\ Holds(events', a))
    BY <1>1, HeadAdds
  <2> QED BY <2>1, <2>2, BehindPrime, WaitingPrime, WaitingSplit DEF NoDropAdded, Behind
<1>3. CASE queue' = queue
  <2>1. /\ \A a : Holds(events, a) <=> Holds(events', a) \/ a = m.id
        /\ \A a, b : Within(events, a, b) <=> Within(events', a, b) \/ (b = m.id /\ Holds(events', a))
    BY <1>1, HeadAdds
  <2> QED BY <1>3, <2>1, BehindPrime, WaitingPrime, WaitingSplit DEF NoDropAdded, Behind
<1> QED BY <1>1, <1>2, <1>3 DEF Send

\* A link ends: it is reported, and no end was before.
LEMMA DropReported ==
    ASSUME TypeOK, DropInv, drv # "idle", drv' = "idle", state' = state,
           NEW r \in Reasons, events' = Append(events, Disconnected(r)),
           \/ queue' = queue
           \/ \E other : other \notin LinkIds /\ Receive(other)
    PROVE  DropInv'
<1>1. /\ Waiting("DISCONNECTED")' <=> TRUE
      /\ Behind("DISCONNECTED", "DISCONNECTED")' =>
             Behind("DISCONNECTED", "DISCONNECTED") \/ Waiting("DISCONNECTED")
  BY LinkRaised, MsgType DEF Disconnected, LinkIds
<1> QED BY <1>1 DEF DropInv

LEMMA DropNext == TypeOK /\ SelectionInv /\ DropInv /\ [Next]_vars => DropInv'
<1> SUFFICES ASSUME TypeOK, SelectionInv, DropInv, [Next]_vars PROVE DropInv'
  OBVIOUS
<1>c. scanPurpose = "CONNECT" => state \notin Linked
  BY DEF SelectionInv, SelectingScan, Linked
<1>l. /\ "INIT" \notin Linked /\ "DISCONNECTED" \notin Linked
      /\ "CONNECTING" \in Linked /\ "CONNECTED" \in Linked /\ "ONLINE" \in Linked
  BY DEF Linked
<1>1. CASE HandleStaStart
  <2>1. NoDropAdded /\ drv' = drv /\ state \notin Linked
    BY <1>1, <1>l, ReceivedAddsNone DEF HandleStaStart
  <2> QED BY <2>1, DropPreserved
<1>2. CASE HandleConnected \/ HandleGotIp
  <2>1. NoDropAdded /\ drv' = drv
    BY <1>2, ReceivedAddsNone DEF HandleConnected, HandleGotIp, driver
  <2>2. state' = state \/ state' \in Linked
    BY <1>2, <1>l DEF HandleConnected, HandleGotIp
  <2> QED BY <2>1, <2>2, DropPreserved
<1>3. CASE HandleDisconnected
  <2>1. Receive("DISCONNECTED") /\ events' = events /\ drv' = drv /\ state' = "DISCONNECTED"
    BY <1>3 DEF HandleDisconnected, driver
  <2>2. /\ Waiting("DISCONNECTED") /\ NoDropAdded
        /\ Waiting("DISCONNECTED")' => Behind("DISCONNECTED", "DISCONNECTED")
    BY <2>1, LinkReceived, ReceivedAddsNone
  <2> QED BY <2>1, <2>2 DEF DropInv, NoDropAdded
<1>4. CASE HandleUserScanDone \/ HandleCmdScan \/ HandleReconnectIgnored
  <2>1. NoDropAdded /\ drv' = drv /\ state' = state
    BY <1>4, ReceivedAddsNone DEF HandleUserScanDone, HandleCmdScan, HandleReconnectIgnored, driver
  <2> QED BY <2>1, DropPreserved
<1>5. CASE HandleScanFindsNothing \/ \E ap \in Aps : HandleScanCancelled(ap)
  <2>1. NoDropAdded /\ drv' = drv /\ state \notin Linked
    BY <1>5, <1>c, ReceivedAddsNone DEF HandleScanFindsNothing, HandleScanCancelled, driver
  <2> QED BY <2>1, DropPreserved
<1>6. CASE \E ap \in Aps : HandleScanFinds(ap)
  <2>1. NoDropAdded /\ state \notin Linked
    BY <1>6, <1>c, ReceivedAddsNone DEF HandleScanFinds
  <2>2. drv' = drv \/ state' \in Linked
    BY <1>6, <1>l DEF HandleScanFinds
  <2> QED BY <2>1, <2>2, DropPreserved
<1>7. CASE HandleCmdConnect
  <2>1. NoDropAdded /\ drv' = drv
    BY <1>7, ReceivedAddsNone DEF HandleCmdConnect
  <2>2. state' = state \/ state \notin Linked
    BY <1>7, <1>l DEF HandleCmdConnect
  <2> QED BY <2>1, <2>2, DropPreserved
<1>8. CASE HandleCmdDisconnect
  <2>1. Receive("CMD_DISCONNECT") /\ state' = state
    BY <1>8 DEF HandleCmdDisconnect
  <2>2. CASE events' = events /\ (drv' = drv \/ drv' = "idle")
    BY <2>1, <2>2, ReceivedAddsNone, DropPreserved
  <2>3. CASE /\ drv # "idle" /\ drv' = "idle"
             /\ events' = Append(events, Disconnected("ASSOC_LEAVE"))
    BY <2>1, <2>3, DropReported DEF Reasons, LinkIds
  <2> QED BY <1>8, <2>2, <2>3 DEF HandleCmdDisconnect, DriverDisconnect
<1>9. CASE HandleReconnectRescan
  <2>1. NoDropAdded /\ drv' = drv /\ state \notin Linked
    BY <1>9, <1>l, ReceivedAddsNone DEF HandleReconnectRescan, TakeRecovery
  <2> QED BY <2>1, DropPreserved
<1>10. CASE HandleReconnectDirect
  <2>1. NoDropAdded /\ state \notin Linked
    BY <1>10, <1>l, ReceivedAddsNone DEF HandleReconnectDirect, TakeRecovery
  <2>2. drv' = drv \/ state' \in Linked
    BY <1>10, <1>l DEF HandleReconnectDirect
  <2> QED BY <2>1, <2>2, DropPreserved
<1>11. CASE ForwardEvent
  <2>1. NoDropAdded /\ drv' = drv /\ state' = state
    BY <1>11, ForwardAddsNone DEF ForwardEvent, ctx
  <2> QED BY <2>1, DropPreserved
<1>12. CASE TimerExpires \/ StaleTimerExpires
  <2>1. /\ queue' = queue \/ queue' = Append(queue, Msg("RECONNECT"))
        /\ UNCHANGED <<events, drv, state>>
    BY <1>12 DEF TimerExpires, StaleTimerExpires, Send, ctx, driver
  <2>2. NoDropAdded
    BY <2>1, SentAddsNone, MsgType DEF Msg
  <2> QED BY <2>1, <2>2, DropPreserved
<1>13. CASE ApiCall
  <2>1. PICK c \in ApiCommands : queue' = Append(queue, Msg(c))
    BY <1>13 DEF ApiCall
  <2>2. UNCHANGED <<events, drv, state>>
    BY <1>13 DEF ApiCall, ctx, driver
  <2>3. NoDropAdded
    BY <2>1, <2>2, SentAddsNone, MsgType, CommandAssumption DEF Msg, Commands
  <2> QED BY <2>2, <2>3, DropPreserved
<1>14. CASE TimerTaskCatchesUp \/ UNCHANGED vars
  <2>1. UNCHANGED <<queue, events, drv, state>>
    BY <1>14 DEF TimerTaskCatchesUp, vars, ctx, driver
  <2>2. NoDropAdded
    BY <2>1, BehindPrime, WaitingPrime, WaitingSplit DEF NoDropAdded, Behind
  <2> QED BY <2>1, <2>2, DropPreserved
<1>15. CASE DriverScanDone \/ DriverAssociates \/ DriverGetsIp
  <2>1. PICK m \in Message : events' = Append(events, m) /\ m.id # "DISCONNECTED"
    BY <1>15, MsgType DEF DriverScanDone, DriverAssociates, DriverGetsIp, Msg
  <2>2. queue' = queue /\ state' = state
    BY <1>15 DEF DriverScanDone, DriverAssociates, DriverGetsIp, ctx
  <2>3. NoDropAdded
    BY <2>1, <2>2, LinkRaised DEF NoDropAdded, LinkIds
  <2>4. drv' = drv \/ (drv # "idle" /\ drv' # "idle")
    BY <1>15 DEF DriverScanDone, DriverAssociates, DriverGetsIp
  <2> QED BY <2>2, <2>3, <2>4 DEF DropInv, NoDropAdded
<1>16. CASE DriverDrops
  <2>1. PICK r \in DropReasons : events' = Append(events, Disconnected(r))
    BY <1>16 DEF DriverDrops
  <2>2. drv # "idle" /\ drv' = "idle" /\ state' = state /\ queue' = queue
    BY <1>16 DEF DriverDrops, ctx
  <2> QED BY <2>1, <2>2, DropReported, ReasonAssumption
<1> QED BY <1>1, <1>2, <1>3, <1>4, <1>5, <1>6, <1>7, <1>8, <1>9, <1>10, <1>11, <1>12, <1>13,
        <1>14, <1>15, <1>16 DEF Next, Manager, Driver

LEMMA DropsFindALink == Spec => []DropInv
<1>1. Init => DropInv
  BY DEF Init, DropInv, Behind, Within, Holds, Waiting, Msg
<1> QED BY <1>1, DropNext, TypeCorrect, SelectionIsConsistent, PTL DEF Spec

\* A selecting scan runs in SELECTING_AP and in no other state, and SELECTING_AP
\* has its scan, whatever message is late or lost and whatever call fails.
THEOREM SelectionScanCorrect == Spec => []SelectionOwnsTheScan
<1> DEFINE Owned == scanPurpose = "CONNECT" => state = "SELECTING_AP"
<1>1. Init => Owned
  BY DEF Init
<1>2. TypeOK /\ SelectionInv /\ DropInv /\ Owned /\ [Next]_vars => Owned'
  <2> SUFFICES ASSUME TypeOK, SelectionInv, DropInv, Owned, [Next]_vars PROVE Owned'
    OBVIOUS
  <2>1. CASE HandleStaStart \/ HandleCmdConnect \/ HandleReconnectRescan
    BY <2>1 DEF HandleStaStart, HandleCmdConnect, HandleReconnectRescan, TakeRecovery,
       StartApSelection, StartScan
  <2>2. CASE HandleDisconnected
    <3>1. Waiting("DISCONNECTED")
      BY <2>2, LinkReceived DEF HandleDisconnected, driver
    <3>2. state \in Linked
      BY <3>1 DEF DropInv
    <3>3. scanPurpose' = scanPurpose /\ scanPurpose # "CONNECT"
      BY <2>2, <3>2 DEF HandleDisconnected, SelectionInv, SelectingScan, Linked
    <3> QED BY <3>3
  <2>3. CASE HandleConnected \/ HandleGotIp
    BY <2>3 DEF HandleConnected, HandleGotIp, IpAwaited
  <2>4. CASE \/ HandleUserScanDone \/ HandleScanFindsNothing
             \/ \E ap \in Aps : HandleScanCancelled(ap) \/ HandleScanFinds(ap)
    BY <2>4 DEF HandleUserScanDone, HandleScanFindsNothing, HandleScanCancelled, HandleScanFinds
  <2>5. CASE HandleCmdDisconnect \/ HandleCmdScan \/ HandleReconnectIgnored
    BY <2>5 DEF HandleCmdDisconnect, HandleCmdScan, HandleReconnectIgnored, StartScan
  <2>6. CASE HandleReconnectDirect
    BY <2>6 DEF HandleReconnectDirect, TakeRecovery
  <2>7. CASE ForwardEvent \/ TimerExpires \/ StaleTimerExpires \/ TimerTaskCatchesUp \/ ApiCall
    BY <2>7 DEF ForwardEvent, TimerExpires, StaleTimerExpires, TimerTaskCatchesUp, ApiCall, ctx
  <2>8. CASE Driver \/ UNCHANGED vars
    BY <2>8 DEF Driver, DriverScanDone, DriverAssociates, DriverGetsIp, DriverDrops, vars, ctx
  <2> QED BY <2>1, <2>2, <2>3, <2>4, <2>5, <2>6, <2>7, <2>8 DEF Next, Manager
<1>3. SelectionInv /\ Owned => SelectionOwnsTheScan
  BY DEF SelectionInv, SelectingScan, SelectionOwnsTheScan
<1> QED BY <1>1, <1>2, <1>3, TypeCorrect, SelectionIsConsistent, DropsFindALink, PTL DEF Spec

-----------------------------------------------------------------------------

\* With nothing in flight and nothing lost the manager's state is the driver's
\* connection, however commands, late events, refused calls and timers
\* interleaved on the way there.
THEOREM QuietAgreement == Spec => []AgreesWhenQuiet
<1>1. TypeOK /\ LinkInv => AgreesWhenQuiet
  <2> SUFFICES ASSUME TypeOK, LinkInv, queue = <<>>, events = <<>>, ~lost
               PROVE  CASE state = "CONNECTING" -> drv = "connecting"
                        [] state = "CONNECTED"  -> drv = "associated"
                        [] state = "ONLINE"     -> drv = "up"
                        [] OTHER                -> drv = "idle"
    BY DEF AgreesWhenQuiet
  <2>1. \A id : ~Waiting(id)
    BY DEF Waiting
  <2>2. drv \in {"idle", "connecting", "associated", "up"}
    BY DEF TypeOK, DriverOK
  <2>3. state \notin Linked => drv = "idle"
    BY DEF LinkInv, NoLinkKnown
  <2>4. CASE state \in Linked
    BY <2>1, <2>2, <2>4 DEF LinkInv, LinkReported, Linked
  <2>5. CASE state \notin Linked
    BY <2>3, <2>5 DEF Linked
  <2> QED BY <2>4, <2>5
<1> QED BY <1>1, LinkIsReported, TypeCorrect, PTL

-----------------------------------------------------------------------------
(* Recovery never stops.  What stops it in the source is known: a scan the  *)
(* driver refuses, a user's scan in the way of a selection, a timer command *)
(* that is not accepted, and an ASSOC_LEAVE that was not asked for; each of *)
(* these has a path on which nothing is scheduled.  Without them, and with  *)
(* no message lost, nothing else does.                                      *)

NothingInTheWay ==
    /\ Faults \cap {"scan", "arm"} = {}
    /\ "CMD_SCAN" \notin ApiCommands
    /\ "ASSOC_LEAVE" \notin DropReasons

Leave == Disconnected("ASSOC_LEAVE")
Leaving(q) == \E i \in DOMAIN q : q[i] = Leave

\* Every scan selects an AP.
OnlySelections == scanPurpose # "USER" /\ ~Waiting("CMD_SCAN")

\* The manager that is told of a disconnection of its own making does not want
\* a connection any more: wifi_manager_connect is not heeded before.
LeavesUnwanted == ~lost /\ autoReconnect => ~Leaving(queue) /\ ~Leaving(events)

\* RecoveryUnderway without the stale timer, which the timer task may silence.
RecoveryScheduled ==
    ~lost /\ autoReconnect /\ state = "DISCONNECTED" =>
        \/ scanPurpose = "CONNECT"
        \/ pending # "NONE" /\ (timerArmed \/ Holds(queue, "RECONNECT"))

RecoveryInv == OnlySelections /\ LeavesUnwanted /\ RecoveryScheduled

\* An appended message makes a queue hold a leave only if it is one.
LEMMA AppendLeave ==
    ASSUME NEW q \in Seq(Message), NEW m \in Message, NEW r, r = Append(q, m)
    PROVE  Leaving(r) <=> Leaving(q) \/ m = Leave
<1>1. /\ DOMAIN r = DOMAIN q \cup {Len(q) + 1}
      /\ r[Len(q) + 1] = m
      /\ \A i \in DOMAIN q : r[i] = q[i] /\ i < Len(q) + 1
  OBVIOUS
<1> QED BY <1>1 DEF Leaving

\* Taking a message out makes no leave appear.
LEMMA HeadLeave ==
    ASSUME NEW q \in Seq(Message), q # <<>>
    PROVE  /\ Leaving(Tail(q)) => Leaving(q)
           /\ Head(q) = Leave => Leaving(q)
<1>1. /\ \A i \in DOMAIN Tail(q) : i + 1 \in DOMAIN q /\ Tail(q)[i] = q[i + 1]
      /\ 1 \in DOMAIN q /\ Head(q) = q[1]
  OBVIOUS
<1> QED BY <1>1 DEF Leaving

\* A DISCONNECTED is a message about a link.
LEMMA LeaveWaits == Leaving(queue) \/ Leaving(events) => Waiting("DISCONNECTED")
BY DEF Leaving, Leave, Disconnected, Waiting

\* Receiving adds no leave that was not there.
LEMMA LeaveReceived ==
    ASSUME TypeOK, NEW id, Receive(id)
    PROVE  /\ Leaving(queue') => Leaving(queue)
           /\ Head(queue) = Leave => Leaving(queue)
BY HeadLeave DEF TypeOK, QueueOK, Receive

\* Nor does forwarding an event.
LEMMA LeaveForwarded ==
    ASSUME TypeOK, ForwardEvent, ~lost', ~Leaving(queue), ~Leaving(events)
    PROVE  ~Leaving(queue') /\ ~Leaving(events')
<1>1. /\ events \in Seq(Message) /\ events # <<>> /\ events' = Tail(events)
      /\ queue \in Seq(Message) /\ queue' = Append(queue, Head(events))
      /\ Head(events) \in Message
  BY DEF TypeOK, DriverOK, QueueOK, ForwardEvent, Send
<1> QED BY <1>1, AppendLeave, HeadLeave

\* wifi_manager_start_ap_selection without a link: a selecting scan runs or
\* has been running.
LEMMA SelectionRuns ==
    ASSUME TypeOK, OnlySelections, StartApSelection, drv = "idle", NothingInTheWay
    PROVE  scanPurpose' = "CONNECT"
<1>1. scanPurpose \in {"NONE", "CONNECT"}
  BY DEF TypeOK, CtxOK, OnlySelections
<1> QED BY <1>1 DEF StartApSelection, StartScan, ScanRefused, NothingInTheWay

\* wifi_manager_schedule_recovery when the timer command is accepted.
LEMMA ArmedRecovery ==
    ASSUME NEW action \in {"DIRECT_RECONNECT", "RESCAN"}, ScheduleRecovery(action), NothingInTheWay
    PROVE  pending' # "NONE" /\ timerArmed'
BY DEF ScheduleRecovery, NothingInTheWay

\* At the start no recovery is due.
LEMMA RecoveryInit == Init => RecoveryInv
BY DEF Init, RecoveryInv, OnlySelections, LeavesUnwanted, RecoveryScheduled, Waiting, Leaving,
   Leave, Disconnected, Msg

\* No user's scan comes in.
LEMMA OnlySelectionsNext ==
    ASSUME TypeOK, OnlySelections, [Next]_vars, NothingInTheWay
    PROVE  OnlySelections'
<1>p. scanPurpose \in {"NONE", "CONNECT"} /\ ~Holds(queue, "CMD_SCAN") /\ ~Holds(events, "CMD_SCAN")
  BY WaitingSplit DEF TypeOK, CtxOK, OnlySelections
<1>s. SUFFICES /\ scanPurpose' # "USER"
               /\ ~Holds(queue', "CMD_SCAN") /\ ~Holds(events', "CMD_SCAN")
  BY WaitingPrime DEF OnlySelections
<1>q. ASSUME NEW m \in Message, m.id # "CMD_SCAN", queue' = Append(queue, m)
      PROVE  ~Holds(queue', "CMD_SCAN")
  BY <1>p, <1>q, AppendAdds DEF TypeOK, QueueOK
<1>e. ASSUME NEW m \in Message, m.id # "CMD_SCAN", events' = Append(events, m)
      PROVE  ~Holds(events', "CMD_SCAN")
  BY <1>p, <1>e, RaiseAdds
<1>1. CASE Manager
  <2>1. PICK id : Receive(id)
    BY <1>1, HandlerReceives
  <2>2. ~Holds(queue', "CMD_SCAN") /\ ~HandleCmdScan
    BY <1>p, <2>1, ReceiveTakes DEF HandleCmdScan
  <2>3. events' = events \/ events' = Append(events, Leave)
    BY <1>1, HandlerRaises DEF Leave
  <2>4. ~Holds(events', "CMD_SCAN")
    BY <1>e, <1>p, <2>3, MsgType DEF Leave, Disconnected, Reasons
  <2>5. scanPurpose' # "USER"
    BY <1>1, <1>p, <2>2 DEF Manager, HandleStaStart, HandleConnected, HandleGotIp,
       HandleDisconnected, HandleUserScanDone, HandleScanFindsNothing, HandleScanCancelled,
       HandleScanFinds, HandleCmdConnect, HandleCmdDisconnect, StartApSelection, StartScan,
       HandleReconnectIgnored, HandleReconnectRescan, HandleReconnectDirect
  <2> QED BY <2>2, <2>4, <2>5
<1>2. CASE ~Manager
  <2>0. scanPurpose' = scanPurpose
    BY <1>2, OnlyHandlersWrite DEF ctx
  <2>1. CASE ForwardEvent
    <3>1. /\ events \in Seq(Message) /\ events # <<>> /\ events' = Tail(events)
          /\ Head(events) \in Message
          /\ queue' = queue \/ queue' = Append(queue, Head(events))
      BY <2>1 DEF TypeOK, DriverOK, ForwardEvent, Send
    <3>2. ~Holds(events', "CMD_SCAN") /\ Head(events).id # "CMD_SCAN"
      BY <1>p, <3>1, HeadAdds
    <3> QED BY <1>p, <1>q, <2>0, <3>1, <3>2
  <2>2. CASE TimerExpires \/ StaleTimerExpires
    <3>1. events' = events /\ (queue' = queue \/ queue' = Append(queue, Msg("RECONNECT")))
      BY <2>2 DEF TimerExpires, StaleTimerExpires, Send, driver
    <3> QED BY <1>p, <1>q, <2>0, <3>1, MsgType DEF Msg
  <2>3. CASE ApiCall
    <3>1. PICK c \in ApiCommands : queue' = Append(queue, Msg(c))
      BY <2>3 DEF ApiCall
    <3>2. events' = events /\ c # "CMD_SCAN" /\ Msg(c) \in Message /\ Msg(c).id = c
      BY <2>3, MsgType, CommandAssumption DEF ApiCall, driver, NothingInTheWay, Msg
    <3> QED BY <1>p, <1>q, <2>0, <3>1, <3>2
  <2>4. CASE TimerTaskCatchesUp \/ UNCHANGED vars
    BY <1>p, <2>0, <2>4 DEF TimerTaskCatchesUp, vars, driver
  <2>5. CASE Driver
    <3>1. queue' = queue
      BY <2>5 DEF Driver, DriverScanDone, DriverAssociates, DriverGetsIp, DriverDrops
    <3>2. \E m \in Message : m.id # "CMD_SCAN" /\ events' = Append(events, m)
      BY <2>5, MsgType, ReasonAssumption DEF Driver, DriverScanDone, DriverAssociates,
         DriverGetsIp, DriverDrops, Msg, Disconnected
    <3> QED BY <1>e, <1>p, <2>0, <3>1, <3>2
  <2> QED BY <1>2, <2>1, <2>2, <2>3, <2>4, <2>5 DEF Next
<1> QED BY <1>1, <1>2

\* No leave is in flight while a connection is wanted.  What makes a
\* connection wanted again is only heeded without a link, and then nothing
\* about a link is in flight.
LEMMA LeavesUnwantedNext ==
    ASSUME TypeOK, LinkInv, LeavesUnwanted, [Next]_vars, NothingInTheWay
    PROVE  LeavesUnwanted'
<1> SUFFICES ASSUME ~lost', autoReconnect' PROVE ~Leaving(queue') /\ ~Leaving(events')
  BY DEF LeavesUnwanted, Leaving
<1>l. ~lost
  BY LostStays
<1>n. state \notin Linked => ~Leaving(queue) /\ ~Leaving(events)
  BY <1>l, LeaveWaits DEF LinkInv, NoLinkKnown, LinkIds
<1>w. autoReconnect => ~Leaving(queue) /\ ~Leaving(events)
  BY <1>l DEF LeavesUnwanted
<1>1. CASE Manager
  <2>1. ~Leaving(queue) /\ ~Leaving(events)
    <3>1. autoReconnect \/ state \notin Linked
      BY <1>1 DEF Manager, HandleStaStart, HandleConnected, HandleGotIp,
         HandleDisconnected, HandleUserScanDone, HandleScanFindsNothing, HandleScanCancelled,
         HandleScanFinds, HandleCmdConnect, HandleCmdDisconnect, HandleCmdScan,
         HandleReconnectIgnored, HandleReconnectRescan, HandleReconnectDirect, Linked
    <3> QED BY <1>n, <1>w, <3>1
  <2>2. PICK id : Receive(id)
    BY <1>1, HandlerReceives
  <2>3. events' = events
    BY <1>1, HandlerRaises DEF HandleCmdDisconnect
  <2> QED BY <2>1, <2>2, <2>3, LeaveReceived
<1>2. CASE ~Manager
  <2>0. ~Leaving(queue) /\ ~Leaving(events)
    <3>1. autoReconnect' = autoReconnect
      BY <1>2, OnlyHandlersWrite DEF ctx
    <3> QED BY <1>w, <3>1
  <2>1. CASE ForwardEvent
    BY <2>0, <2>1, LeaveForwarded
  <2>2. CASE TimerExpires \/ StaleTimerExpires
    <3>1. events' = events /\ queue' = Append(queue, Msg("RECONNECT"))
      BY <2>2 DEF TimerExpires, StaleTimerExpires, Send, driver
    <3>2. Msg("RECONNECT") # Leave
      BY DEF Msg, Leave, Disconnected
    <3> QED BY <2>0, <3>1, <3>2, MsgType, AppendLeave DEF TypeOK, QueueOK
  <2>3. CASE ApiCall
    <3>1. PICK c \in ApiCommands : queue' = Append(queue, Msg(c))
      BY <2>3 DEF ApiCall
    <3>2. events' = events /\ Msg(c) \in Message /\ Msg(c) # Leave
      BY <2>3, MsgType, CommandAssumption DEF ApiCall, driver, Msg, Leave, Disconnected
    <3> QED BY <2>0, <3>1, <3>2, AppendLeave DEF TypeOK, QueueOK
  <2>4. CASE TimerTaskCatchesUp \/ UNCHANGED vars
    BY <2>0, <2>4 DEF TimerTaskCatchesUp, vars, driver
  <2>5. CASE Driver
    <3>1. queue' = queue
      BY <2>5 DEF Driver, DriverScanDone, DriverAssociates, DriverGetsIp, DriverDrops
    <3>2. \E m \in Message : m # Leave /\ events' = Append(events, m)
      BY <2>5, MsgType, ReasonAssumption DEF Driver, DriverScanDone, DriverAssociates,
         DriverGetsIp, DriverDrops, Msg, Leave, Disconnected, NothingInTheWay
    <3> QED BY <2>0, <3>1, <3>2, AppendLeave DEF TypeOK, DriverOK
  <2> QED BY <1>2, <2>1, <2>2, <2>3, <2>4, <2>5 DEF Next
<1> QED BY <1>1, <1>2

\* Something is always scheduled.
LEMMA RecoveryScheduledNext ==
    ASSUME TypeOK, LinkInv, RecoveryInv, [Next]_vars, NothingInTheWay
    PROVE  RecoveryScheduled'
<1> SUFFICES ASSUME ~lost', autoReconnect', state' = "DISCONNECTED"
             PROVE  \/ scanPurpose' = "CONNECT"
                    \/ pending' # "NONE" /\ (timerArmed' \/ Holds(queue', "RECONNECT"))
  BY DEF RecoveryScheduled, Holds
<1>l. ~lost
  BY LostStays
<1>s. state \in {"INIT", "DISCONNECTED"} => drv = "idle"
  BY <1>l DEF LinkInv, NoLinkKnown, Linked
<1>u. autoReconnect /\ state = "DISCONNECTED" =>
          \/ scanPurpose = "CONNECT"
          \/ pending # "NONE" /\ (timerArmed \/ Holds(queue, "RECONNECT"))
  BY <1>l DEF RecoveryInv, RecoveryScheduled
<1>r. ASSUME NEW id, id # "RECONNECT", Receive(id), autoReconnect' = autoReconnect,
             UNCHANGED <<state, scanPurpose, pending, timerArmed>>
      PROVE  \/ scanPurpose' = "CONNECT"
             \/ pending' # "NONE" /\ (timerArmed' \/ Holds(queue', "RECONNECT"))
  BY <1>r, <1>u, ReceiveTakes
<1>a. StartApSelection /\ drv = "idle" => scanPurpose' = "CONNECT"
  BY SelectionRuns DEF RecoveryInv
<1>1. CASE HandleStaStart
  <2>1. AutoConnect
    BY <1>1, Zenon DEF HandleStaStart
  <2>2. StartApSelection
    BY <1>1, <2>1, Zenon DEF HandleStaStart
  <2> QED BY <1>1, <1>a, <1>s, <2>2 DEF HandleStaStart
<1>2. CASE HandleConnected \/ HandleGotIp
  <2>1. CASE HandleConnected
    BY <2>1, <1>r DEF HandleConnected, timer
  <2>2. CASE HandleGotIp
    BY <2>2, <1>r DEF HandleGotIp, timer
  <2> QED BY <1>2, <2>1, <2>2
<1>3. CASE HandleDisconnected
  <2>1. autoReconnect /\ ~Leaving(queue)
    BY <1>3, <1>l DEF HandleDisconnected, RecoveryInv, LeavesUnwanted
  <2>2. Head(queue) \in Message /\ Head(queue).id = "DISCONNECTED" /\ Head(queue) # Leave
    BY <1>3, <2>1, LeaveReceived, ReceiveType DEF HandleDisconnected, Receive, TypeOK
  <2>3. Head(queue).reason \in Reasons \ {"ASSOC_LEAVE"}
    BY <2>2 DEF Message, Commands, Leave, Disconnected
  <2>4. \A valid : ChosenRecovery(Head(queue).reason, valid) \in {"DIRECT_RECONNECT", "RESCAN"}
    BY <2>3 DEF ChosenRecovery, RecoveryAction, Reasons
  <2>5. \E action \in {"DIRECT_RECONNECT", "RESCAN"} : ScheduleRecovery(action)
    BY <1>3, <2>1, <2>4 DEF HandleDisconnected
  <2> QED BY <2>5, ArmedRecovery
<1>4. CASE HandleUserScanDone
  <2>1. scanPurpose = "NONE"
    BY <1>4 DEF HandleUserScanDone, TypeOK, CtxOK, RecoveryInv, OnlySelections
  <2> QED BY <1>4, <2>1, <1>r DEF HandleUserScanDone, timer
<1>5. CASE HandleScanFindsNothing
  <2>1. autoReconnect
    BY <1>5 DEF HandleScanFindsNothing
  <2>2. ScheduleRecovery("RESCAN")
    BY <1>5, <2>1, Zenon DEF HandleScanFindsNothing, RescansLater
  <2> QED BY <2>2, ArmedRecovery
<1>6. CASE \E ap \in Aps : HandleScanCancelled(ap)
  <2>1. ~autoReconnect'
    BY <1>6 DEF HandleScanCancelled, StillWanted, TypeOK, CtxOK
  <2> QED BY <2>1
<1>7. CASE \E ap \in Aps : HandleScanFinds(ap)
  <2>1. ScheduleRecovery("RESCAN")
    BY <1>7 DEF HandleScanFinds
  <2> QED BY <2>1, ArmedRecovery
<1>8. CASE HandleCmdConnect
  <2>1. CASE state = "DISCONNECTED"
    BY <1>8, <2>1, <1>a, <1>s DEF HandleCmdConnect
  <2>2. CASE state # "DISCONNECTED"
    BY <1>8, <2>2 DEF HandleCmdConnect
  <2> QED BY <2>1, <2>2
<1>9. CASE HandleCmdDisconnect
  BY <1>9 DEF HandleCmdDisconnect
<1>10. CASE HandleCmdScan
  <2>1. Waiting("CMD_SCAN")
    BY <1>10, ReceiveTakes, WaitingSplit DEF HandleCmdScan
  <2> QED BY <2>1 DEF RecoveryInv, OnlySelections
<1>11. CASE HandleReconnectIgnored
  <2>1. autoReconnect /\ state = "DISCONNECTED" /\ scanPurpose' = scanPurpose
    BY <1>11 DEF HandleReconnectIgnored
  <2>2. pending = "NONE"
    BY <1>11, <2>1 DEF HandleReconnectIgnored
  <2> QED BY <1>u, <2>1, <2>2
<1>12. CASE HandleReconnectRescan
  BY <1>12, <1>a, <1>s DEF HandleReconnectRescan, TakeRecovery
<1>13. CASE HandleReconnectDirect
  <2>1. ScheduleRecovery("RESCAN")
    BY <1>13 DEF HandleReconnectDirect
  <2> QED BY <2>1, ArmedRecovery
<1>14. CASE ~Manager
  <2>1. UNCHANGED <<state, autoReconnect, scanPurpose, pending>>
    BY <1>14, OnlyHandlersWrite DEF ctx
  <2>2. timerArmed => timerArmed' \/ Holds(queue', "RECONNECT")
    <3>1. CASE TimerExpires
      BY <3>1, SendAdds, MsgType DEF TimerExpires, Msg
    <3>2. CASE ~TimerExpires
      BY <1>14, <3>2 DEF Next, ForwardEvent, StaleTimerExpires, TimerTaskCatchesUp, ApiCall,
         Driver, DriverScanDone, DriverAssociates, DriverGetsIp, DriverDrops, vars, timer
    <3> QED BY <3>1, <3>2
  <2>3. Holds(queue, "RECONNECT") => Holds(queue', "RECONNECT")
    <3>1. queue' = queue \/ \E m \in Message : queue' = Append(queue, m)
      <4>1. CASE ForwardEvent
        BY <4>1 DEF ForwardEvent, Send, TypeOK, DriverOK
      <4>2. CASE TimerExpires \/ StaleTimerExpires
        BY <4>2, MsgType DEF TimerExpires, StaleTimerExpires, Send
      <4>3. CASE ApiCall
        BY <4>3, MsgType, CommandAssumption DEF ApiCall
      <4>4. CASE TimerTaskCatchesUp \/ Driver \/ UNCHANGED vars
        BY <4>4 DEF TimerTaskCatchesUp, Driver, DriverScanDone, DriverAssociates, DriverGetsIp,
           DriverDrops, vars
      <4> QED BY <1>14, <4>1, <4>2, <4>3, <4>4 DEF Next
    <3> QED BY <3>1, AppendAdds DEF TypeOK, QueueOK
  <2> QED BY <1>u, <2>1, <2>2, <2>3
<1> QED BY <1>1, <1>2, <1>3, <1>4, <1>5, <1>6, <1>7, <1>8, <1>9, <1>10, <1>11, <1>12, <1>13,
        <1>14 DEF Manager

\* While the user wants a connection and there is none, something is on its
\* way that will start the next recovery, at any length of the queue, for any
\* limits and links that fail for any reason but a leave, and with
\* esp_wifi_connect and esp_wifi_disconnect refused at will.
THEOREM RecoveryNeverStrands ==
    ASSUME NothingInTheWay
    PROVE  Spec => []NeverStranded
<1>1. Init => RecoveryInv
  BY RecoveryInit
<1>2. TypeOK /\ LinkInv /\ RecoveryInv /\ [Next]_vars => RecoveryInv'
  BY OnlySelectionsNext, LeavesUnwantedNext, RecoveryScheduledNext DEF RecoveryInv
<1>3. RecoveryInv => NeverStranded
  BY DEF RecoveryInv, RecoveryScheduled, NeverStranded, RecoveryUnderway, Holds
<1> QED BY <1>1, <1>2, <1>3, TypeCorrect, LinkIsReported, PTL DEF Spec
============================================================================
