-------------------------------- MODULE Boot --------------------------------
(***************************************************************************)
(* app_main: what it creates, in which order, what it waits for and what   *)
(* is left when a step fails.  The longest part is wifi_manager_init, with *)
(* wifi_manager_cleanup behind its label fail; it ends with the publishing *)
(* of a status, which module WifiStatus interleaves with the manager task  *)
(* and which wait_for_online reads.                                        *)
(*                                                                         *)
(* A step either creates the thing it is named after or fails.  The        *)
(* function that fails then releases what it has created, one thing after  *)
(* the other, while the tasks that already exist run on.                   *)
(* nvs_flash_init is left out: it passes or the device restarts here.      *)
(***************************************************************************)
EXTENDS WifiStatus, Sequences, SequencesExt

WifiOwned == {"sta_netif", "wifi_driver", "wifi_handler", "ip_handler", "sta_mode",
              "manager_queue", "status_mutex", "reconnect_timer", "manager_task",
              "wifi_started"}

WifiInit == <<"netif", "event_loop", "sta_netif", "wifi_driver", "wifi_handler",
              "ip_handler", "sta_mode", "manager_queue", "status_mutex",
              "reconnect_timer", "manager_task", "wifi_started">>

HttpInit ==
    <<"request_queue", "result_queue", "http_worker", "recovery_mutex",
      "retry_queue", "recovery_task", "stats_mutex", "result_task">>

\* Steps that create nothing: init's publish, wait_for_online, wait_for_sync.
Waits == {"published", "online", "synced"}

Steps == WifiInit \o <<"published", "online">> \o HttpInit
         \o <<"sntp_client", "synced", "telemetry_task">>

Things == ToSet(Steps) \ Waits

\* Mutant: the queue is deleted before the task that waits at it.
WifiCleanup_QueueFirst ==
    <<{"reconnect_timer"}, {"wifi_handler"}, {"ip_handler"}, {"manager_queue"},
      {"manager_task"}, {"status_mutex"}, {"wifi_started"},
      {"wifi_driver", "sta_mode"}, {"sta_netif"}>>
\* Mutant: the timer, created late, is forgotten.
WifiCleanup_KeepsTimer ==
    <<{"wifi_handler"}, {"ip_handler"}, {"manager_task"}, {"manager_queue"},
      {"status_mutex"}, {"wifi_started"}, {"wifi_driver", "sta_mode"}, {"sta_netif"}>>
\* wifi_manager_cleanup: what each of its calls releases, if it exists.
WifiCleanup ==
    <<{"reconnect_timer"}, {"wifi_handler"}, {"ip_handler"}, {"manager_task"},
      {"manager_queue"}, {"status_mutex"}, {"wifi_started"},
      {"wifi_driver", "sta_mode"}, {"sta_netif"}>>

\* What the function in which step has failed releases, in this order:
\* wifi_manager_init only returns before esp_wifi_init, later it cleans up.
Cleanup(step) ==
    CASE step \in WifiOwned \ {"sta_netif"} -> WifiCleanup
      [] step = "result_queue"  -> <<{"request_queue"}>>
      [] step = "http_worker"   -> <<{"request_queue"}, {"result_queue"}>>
      [] step = "recovery_task" -> <<{"retry_queue"}>>
      [] OTHER                  -> << >>

VARIABLES
    done,                   \* how many of the steps app_main has done
    failed,                 \* the step app_main has given up at, or "none"
    undone,                 \* how many releases the clean-up has made since
    held,                   \* the things that exist
    wasOnline,              \* history: ctx.state has been ONLINE
    answered                \* external: a time server has set the clock
boot == <<done, failed, undone, held>>
bootVars == <<vars, boot, wasOnline, answered>>

BootInit ==
    /\ Init
    /\ done = 0
    /\ failed = "none"
    /\ undone = 0
    /\ held = {}
    /\ wasOnline = FALSE /\ answered = FALSE

\* The step app_main is at.
At(step) == failed = "none" /\ done < Len(Steps) /\ Steps[done + 1] = step

-----------------------------------------------------------------------------
Creates(thing) ==
    /\ At(thing)
    /\ held' = held \cup {thing}
    /\ done' = done + 1
    /\ UNCHANGED <<vars, failed, undone, wasOnline, answered>>

FailsAt(thing) ==
    /\ At(thing)
    /\ failed' = thing
    /\ UNCHANGED <<vars, done, undone, held, wasOnline, answered>>

\* One release of the clean-up.
Undoes ==
    /\ undone < Len(Cleanup(failed))
    /\ held' = held \ Cleanup(failed)[undone + 1]
    /\ undone' = undone + 1
    /\ UNCHANGED <<vars, done, failed, wasOnline, answered>>

\* The last lines of wifi_manager_init.
Publishes ==
    /\ At("published")
    /\ InitTask
    /\ done' = IF initPc' = "returned" THEN done + 1 ELSE done
    /\ UNCHANGED <<failed, undone, held, wasOnline, answered>>

Proceeds == done' = done + 1 /\ UNCHANGED failed
GivesUpAt(step) == failed' = step /\ UNCHANGED done

\* wait_for_online: one of the polls finds the status ONLINE, or none does
\* for 30 s.
WaitsForOnline ==
    /\ At("online")
    /\ (snapshot.online /\ Proceeds) \/ GivesUpAt("online")
    /\ UNCHANGED <<vars, undone, held, wasOnline, answered>>

\* Mutant: the time-out of the wait is not looked at.
SyncWaited_Unchecked == TRUE
SyncWaited == answered

\* sntp_time_manager_wait_for_sync: an answer within 10 s, or none.
WaitsForSync ==
    /\ At("synced")
    /\ (SyncWaited /\ Proceeds) \/ GivesUpAt("synced")
    /\ UNCHANGED <<vars, undone, held, wasOnline, answered>>

\* External: the first answer of a time server.
ServerAnswers ==
    /\ "sntp_client" \in held /\ ~answered
    /\ answered' = TRUE
    /\ UNCHANGED <<vars, boot, wasOnline>>

\* The manager task gets its first event from the started driver, and goes on
\* when app_main has returned.
ManagerRuns ==
    /\ {"manager_task", "wifi_started"} \subseteq held
    /\ Manager
    /\ wasOnline' = (wasOnline \/ state' = "ONLINE")
    /\ UNCHANGED <<boot, answered>>

BootNext ==
    \/ \E thing \in Things : Creates(thing) \/ FailsAt(thing)
    \/ Undoes
    \/ Publishes \/ WaitsForOnline \/ WaitsForSync
    \/ ServerAnswers \/ ManagerRuns

BootSpec == BootInit /\ [][BootNext]_bootVars

-----------------------------------------------------------------------------
\* What a task uses without asking whether it exists, from its first round on
\* or as soon as another task hands it work.  The manager task waits at its
\* queue.  Mutex and timer it uses only while it handles a message, and asks
\* for them; but a message comes as soon as the driver is started, and one
\* that finds no timer is a recovery that never happens.
Needs ==
    [ thing \in {"manager_task", "wifi_started", "http_worker", "recovery_task",
                 "result_task", "telemetry_task"} |->
        CASE thing = "manager_task"   -> {"manager_queue"}
          [] thing = "wifi_started"   -> {"wifi_handler", "ip_handler", "manager_queue",
                                          "manager_task", "status_mutex", "reconnect_timer"}
          [] thing = "http_worker"    -> {"request_queue", "result_queue"}
          [] thing = "recovery_task"  -> {"retry_queue", "request_queue"}
          [] thing = "result_task"    -> {"result_queue", "stats_mutex", "recovery_mutex",
                                          "retry_queue"}
          [] thing = "telemetry_task" -> {"request_queue", "stats_mutex", "result_task",
                                          "recovery_task", "http_worker"} ]

\* No task runs, and no driver reports, before what it uses exists; and while
\* a failed function releases one thing after the other nothing goes before
\* the task that uses it.  The reconnect timer does go before the manager
\* task: that is no loss because the last step that can fail in
\* wifi_manager_init is the start of the driver, so that no message has come.
TasksFindTheirResources ==
    \A thing \in held \cap DOMAIN Needs : Needs[thing] \subseteq held

\* When an app_main that gave up has come to the end of its clean-up each
\* module is either complete or empty: no queue without the task that reads
\* it, and nothing of a Wi-Fi manager that failed to start except the network
\* interface layer and the event loop, which no cleanup gives back.
Groups == {WifiOwned, {"request_queue", "result_queue", "http_worker"},
           {"retry_queue", "recovery_task"}}
CleanedUp == failed # "none" /\ undone = Len(Cleanup(failed))
FailureLeavesWholeModules ==
    CleanedUp => \A group \in Groups : group \subseteq held \/ group \cap held = {}

\* Requests are only sent by a device that has been online and knows the time:
\* whatever status wifi_manager_init and the manager publish over each other,
\* wait_for_online never sees one that was never true.
TelemetryNeedsLinkAndTime ==
    /\ "request_queue" \in held => wasOnline
    /\ "telemetry_task" \in held => answered
=============================================================================
