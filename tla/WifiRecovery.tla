--------------------------- MODULE WifiRecovery ---------------------------
(***************************************************************************)
(* A series of recoveries with the access points it chooses: WifiBackoff   *)
(* says when a recovery happens, ApSelection what a scan selects, and this *)
(* module puts the steps of one recovery between them.  A recovery scans   *)
(* for an AP (RESCAN) or goes straight to the one selected before          *)
(* (DIRECT_RECONNECT); which of the two wifi_get_recovery_action asks for  *)
(* is module WifiManager's subject and a free choice here.                 *)
(***************************************************************************)
EXTENDS WifiBackoff, ApSelection

CONSTANTS MaxRecords        \* bound of the model: APs in one scan
ASSUME RecordsAssumption == MaxRecords \in Nat \ {0}

VARIABLES
    step,                   \* "none", or while pc = "recovering" how far a
                            \* recovery has come: "scanning", "connecting"
    selectedAp,             \* ctx.selected_ap
    selectedApValid,        \* ctx.selected_ap_valid
    found                   \* history: the records of the scan that was just
                            \* used; <<>> when there is none
selection == <<step, selectedAp, selectedApValid, found>>
recoveryVars == <<vars, selection>>

\* esp_wifi_scan_get_ap_records: at least one record, in any order.
Scans == UNION {[1 .. n -> Record] : n \in 1 .. MaxRecords}

RecoveryInit ==
    /\ Init
    /\ step = "none"
    /\ selectedAp = Nothing /\ selectedApValid = FALSE
    /\ found = <<>>

-----------------------------------------------------------------------------
\* wifi_manager_schedule_recovery, and the timer.
WaitsForRecovery ==
    /\ Schedule \/ TakeRecovery
    /\ found' = <<>>
    /\ UNCHANGED <<step, selectedAp, selectedApValid>>

\* wifi_manager_start_ap_selection
StartSelection ==
    /\ pc = "recovering" /\ step = "none"
    /\ \/ step' = "scanning" /\ UNCHANGED vars
       \/ SelectionRefused /\ UNCHANGED step
    /\ selectedApValid' = FALSE
    /\ UNCHANGED <<selectedAp, found>>

\* wifi_manager_reconnect_to_current_ap
ReconnectDirectly ==
    /\ pc = "recovering" /\ step = "none" /\ selectedApValid
    /\ \/ step' = "connecting" /\ UNCHANGED <<vars, selectedApValid>>
       \/ RecoveryFails /\ selectedApValid' = FALSE /\ UNCHANGED step
    /\ UNCHANGED <<selectedAp, found>>

\* No AP at all, or the records cannot be read.
ScanFails ==
    /\ step = "scanning"
    /\ RecoveryFails
    /\ step' = "none"
    /\ UNCHANGED <<selectedAp, selectedApValid, found>>

\* wifi_manager_process_scan_results without an AP of ours: selected_ap is
\* left as it was.
ScanMisses ==
    /\ step = "scanning"
    /\ found' \in Scans
    /\ Select(found') = Nothing
    /\ RecoveryFails
    /\ step' = "none"
    /\ UNCHANGED <<selectedAp, selectedApValid>>

\* wifi_manager_process_scan_results with one, and
\* wifi_manager_connect_selected_ap.
ScanFinds ==
    /\ step = "scanning"
    /\ found' \in Scans
    /\ Select(found') # Nothing
    /\ selectedAp' = Select(found')
    /\ selectedApValid' = TRUE
    /\ step' = "connecting"
    /\ UNCHANGED vars

\* esp_wifi_set_config or esp_wifi_connect fails, on the AP just selected.
ConnectRefused ==
    /\ step = "connecting" /\ found # <<>>
    /\ RecoveryFails
    /\ step' = "none"
    /\ selectedApValid' = FALSE
    /\ found' = <<>>
    /\ UNCHANGED selectedAp

ConnectionUp ==
    /\ step = "connecting"
    /\ GetsOnline
    /\ step' = "none"
    /\ found' = <<>>
    /\ UNCHANGED <<selectedAp, selectedApValid>>

\* DISCONNECTED of an attempt or of the link; NO_AP_FOUND makes the AP invalid.
ConnectionDrops ==
    /\ (step = "connecting" /\ RecoveryFails) \/ LinkDrops
    /\ step' = "none"
    /\ selectedApValid' \in {selectedApValid, FALSE}
    /\ found' = <<>>
    /\ UNCHANGED selectedAp

\* CMD_CONNECT starts with a new selection; one that is refused leaves the
\* series stopped.
UserStartsSelection ==
    /\ UserConnects
    /\ step' = "scanning"
    /\ selectedApValid' = FALSE
    /\ UNCHANGED <<selectedAp, found>>

RecoveryNext ==
    \/ WaitsForRecovery \/ StartSelection \/ ReconnectDirectly
    \/ ScanFails \/ ScanMisses \/ ScanFinds \/ ConnectRefused
    \/ ConnectionUp \/ ConnectionDrops \/ UserStartsSelection

RecoverySpec == RecoveryInit /\ [][RecoveryNext]_recoveryVars

-----------------------------------------------------------------------------
\* A recovery connects exactly when its scan shows an AP of ours, hidden SSIDs
\* and other networks apart, and then to the strongest.
SelectsStrongest ==
    found # <<>> =>
        /\ step = "connecting" <=> \E n \in DOMAIN found : IsBest(n, found)
        /\ step = "connecting" =>
               \E n \in DOMAIN found : IsBest(n, found) /\ selectedAp = <<found[n]>>
=============================================================================
