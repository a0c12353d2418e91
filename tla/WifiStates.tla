----------------------------- MODULE WifiStates -----------------------------
(* The states of the Wi-Fi manager (wifi_state_t) and the moves one handled *)
(* message can make between them, shared by the modules that speak of them. *)

States == {"INIT", "DISCONNECTED", "SELECTING_AP",
           "CONNECTING", "CONNECTED", "ONLINE"}

\* States in which the manager counts on a link of the driver.
Linked == {"CONNECTING", "CONNECTED", "ONLINE"}

\* A message may always leave the state alone, and a DISCONNECTED message, an
\* unsuccessful scan or a refused call leads to DISCONNECTED from anywhere.
Moves == [s \in States |->
    {s, "DISCONNECTED"} \cup
    CASE s = "INIT"         -> {"SELECTING_AP"}
      [] s = "DISCONNECTED" -> {"SELECTING_AP", "CONNECTING"}
      [] s = "SELECTING_AP" -> {"CONNECTING"}
      [] s = "CONNECTING"   -> {"CONNECTED"}
      [] s = "CONNECTED"    -> {"ONLINE"}
      [] s = "ONLINE"       -> {}]
=============================================================================
