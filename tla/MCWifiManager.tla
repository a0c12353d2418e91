--------------------------- MODULE MCWifiManager ---------------------------
(* WifiManager on small instances: the access points are model values and  *)
(* interchangeable, so their permutations are a symmetry.                  *)
EXTENDS WifiManager, TLC

CONSTANTS a1, a2

TwoAps == {a1, a2}
OneAp == {a1}
ApSymmetry == Permutations(TwoAps)

AllReasons == Reasons
AllCommands == Commands
ConnectDisconnect == {"CMD_CONNECT", "CMD_DISCONNECT"}
NoCommands == {}
AllFaults == {"scan", "connect", "disconnect", "arm"}
NoFaults == {}
\* Every reason but ASSOC_LEAVE, which the source takes for its own request.
LinkFailures == Reasons \ {"ASSOC_LEAVE"}
=============================================================================
