---------------------------- MODULE ApSelection ----------------------------
(***************************************************************************)
(* wifi_manager_process_scan_results: which of the access points a scan    *)
(* found becomes ctx.selected_ap.  A record keeps what the loop looks at:  *)
(* whether the SSID is the configured one (a hidden SSID is the empty      *)
(* string), and the signal strength.                                       *)
(***************************************************************************)
EXTENDS Integers, Sequences

CONSTANTS Rssis             \* signal strengths, an int8_t in dBm
ASSUME RssiAssumption == Rssis \subseteq -128 .. 127

Ssids == {"configured", "hidden", "other"}
Record == [ssid : Ssids, rssi : Rssis]

\* Nothing selected, or one record.
Nothing == <<>>

Candidate(record) == record.ssid = "configured"

\* Mutant: the loop compares with the weakest so far.
Stronger_Weaker(record, other) == record.rssi < other.rssi
Stronger(record, other) == record.rssi > other.rssi

\* One round of the loop: what is selected after record, given what was before.
Keep(record, selected) ==
    IF Candidate(record) /\ (selected = Nothing \/ Stronger(record, selected[1]))
    THEN <<record>>
    ELSE selected

\* The loop over the records in the order the driver lists them: what is
\* selected after the first n.
Select(records) ==
    LET after[n \in Nat] == IF n = 0 THEN Nothing ELSE Keep(records[n], after[n - 1])
    IN  after[Len(records)]

\* Reference: the n-th record is ours, and none of ours is stronger.  Two of
\* ours with the same strength are the same AP here, so which of them is taken
\* is not told apart.
IsBest(n, records) ==
    /\ records[n].ssid = "configured"
    /\ \A k \in DOMAIN records :
          records[k].ssid = "configured" => records[k].rssi <= records[n].rssi
=============================================================================
