--------------------------- MODULE MCWifiRecovery ---------------------------
(* WifiRecovery for TLC.  Its integers end below 2^32: the run takes a      *)
(* small modulus that the largest delay just misses, and a base and a       *)
(* maximum in proportion to it, reached in the middle of the attempts.      *)
EXTENDS WifiRecovery

\* Three strengths: better, equal and worse than another.
MCRssis == {-80, -60, -40}
=============================================================================
