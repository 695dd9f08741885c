---------------------------- MODULE MCLiveLogs -----------------------------
(* An instance of LiveLogs for TLC.                                        *)
EXTENDS LiveLogs

EveryZone == {-1, 0, 1}
=============================================================================
