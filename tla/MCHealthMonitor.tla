-------------------------- MODULE MCHealthMonitor --------------------------
(* Two apps, the thresholds of the code (2 and 3 failures), one restart of *)
(* the platform.                                                           *)
EXTENDS HealthMonitor

CONSTANTS a1, a2

MCApps == {a1, a2}
=============================================================================
