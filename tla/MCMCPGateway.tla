---------------------------- MODULE MCMCPGateway ----------------------------
(* One app with two tools, one request at a time beside the health probe,  *)
(* two registrations of the app and one restart of the platform.           *)
EXTENDS MCPGateway

CONSTANTS a1, t1, t2, r1

MCApps == {a1}
MCTools == {t1, t2}
MCRequests == {r1}
=============================================================================
