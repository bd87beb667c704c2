-------------------------- MODULE MCServiceManager --------------------------
(* Two apps, one of them an MCP app that starts by itself, two REST ports  *)
(* and a single MCP port.                                                  *)
EXTENDS ServiceManager

CONSTANTS a1, a2

MCApps == {a1, a2}
MCRestPorts == {8100, 8101}
MCMcpPorts == {9001}
MCMcpApps == {a1}
MCAutoStart == {a1}
MCRemovable == {a2}
=============================================================================
