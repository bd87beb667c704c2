--------------------------- MODULE MCPortManager ---------------------------
(* Three apps compete for two REST ports and one MCP port.        *)
EXTENDS PortManager

CONSTANTS a1, a2, a3

MCApps == {a1, a2, a3}
MCRestPorts == {8100, 8101}
MCMcpPorts == {9001}
=============================================================================
