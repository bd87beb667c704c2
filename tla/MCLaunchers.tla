---------------------------- MODULE MCLaunchers ----------------------------
(* Two service apps with web UIs, one with an MCP server, and a Streamlit  *)
(* app share one REST port and one MCP port.                               *)
EXTENDS Launchers

CONSTANTS svc, web, dash

MCApps == {svc, web, dash}
MCServices == {svc, web}
MCStreamlitApps == {dash}
MCMcpApps == {svc}
MCWebApps == {svc, web}
MCRestPorts == {1}
MCMcpPorts == {9}
=============================================================================
