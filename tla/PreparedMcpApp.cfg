SPECIFICATION Spec
CONSTANTS
    a1 = a1
    a2 = a2
    Apps <- MCApps
    NoApp = NoApp
    NoPort = NoPort
    NoUnit = NoUnit
    RestPorts <- MCRestPorts
    McpPorts <- MCMcpPorts
    McpApps <- MCMcpApps
    AutoStart <- MCAutoStart
    Removable <- MCRemovable
CHECK_DEADLOCK FALSE
PROPERTY
    StartedMcpAppHasMcpPort
