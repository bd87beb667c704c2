SPECIFICATION Spec
CONSTANTS
    a1 = a1
    a2 = a2
    a3 = a3
    Apps <- MCApps
    NoApp = NoApp
    NoPort = NoPort
    RestPorts <- MCRestPorts
    McpPorts <- MCMcpPorts
INVARIANTS
    TypeOK
    MapsAgree
    AllocationsAreSound
PROPERTIES
    RestPortsAreLeases
    
