SPECIFICATION Spec
CONSTANTS
    svc = svc
    web = web
    dash = dash
    NoApp = NoApp
    NoPort = NoPort
    Apps <- MCApps
    Services <- MCServices
    StreamlitApps <- MCStreamlitApps
    McpApps <- MCMcpApps
    WebApps <- MCWebApps
    RestPorts <- MCRestPorts
    McpPorts <- MCMcpPorts
    MaxJobs = 1
    MaxWaiting = 1
INVARIANTS
    TypeOK
    
    
    
PROPERTIES
    IdleAppIsStopped
