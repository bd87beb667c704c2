SPECIFICATION Spec
CONSTANTS
    a1 = a1
    t1 = t1
    t2 = t2
    r1 = r1
    NoApp = NoApp
    Apps <- MCApps
    Tools <- MCTools
    Requests <- MCRequests
    MaxEntries = 2
    MaxBoots = 1
INVARIANTS
    TypeOK
    

    
